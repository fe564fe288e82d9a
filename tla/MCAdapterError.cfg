CONSTANTS
  e1 = e1  e2 = e2
  Ejecuciones = {e1}
  MaxRetries = 2
  Timeout = 3
  Margen = 1
  MaxEspera = 2
  Volumen = 2
  MaxDisparos = 3
  DecisionesCore = {"abierta", "404", "rechazada", "otro4xx"}
SPECIFICATION Spec
PROPERTY
  EstadosDelHandbook
