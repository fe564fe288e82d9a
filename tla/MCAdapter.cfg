CONSTANTS
  e1 = e1  e2 = e2
  Ejecuciones = {e1, e2}
  MaxRetries = 1
  Timeout = 1
  Margen = 1
  MaxEspera = 1
  Volumen = 2
  MaxDisparos = 2
  DecisionesCore = {"abierta", "rechazada", "otro4xx"}
SPECIFICATION FairSpec
INVARIANTS
  TypeOK
  SemiabiertoTieneSonda
PROPERTIES
  NegocioNoAbreCircuito
  SoloReintentaLoTransitorio
  ImplementaPuerto
  TodaLlamadaResponde
