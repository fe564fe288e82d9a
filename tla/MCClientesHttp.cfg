CONSTANTS
  c1 = c1  q1 = q1  q2 = q2  x1 = x1
  Clientes = {c1}
  Consultas = {q1, q2}
  TTL = 3
  Plazo = 2
  MaxReloj = 7
  IdsCliente = {x1}
  SinCabecera = SinCabecera
SYMMETRY Simetria
SPECIFICATION SpecHttp
INVARIANTS
  TypeOKHttp
  FrescuraAcotada
  UnSoloId
  UnEventoPorRespuesta
PROPERTIES
  ExitoRecienteEsHit
  RetrocesoAcotado
