CONSTANTS
  asesor = asesor  supervisor = supervisor  r1 = r1  s1 = s1  k1 = k1  d1 = d1
  SinDatos = SinDatos
  Usuarios = {asesor, supervisor}
  RolesDe <- RolesDeMC
  Peticiones = {r1}
  Ids = {s1}
  Claves = {k1}
  Datos = {d1}
  MaxVersion = 8
  MaxLlamadas = 3
  Caidas = FALSE
SPECIFICATION SpecMetricas
CHECK_DEADLOCK FALSE
INVARIANTS
  TypeOKMetricas
  DecideUnSupervisor
  HuerfanoDejaMarca
  GaugeSigueAlHistorial
