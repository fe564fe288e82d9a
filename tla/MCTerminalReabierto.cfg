CONSTANTS
  asesor = asesor   supervisor = supervisor
  r1 = r1  r2 = r2  s1 = s1  s2 = s2  k1 = k1  k2 = k2  d1 = d1  d2 = d2
  SinDatos = SinDatos
  Usuarios = {supervisor}
  RolesDe <- RolesDeMC
  Peticiones = {r1, r2}
  Ids = {s1}
  Claves = {k1}
  Datos = {d1}
  MaxVersion = 5
  MaxLlamadas = 2
  Caidas = FALSE
SPECIFICATION Spec
CHECK_DEADLOCK FALSE
PROPERTY
  TerminalEsFinal
