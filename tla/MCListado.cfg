CONSTANTS
  Asesor = asesor  Supervisor = supervisor  ProductoSemilla = 12345
  Todos = todos
  Filtros = {todos, "IN_REVIEW"}
  Destinos = {"IN_REVIEW", "REJECTED"}
  Tam = 2
  MaxTam = 2
  Desfases = {6}
  MaxAltas = 1
  MaxCambios = 1
  MaxCorridas = 1
SPECIFICATION Spec
CHECK_DEADLOCK FALSE
INVARIANTS
  TypeOK
  OmisionAcotada
  PaginaCuadraConTotal
  SemillaExacta
