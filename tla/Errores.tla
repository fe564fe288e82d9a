------------------------------- MODULE Errores --------------------------------
(***************************************************************************)
(* How the error of a use case or of the port becomes the status of the    *)
(* answer: the toHttp of its controller, which turns some errors into      *)
(* HttpExceptions, and AllExceptionsFilter, which renders what is thrown.  *)
(***************************************************************************)

\* The errors the port of the Core answers, by their code.
ErroresCore == {"CORE_NOT_FOUND", "CORE_BUSINESS_VALIDATION", "CORE_CIRCUIT_OPEN",
                "CORE_UPSTREAM_UNAVAILABLE"}

\* The rest of DomainError.
ErroresSolicitud == {"SOLICITUD_NOT_FOUND", "INVALID_STATE_TRANSITION", "IDEMPOTENCY_KEY_CONFLICT"}

\* What may be thrown: an exception of Nest, which carries its status, or an error as it is.
HttpException(status) == [clase |-> "http", status |-> status]

Cruda(code) == [clase |-> "cruda", code |-> code]

\* SolicitudesController.toHttp.
ToHttpSolicitudes(code) ==
  CASE code = "SOLICITUD_NOT_FOUND" -> HttpException(404)
    [] code \in {"INVALID_STATE_TRANSITION", "IDEMPOTENCY_KEY_CONFLICT"} -> HttpException(409)
    [] OTHER -> Cruda(code)

\* ClientesController.toHttp.
ToHttpClientes(code) ==
  IF code = "CORE_NOT_FOUND" THEN HttpException(404) ELSE HttpException(502)

\* toProblem: an HttpException first, then each error of the Core, then every other
\* DomainError; anything else is a 500.
StatusHttp(excepcion) ==
  IF excepcion.clase = "http" THEN excepcion.status
  ELSE CASE excepcion.code = "CORE_NOT_FOUND"            -> 404
         [] excepcion.code = "CORE_BUSINESS_VALIDATION"  -> 422
         [] excepcion.code = "CORE_CIRCUIT_OPEN"         -> 503
         [] excepcion.code = "CORE_UPSTREAM_UNAVAILABLE" -> 502
         [] excepcion.code \in ErroresSolicitud          -> 422
         [] OTHER                                        -> 500

=============================================================================
