---------------------------- MODULE MCHttpServer -----------------------------
(* The instance of HttpServer that MCHttpServer.cfg gives TLC.  A token      *)
(* takes two ticks to earn while a second has one: a rate below one request  *)
(* per second.  A handler may run for two ticks and an upload for three.     *)
EXTENDS HttpServer

(* The flag and the file of the token with each other, each way to write one *)
(* down, whole and half pairs for TLS, and what other checks refuse.         *)
Auth(flag, file) == [DefaultArgs EXCEPT !.auth_token = flag, !.auth_token_file = file]
Tls(cert, key) == [DefaultArgs EXCEPT !.tls_cert = cert, !.tls_key = key]
CommandLines ==
    {Auth("absent", file) : file \in TokenFile}
    \cup {Auth("padded", "absent"), Auth("opaque", "given"), Auth("empty", "unreadable")}
    \cup {Tls("given", "empty"), Tls("absent", "given")}
    \cup {[Auth("given", "blank") EXCEPT !.tls_cert = "given", !.tls_key = "given"],
          [DefaultArgs EXCEPT !.stdio = TRUE],
          [DefaultArgs EXCEPT !.search_provider = "google"],
          [DefaultArgs EXCEPT !.search_provider = "searxng"]}
=============================================================================
