-------------------------------- MODULE MCSystem --------------------------------
EXTENDS PwdManSystem

Req(m, p, f) == [method |-> m, proto |-> p, file |-> f, head |-> "framed"]

(* One request for each way through routeClient, and one with a bad header. *)
AllRequests == {Req("GET", "HTTP/1.0", "text"), Req("GET", "HTTP/1.0", "empty"),
                Req("GET", "HTTP/1.0", "missing"), Req("GET", "HTTP/1.0", "error"),
                Req("GET", "HTTP/1.0", "minus"),
                Req("HEAD", "HTTP/1.1", "text"), Req("POST", "HTTP/2.0", "text"),
                Req("GET", "HTTP/3", "error"), Req("PATCH", "HTTP/1.0", "text"),
                Req("PATCH", "HTTP/3", "text"),
                [Req("GET", "HTTP/1.0", "empty") EXCEPT !.head = "loose"]}

(* What the command line client sends for a page and for a missing page. *)
StockRequests == {Req("GET", "HTTP/1.0", "text"), Req("GET", "HTTP/1.0", "missing")}

===============================================================================
