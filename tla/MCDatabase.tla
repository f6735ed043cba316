------------------------------- MODULE MCDatabase -------------------------------
EXTENDS Database, TLC

(* The three rows of createTable. *)
ThreeRows == <<<<"foo", "bar">>, <<"foofoo", "extrabar">>, <<"TheFooestF00", "H1gh3stBar">>>>

Plain(n) == [name |-> n, user |-> "", pass |-> ""]
Auth(u, w) == [name |-> "authenticateUser", user |-> u, pass |-> w]

(* Every call; a known user with the right and a wrong password, and an
   unknown one; and a name with a quote. *)
AllCalls == {Plain(n) : n \in CallNames \ {"authenticateUser"}}
              \cup {Auth("foo", "bar"), Auth("foofoo", "bar"), Auth("bar", "bar"), Auth("o'hara", "bar")}

(* What the SQL in such a name may leave: no table, one with a row of its own. *)
OtherTables == {NoTable, {<<"bar", "bar">>}}

(* A set-up and a user who gives the right password. *)
TestCalls == {Plain("createTable"), Auth("TheFooestF00", "H1gh3stBar")}

Symmetry == Permutations(Procs)

===============================================================================
