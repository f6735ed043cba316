--------------------------- MODULE HostnameValidation ---------------------------
(***************************************************************************)
(* validate_hostname of validation/openssl_validation.h: the names of the  *)
(* subject alternative name extension (SAN) in their order, the first one  *)
(* that matches or holds a NUL character deciding, and the common name     *)
(* when there is no SAN.  Certificates come from OpenSSL; a name is a text *)
(* and whether a NUL is embedded in it.                                    *)
(***************************************************************************)
EXTENDS Integers, Sequences

CONSTANTS Texts,   \* host names and names in certificates
          Lower,   \* Texts -> Texts, the letters of a text in lower case
          Certs,   \* what a server may present
          NULL

ASSUME TextsAssumption == NULL \notin Texts /\ Lower \in [Texts -> Texts]

(* A GENERAL_NAME: only DNS names are looked at. *)
GeneralName == [type : {"dns", "other"}, text : Texts, nul : BOOLEAN]
CommonName  == [text : Texts, nul : BOOLEAN]

(* san is NULL when X509_get_ext_d2i finds no extension it can read, cn when
   the subject has no common name. *)
ASSUME CertsAssumption ==
  /\ NULL \notin Certs
  /\ \A c \in Certs : /\ c.san = NULL \/ c.san \in Seq(GeneralName)
                      /\ c.cn = NULL \/ c.cn \in CommonName

Results == {"MatchFound", "MatchNotFound", "NoSANPresent", "MalformedCertificate", "Error"}

VARIABLES hostname, cert,   \* the arguments
          pc,       \* call, san, loop, free, cn, returned
          i,        \* the loop's counter, from 1
          held,     \* san_names is allocated
          result

vars == <<hostname, cert, pc, i, held, result>>

strcasecmp(a, b) == Lower[a] = Lower[b]

-------------------------------------------------------------------------------
Init == /\ hostname \in Texts \cup {NULL}
        /\ cert \in Certs \cup {NULL}
        /\ pc = "call" /\ i = 1 /\ held = FALSE
        /\ result = "MatchNotFound"

BadArguments == /\ pc = "call" /\ (hostname = NULL \/ cert = NULL)
                /\ pc' = "returned" /\ result' = "Error"
                /\ UNCHANGED <<hostname, cert, i, held>>

GoodArguments == /\ pc = "call" /\ hostname # NULL /\ cert # NULL
                 /\ pc' = "san"
                 /\ UNCHANGED <<hostname, cert, i, held, result>>

NoSAN == /\ pc = "san" /\ cert.san = NULL
         /\ pc' = "cn" /\ result' = "NoSANPresent"
         /\ UNCHANGED <<hostname, cert, i, held>>

(* A mutant of ExtractSAN: the loop starts one too early. *)
ExtractSANFromZero == /\ pc = "san" /\ cert.san # NULL
                      /\ pc' = "loop" /\ i' = 0 /\ held' = TRUE
                      /\ UNCHANGED <<hostname, cert, result>>

ExtractSAN == /\ pc = "san" /\ cert.san # NULL
              /\ pc' = "loop" /\ i' = 1 /\ held' = TRUE
              /\ UNCHANGED <<hostname, cert, result>>

(* The name at the counter, of a type that is compared. *)
DnsName == cert.san[i]
IsDns == i <= Len(cert.san) /\ cert.san[i].type = "dns"

(* A mutant of NextName: other types do not advance the counter. *)
NextNameStuck == /\ pc = "loop" /\ i <= Len(cert.san)
                 /\ IsDns => ~DnsName.nul /\ ~strcasecmp(hostname, DnsName.text)
                 /\ i' = IF IsDns THEN i + 1 ELSE i
                 /\ UNCHANGED <<hostname, cert, pc, held, result>>

(* Not a DNS name, or one that says nothing of the host. *)
NextName == /\ pc = "loop" /\ i <= Len(cert.san)
            /\ IsDns => ~DnsName.nul /\ ~strcasecmp(hostname, DnsName.text)
            /\ i' = i + 1
            /\ UNCHANGED <<hostname, cert, pc, held, result>>

(* A mutant of MalformedName: it returns where the code breaks. *)
MalformedNameReturns == /\ pc = "loop" /\ IsDns /\ DnsName.nul
                        /\ pc' = "returned" /\ result' = "MalformedCertificate"
                        /\ UNCHANGED <<hostname, cert, i, held>>

MalformedName == /\ pc = "loop" /\ IsDns /\ DnsName.nul
                 /\ pc' = "free" /\ result' = "MalformedCertificate"
                 /\ UNCHANGED <<hostname, cert, i, held>>

(* A mutant of MatchingName: the text before a NUL is compared. *)
MatchingNameNul == /\ pc = "loop" /\ IsDns
                   /\ strcasecmp(hostname, DnsName.text)
                   /\ pc' = "free" /\ result' = "MatchFound"
                   /\ UNCHANGED <<hostname, cert, i, held>>

MatchingName == /\ pc = "loop" /\ IsDns /\ ~DnsName.nul
                /\ strcasecmp(hostname, DnsName.text)
                /\ pc' = "free" /\ result' = "MatchFound"
                /\ UNCHANGED <<hostname, cert, i, held>>

(* A mutant of NoMoreNames: the last name is left out. *)
NoMoreNamesEarly == /\ pc = "loop" /\ i >= Len(cert.san)
                    /\ pc' = "free"
                    /\ UNCHANGED <<hostname, cert, i, held, result>>

NoMoreNames == /\ pc = "loop" /\ i > Len(cert.san)
               /\ pc' = "free"
               /\ UNCHANGED <<hostname, cert, i, held, result>>

(* The names are freed; the result is not NoSANPresent, so it is returned. *)
FreeSAN == /\ pc = "free"
           /\ pc' = "returned" /\ held' = FALSE
           /\ UNCHANGED <<hostname, cert, i, result>>

(* matches_common_name. *)
MatchesCommonName ==
  /\ pc = "cn"
  /\ pc' = "returned"
  /\ result' = CASE cert.cn = NULL -> "Error"
                 [] cert.cn # NULL /\ cert.cn.nul -> "MalformedCertificate"
                 [] cert.cn # NULL /\ ~cert.cn.nul ->
                      IF strcasecmp(hostname, cert.cn.text) THEN "MatchFound"
                                                            ELSE "MatchNotFound"
  /\ UNCHANGED <<hostname, cert, i, held>>

Validate == \/ BadArguments \/ GoodArguments \/ NoSAN \/ ExtractSAN
            \/ NextName \/ MalformedName \/ MatchingName \/ NoMoreNames
            \/ FreeSAN \/ MatchesCommonName

Returned == pc = "returned" /\ UNCHANGED vars

Next == Validate \/ Returned

(* One thread, nothing to wait for. *)
Spec == Init /\ [][Next]_vars /\ WF_vars(Validate)

-------------------------------------------------------------------------------
(* Every variable has its type; the counter stays on the names or one behind. *)
TypeOK == /\ hostname \in Texts \cup {NULL}
          /\ cert \in Certs \cup {NULL}
          /\ pc \in {"call", "san", "loop", "free", "cn", "returned"}
          /\ i \in Nat \ {0}
          /\ pc = "loop" => i <= Len(cert.san) + 1
          /\ held \in BOOLEAN
          /\ result \in Results

(* A name that speaks for the host. *)
Names(n) == ~n.nul /\ strcasecmp(hostname, n.text)

(* The DNS names of the SAN. *)
DnsAt(j) == cert.san[j].type = "dns"

(* validate_hostname returns MatchFound only if a whole name of the certificate
   is the host's, and only a name of the SAN when there is one: the common name
   never overrides it. *)
MatchIsSound ==
  pc = "returned" /\ result = "MatchFound" =>
    \/ cert.san # NULL /\ \E j \in 1 .. Len(cert.san) : DnsAt(j) /\ Names(cert.san[j])
    \/ cert.san = NULL /\ cert.cn # NULL /\ Names(cert.cn)

(* It returns MatchNotFound only after every name that counts was looked at:
   none of them is the host's and none holds a NUL. *)
NotFoundIsComplete ==
  pc = "returned" /\ result = "MatchNotFound" =>
    /\ cert.san # NULL =>
         \A j \in 1 .. Len(cert.san) :
           DnsAt(j) => ~cert.san[j].nul /\ ~Names(cert.san[j])
    /\ cert.san = NULL => cert.cn # NULL /\ ~cert.cn.nul /\ ~Names(cert.cn)

(* The names X509_get_ext_d2i allocated are freed on every way out, and the
   internal NoSANPresent does not leave validate_hostname. *)
SanReleased == pc = "returned" => ~held /\ result # "NoSANPresent"

(* The loop over the names ends and validate_hostname returns. *)
ValidateReturns == <>(pc = "returned")

===============================================================================
