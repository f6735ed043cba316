-------------------------- MODULE MCHostnameValidation --------------------------
EXTENDS HostnameValidation, SequencesExt

SomeTexts == {"host", "HOST", "other"}
LowerCase == [t \in SomeTexts |-> IF t = "HOST" THEN "host" ELSE t]

(* Every extension of up to three names, matching, malformed or neither; or
   none, with every common name. *)
SomeNames == [type : {"dns"}, text : {"host", "other"}, nul : BOOLEAN]
               \cup [type : {"other"}, text : {"host"}, nul : {FALSE}]
CommonNames == [text : {"HOST", "other"}, nul : BOOLEAN] \cup {NULL}
SomeCerts == [san : BoundedSeq(SomeNames, 3), cn : {NULL, [text |-> "host", nul |-> FALSE]}]
               \cup [san : {NULL}, cn : CommonNames]

===============================================================================
