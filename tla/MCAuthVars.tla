----------------------------- MODULE MCAuthVars -----------------------------
(* Model checking of AuthVars with two instances of the client library.     *)
EXTENDS AuthVars

MCClients == {"av", "tpm"}

\* No platform key; a key and no switch; a key and the switch turned off.
Stored(key, e) ==
  [n \in Names |-> CASE n = PK -> key [] n = SecureBootEnable -> e [] OTHER -> Absent]
MCStores == {Stored(Absent, Absent), Stored(Key, Absent), Stored(Key, 0)}

MCReads == {GetNext(PK)}
MCSets == {Set(PK, Key)}
MCEvents == {Plain("Query")}
=============================================================================
