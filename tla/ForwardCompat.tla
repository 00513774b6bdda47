----------------------------- MODULE ForwardCompat -----------------------------
(***************************************************************************)
(* forward_compat: what the clients of later versions of the protocol ask  *)
(* of this one before it goes on with a document or an entry of theirs.    *)
(*                                                                         *)
(* A record gives, for each stage, a list of requirements: a version of    *)
(* the protocol or the name of an extension, and what a client is to do    *)
(* that does not have it.  Records name the stages below only: for any     *)
(* other name the code throws an exception that none of its callers        *)
(* expects.                                                                *)
(***************************************************************************)
EXTENDS Naturals, Sequences

\* forward_compat_stage, by the names the records use.
Stages == {"WW_R", "WW_RP", "WW_RM", "WW_I", "WW_IG", "G", "G_A", "CL_E"}

\* Whatever is not "r" is FAIL_FAST_TXN.
Behaviors == {"RETRY_TXN", "FAIL_FAST_TXN"}

\* forward_compat_supported; an extension counts as the list having it or not.
Supported == [major |-> 2, minor |-> 0]

Protocols    == [kind : {"protocol"}, major : Nat, minor : Nat, behavior : Behaviors]
Extensions   == [kind : {"extension"}, known : BOOLEAN, behavior : Behaviors]
Requirements == Protocols \cup Extensions

\* A record: json_ of forward_compat, or none at all.
Records   == [Stages -> Seq(Requirements)]
NoRecord  == [stage \in Stages |-> <<>>]

\* forward_compat_protocol_requirement::check compares the two numbers one by one.
ProtocolMet(r) == ~(r.major > Supported.major \/ r.minor > Supported.minor)

IsMet(r) == IF r.kind = "protocol" THEN ProtocolMet(r) ELSE r.known

\* check_internal: the first requirement that is not met decides.
Check(stage, record) ==
    LET list  == record[stage]
        unmet == {i \in DOMAIN list : ~IsMet(list[i])}
        first == {i \in unmet : \A j \in unmet : i <= j}
    IN  IF first = {} THEN "CONTINUE" ELSE list[CHOOSE i \in first : TRUE].behavior
=============================================================================
