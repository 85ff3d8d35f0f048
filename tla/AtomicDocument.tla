--------------------------- MODULE AtomicDocument ---------------------------
(***************************************************************************)
(* What the store promises its callers (store.rs, "Guarantee boundary"):    *)
(* an edit is in the document entirely or not at all, an operation takes    *)
(* effect at most once however often it is retried, success is only ever    *)
(* answered for an effect the document has, and an attempt answered with an *)
(* error never takes effect.  No crash, lane, journal or directory here.    *)
(* The exception is the answer a lookup gives while an attempt is under way: *)
(* it foretells the effect and promises nothing.                            *)
(***************************************************************************)
CONSTANTS Ops,      \* operations
          Attempts  \* attempts at performing one (a retry is a new attempt)

VARIABLES doc,      \* the edits applied, as <<operation, attempt>> pairs
          answered, \* operations answered with success
          foretold, \* operations answered with success before they were decided
          rejected  \* attempts answered with an error

Init == doc = {} /\ answered = {} /\ foretold = {} /\ rejected = {}

Apply(o, a) ==
  /\ a \notin rejected
  /\ \A edit \in doc : edit[1] # o /\ edit[2] # a
  /\ doc' = doc \cup {<<o, a>>}
  /\ UNCHANGED <<answered, foretold, rejected>>

Answer(o) ==
  /\ \E edit \in doc : edit[1] = o
  /\ answered' = answered \cup {o}
  /\ UNCHANGED <<doc, foretold, rejected>>

Foretell(o) ==
  /\ foretold' = foretold \cup {o}
  /\ UNCHANGED <<doc, answered, rejected>>

Reject(a) ==
  /\ \A edit \in doc : edit[2] # a
  /\ rejected' = rejected \cup {a}
  /\ UNCHANGED <<doc, answered, foretold>>

Next == \/ \E o \in Ops, a \in Attempts : Apply(o, a)
        \/ \E o \in Ops : Answer(o) \/ Foretell(o)
        \/ \E a \in Attempts : Reject(a)

Spec == Init /\ [][Next]_<<doc, answered, foretold, rejected>>
=============================================================================
