--------------------------- MODULE SharedLookups ---------------------------
(***************************************************************************)
(* What the lookups of a process are promised of its registry cache, with  *)
(* no clock, no semaphore and no worker that leads the others: a lookup is *)
(* answered with what is known of its key, or by a call that it shares.    *)
(* There is one call for a key at a time, which asks the registry only     *)
(* while nothing is known, and tells all who share it the same.            *)
(***************************************************************************)
EXTENDS Naturals

CONSTANTS
  Workers,  \* who looks up
  Keys      \* the registries' documents

VARIABLES
  cancelled, scan,
  known,   \* what is known of each key and not expired
  call,    \* the call for each key: none, "open", "asking", or "over" with its result
  wants,   \* the key that each worker waits for
  told     \* what each worker was last told in this scan

lookupVars == <<cancelled, scan, known, call, wants, told>>

Unknown == [kind |-> "cancelled", scan |-> 0]
Call(state, outcome) == [state |-> state, outcome |-> outcome]
NoCall == Call("none", Unknown)

LookupsInit ==
  /\ cancelled = FALSE /\ scan = 1
  /\ known = [k \in Keys |-> Unknown]
  /\ call = [k \in Keys |-> NoCall]
  /\ wants = [w \in Workers |-> {}]
  /\ told = [w \in Workers |-> Unknown]

\* A lookup, at once or to be waited for.
Answer(w, k) ==
  /\ wants[w] = {} /\ known[k] # Unknown
  /\ told' = [told EXCEPT ![w] = known[k]]
  /\ UNCHANGED <<cancelled, scan, known, call, wants>>

Want(w, k) ==
  /\ wants[w] = {} /\ known[k] = Unknown
  /\ wants' = [wants EXCEPT ![w] = {k}]
  /\ told' = [told EXCEPT ![w] = Unknown]
  /\ UNCHANGED <<cancelled, scan, known, call>>

Goes(k, from, to) ==
  /\ call[k].state = from
  /\ call' = [call EXCEPT ![k] = to]
  /\ UNCHANGED <<cancelled, scan, wants, told>>

Open(k) ==
  /\ \E w \in Workers : k \in wants[w]
  /\ Goes(k, "none", Call("open", Unknown)) /\ UNCHANGED known

\* Somebody else's call has found it meanwhile ...
Recall(k) ==
  known[k] # Unknown /\ Goes(k, "open", Call("over", known[k])) /\ UNCHANGED known

\* ... or not.
Ask(k) ==
  known[k] = Unknown /\ Goes(k, "open", Call("asking", Unknown)) /\ UNCHANGED known

\* Errors of a registry are kept as its documents are, and nothing else is.
Reply(k) ==
  \E kind \in {"val", "err", "timeout", "cancelled"} :
    LET outcome == [kind |-> kind, scan |-> scan] IN
    /\ kind = "cancelled" => cancelled
    /\ Goes(k, "asking", Call("over", outcome))
    /\ known' = IF kind \in {"val", "err"} THEN [known EXCEPT ![k] = outcome] ELSE known

\* Who came too late to share the call still waits.
Share(k) ==
  /\ call[k].state = "over"
  /\ call' = [call EXCEPT ![k] = NoCall]
  /\ \E sharing \in SUBSET {w \in Workers : k \in wants[w]} :
       /\ sharing # {}
       /\ wants' = [w \in Workers |-> IF w \in sharing THEN {} ELSE wants[w]]
       /\ told' = [w \in Workers |-> IF w \in sharing THEN call[k].outcome ELSE told[w]]
  /\ UNCHANGED <<cancelled, scan, known>>

Expire ==
  /\ \A k \in Keys : known'[k] \in {known[k], Unknown}
  /\ known' = [k \in Keys |-> known'[k]]
  /\ UNCHANGED <<cancelled, scan, call, wants, told>>

Cancel == cancelled' = TRUE /\ UNCHANGED <<scan, known, call, wants, told>>

NextScan ==
  /\ \A w \in Workers : wants[w] = {}
  /\ scan' = scan + 1
  /\ told' = [w \in Workers |-> Unknown]
  /\ UNCHANGED <<cancelled, known, call, wants>>

LookupsNext ==
  \/ \E w \in Workers, k \in Keys : Answer(w, k) \/ Want(w, k)
  \/ \E k \in Keys : Open(k) \/ Recall(k) \/ Ask(k) \/ Reply(k) \/ Share(k)
  \/ Expire \/ Cancel \/ NextScan

LookupsSpec == LookupsInit /\ [][LookupsNext]_lookupVars
=============================================================================
