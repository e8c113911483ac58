--------------------------- MODULE FetchPageProofs ----------------------------
(* Proofs about FetchPage, for every set of addresses, every limit and every *)
(* way in which DNS changes its answers.  None of the properties is          *)
(* inductive: each gets a part that says what is known at every stage.       *)
EXTENDS FetchPage, TLAPS

(* The loop counter and the number of requests go together, stage by stage,  *)
(* and only a finished fetch has a result.                                   *)
Counted ==
    /\ stage = "done" <=> result # "none"
    /\ stage \in {"validate", "client", "send"} => sent = hop
    /\ stage \in {"respond", "body"} => sent = hop + 1
    /\ stage \in {"client", "send", "respond", "body"} => hop <= MaxRedirects

(* Past its validation a URL is a web URL and a literal address is public;   *)
(* past build_pinned_client a domain is pinned to a public address, unless   *)
(* there was none to pin it to.                                              *)
Vetted ==
    /\ stage \in {"client", "send"} => host \in Host
    /\ ~AllowPrivate =>
        /\ stage \in {"client", "send"} /\ host \in Address => host \in Public
        /\ stage = "send" /\ DnsPin /\ host \in Domain =>
              pinned \subseteq Public /\ (resolved # {} => pinned # {})

(* What was read is part of what was sent.                                   *)
Partial == total <= size

IInv ==
    /\ TypeOK
    /\ Counted /\ RedirectsAgree
    /\ Vetted
    /\ Partial /\ BodyWholeOrRefused

-----------------------------------------------------------------------------
(* The invariant holds before a fetch.                                       *)
LEMMA InitIInv == Init => IInv
<1> SUFFICES ASSUME Init PROVE IInv
  OBVIOUS
<1>1. TypeOK
  BY FetchAssumption DEF Init, TypeOK
<1>2. Counted /\ RedirectsAgree
  BY FetchAssumption DEF Init, Counted, RedirectsAgree
<1>3. Vetted
  BY DEF Init, Vetted
<1>4. Partial /\ BodyWholeOrRefused
  BY FetchAssumption DEF Init, Partial, BodyWholeOrRefused
<1> QED
  BY <1>1, <1>2, <1>3, <1>4 DEF IInv

(* The loops of GET and HEAD keep the counters together, and within bounds.  *)
LEMMA StepCounts ==
    TypeOK /\ Counted /\ RedirectsAgree /\ [Next]_vars =>
        /\ Counted' /\ RedirectsAgree'
        /\ hop' \in 0..(MaxRedirects + 1) /\ sent' \in 0..(MaxRedirects + 1)
<1> SUFFICES ASSUME TypeOK, Counted, RedirectsAgree, [Next]_vars
             PROVE  /\ Counted' /\ RedirectsAgree'
                    /\ hop' \in 0..(MaxRedirects + 1) /\ sent' \in 0..(MaxRedirects + 1)
  OBVIOUS
<1> USE FetchAssumption DEF TypeOK, Counted, RedirectsAgree, Done, remote
<1>1. CASE Validate
  BY <1>1 DEF Validate, Passed
<1>2. CASE SharedClient \/ PinnedClient
  BY <1>2 DEF SharedClient, PinnedClient
<1>3. CASE Send
  BY <1>3 DEF Send
<1>4. CASE SendTimeout \/ Report
  BY <1>4 DEF SendTimeout, Report
<1>5. ASSUME NEW target \in Host \cup {NotWeb}, Redirect(target)
      PROVE  /\ Counted' /\ RedirectsAgree'
             /\ hop' \in 0..(MaxRedirects + 1) /\ sent' \in 0..(MaxRedirects + 1)
  BY <1>5 DEF Redirect
<1>6. CASE RedirectFails \/ Final
  BY <1>6 DEF RedirectFails, Final
<1>7. CASE ReadChunk \/ BodyEnds
  BY <1>7 DEF ReadChunk, BodyEnds
<1>8. CASE UNCHANGED vars
  BY <1>8 DEF vars
<1> QED
  BY <1>1, <1>2, <1>3, <1>4, <1>5, <1>6, <1>7, <1>8 DEF Next

(* read_capped stays below the cap and reads no more than there is.          *)
LEMMA StepReads ==
    TypeOK /\ Counted /\ Partial /\ BodyWholeOrRefused /\ [Next]_vars =>
        Partial' /\ BodyWholeOrRefused' /\ size' \in 0..BodyCap /\ total' \in 0..BodyCap
<1> SUFFICES ASSUME TypeOK, Counted, Partial, BodyWholeOrRefused, [Next]_vars
             PROVE  Partial' /\ BodyWholeOrRefused' /\ size' \in 0..BodyCap /\ total' \in 0..BodyCap
  OBVIOUS
<1> USE FetchAssumption DEF TypeOK, Counted, Partial, BodyWholeOrRefused, Done, remote
<1>1. CASE Validate \/ SharedClient \/ PinnedClient
  BY <1>1 DEF Validate, Passed, SharedClient, PinnedClient
<1>2. CASE Send \/ SendTimeout \/ Report
  BY <1>2 DEF Send, SendTimeout, Report
<1>3. ASSUME NEW target \in Host \cup {NotWeb}, Redirect(target)
      PROVE  Partial' /\ BodyWholeOrRefused' /\ size' \in 0..BodyCap /\ total' \in 0..BodyCap
  BY <1>3 DEF Redirect
<1>4. CASE RedirectFails \/ Final
  BY <1>4 DEF RedirectFails, Final
<1>5. CASE ReadChunk
  BY <1>5 DEF ReadChunk
<1>6. CASE BodyEnds
  BY <1>6 DEF BodyEnds
<1>7. CASE UNCHANGED vars
  BY <1>7 DEF vars
<1> QED
  BY <1>1, <1>2, <1>3, <1>4, <1>5, <1>6, <1>7 DEF Next

(* The addresses keep their types.                                           *)
LEMMA StepTypes ==
    TypeOK /\ Counted /\ RedirectsAgree /\ Partial /\ BodyWholeOrRefused /\ [Next]_vars => TypeOK'
<1> SUFFICES ASSUME TypeOK, Counted, RedirectsAgree, Partial, BodyWholeOrRefused, [Next]_vars
             PROVE  TypeOK'
  OBVIOUS
<1>0. /\ hop' \in 0..(MaxRedirects + 1) /\ sent' \in 0..(MaxRedirects + 1)
      /\ size' \in 0..BodyCap /\ total' \in 0..BodyCap
  BY StepCounts, StepReads
<1> USE <1>0 DEF TypeOK, Done, remote
<1>1. CASE Validate
  BY <1>1 DEF Validate, Passed
<1>2. CASE SharedClient
  BY <1>2 DEF SharedClient
<1>3. CASE PinnedClient
  BY <1>3 DEF PinnedClient, Answers, Overrides
<1>4. CASE Send
  <2>1. \A answer \in Answers : Targets(answer) \subseteq Address
    BY DEF Targets, Answers
  <2> QED
    BY <1>4, <2>1 DEF Send
<1>5. CASE SendTimeout \/ Report
  BY <1>5 DEF SendTimeout, Report
<1>6. ASSUME NEW target \in Host \cup {NotWeb}, Redirect(target) PROVE TypeOK'
  BY <1>6 DEF Redirect
<1>7. CASE RedirectFails \/ Final
  BY <1>7 DEF RedirectFails, Final
<1>8. CASE ReadChunk \/ BodyEnds
  BY <1>8 DEF ReadChunk, BodyEnds
<1>9. CASE UNCHANGED vars
  BY <1>9 DEF vars
<1> QED
  BY <1>1, <1>2, <1>3, <1>4, <1>5, <1>6, <1>7, <1>8, <1>9 DEF Next

(* Validation and pinning leave only public addresses to connect to.         *)
LEMMA StepVets == TypeOK /\ Vetted /\ [Next]_vars => Vetted'
<1> SUFFICES ASSUME TypeOK, Vetted, [Next]_vars
             PROVE  Vetted'
  OBVIOUS
<1>0. /\ Domain \cap Address = {} /\ Public \cap Private = {} /\ NotWeb \notin Host
      /\ Host = Domain \cup Address /\ Address = Public \cup Private
      /\ host \in Host \cup {NotWeb}
  BY FetchAssumption DEF TypeOK, Host, Address
<1> USE <1>0 DEF Vetted, AllowPrivate, DnsPin, Done, remote
<1>1. CASE Validate
  BY <1>1 DEF Validate, Passed
<1>2. CASE SharedClient
  BY <1>2 DEF SharedClient
<1>3. CASE PinnedClient
  BY <1>3 DEF PinnedClient, Allowed, Overrides
<1>4. CASE Send
  BY <1>4 DEF Send
<1>5. CASE SendTimeout \/ Report
  BY <1>5 DEF SendTimeout, Report
<1>6. ASSUME NEW target \in Host \cup {NotWeb}, Redirect(target) PROVE Vetted'
  BY <1>6 DEF Redirect
<1>7. CASE RedirectFails \/ Final
  BY <1>7 DEF RedirectFails, Final
<1>8. CASE ReadChunk \/ BodyEnds
  BY <1>8 DEF ReadChunk, BodyEnds
<1>9. CASE UNCHANGED vars
  BY <1>9 DEF vars
<1> QED
  BY <1>1, <1>2, <1>3, <1>4, <1>5, <1>6, <1>7, <1>8, <1>9 DEF Next

(* A connection goes to a literal that was validated, or to the pin.         *)
LEMMA StepContacts ==
    IInv /\ [Next]_vars =>
        (DnsPin /\ ~AllowPrivate /\ ~EmptyPin => contacted' \subseteq contacted \cup Public)
<1> SUFFICES ASSUME IInv, [Next]_vars, DnsPin, ~AllowPrivate, ~EmptyPin
             PROVE  contacted' \subseteq contacted \cup Public
  OBVIOUS
<1>1. CASE Send
  <2>1. host \in Address => host \in Public
    BY <1>1 DEF Send, IInv, Vetted
  <2>2. host \notin Address => pinned # {} /\ pinned \subseteq Public
    BY <1>1 DEF Send, IInv, Vetted, Host, EmptyPin
  <2>3. ASSUME NEW answer \in Answers PROVE Targets(answer) \subseteq Public
    BY <2>1, <2>2 DEF Targets
  <2> QED
    BY <1>1, <2>3 DEF Send
<1>2. CASE contacted' = contacted
  BY <1>2
<1> QED
  BY <1>1, <1>2 DEF Next, Validate, SharedClient, PinnedClient, SendTimeout, Report, Redirect,
                    RedirectFails, Final, ReadChunk, BodyEnds, vars

-----------------------------------------------------------------------------
(* The inductive invariant holds in every reachable state.                   *)
THEOREM Invariance == Spec => []IInv
<1>1. IInv /\ [Next]_vars => IInv'
  BY StepCounts, StepReads, StepTypes, StepVets DEF IInv
<1> QED
  BY <1>1, InitIInv, PTL DEF Spec

(* Every variable keeps its type; in particular the loops end.               *)
THEOREM TypeCorrect == Spec => []TypeOK
<1>1. IInv => TypeOK
  BY DEF IInv
<1> QED
  BY <1>1, Invariance, PTL

(* With pinning and without private hosts, no connection is made to an       *)
(* address that the guards of validation.rs would block, for any number of   *)
(* redirects and any answers of DNS between validation, pinning and          *)
(* connection, unless the client was built from an answer without addresses. *)
THEOREM ValidatedOnly == Spec => OnlyValidatedContacted
<1>1. IInv /\ [Next]_vars =>
        [DnsPin /\ ~AllowPrivate /\ ~EmptyPin => contacted' \subseteq contacted \cup Public]_vars
  BY StepContacts
<1> QED
  BY <1>1, Invariance, PTL DEF Spec, OnlyValidatedContacted

(* The two redirect loops, which count in different ways, send as many       *)
(* requests as each other before they give up.                               *)
THEOREM LoopsAgree == Spec => []RedirectsAgree
<1>1. IInv => RedirectsAgree
  BY DEF IInv
<1> QED
  BY <1>1, Invariance, PTL

(* read_capped returns a body whole or not at all, whatever its chunks.      *)
THEOREM WholeOrRefused == Spec => []BodyWholeOrRefused
<1>1. IInv => BodyWholeOrRefused
  BY DEF IInv
<1> QED
  BY <1>1, Invariance, PTL
=============================================================================
