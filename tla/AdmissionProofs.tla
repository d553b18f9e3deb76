--------------------------- MODULE AdmissionProofs ---------------------------
(***************************************************************************)
(* Theorems about Admission, for every value of its constants.             *)
(*                                                                         *)
(* First what its data refer to: the messages of a session all carry its   *)
(* revision, because every frozen or late input refers to a session of its *)
(* own revision; attachments are imported before their message is accepted *)
(* (Engine.submit, Access.Prepare).                                        *)
(*                                                                         *)
(* Then what becomes of the inputs of a thread: a trigger is accepted      *)
(* once, no request has a rival, the attachments of a run stay within their*)
(* quota, triggers are accepted in thread order, Admission implements      *)
(* Intake and so hands no post to an agent twice, and a thread has one run *)
(* at a time.                                                              *)
(*                                                                         *)
(* A request that arrives late must not outlive the frozen input it was    *)
(* sent for (Timely): the connector cannot tell the two apart afterwards.  *)
(***************************************************************************)
EXTENDS Admission, DataFacts, SequenceTheorems

LEMMA LatestBounded ==
    ASSUME NEW n \in Nat, NEW S, S \subseteq 1..n
    PROVE  Latest(S) \in 0..n /\ (Latest(S) # 0 => Latest(S) \in S)
<1>1. CASE S = {}
  BY <1>1 DEF Latest
<1>2. CASE S # {}
  <2>1. S \subseteq 0..n
    OBVIOUS
  <2>2. Max(S) \in S
    BY <1>2, <2>1, MaxOfBounded
  <2>3. Latest(S) = Max(S)
    BY <1>2 DEF Latest
  <2>4. Latest(S) \in S
    BY <2>2, <2>3
  <2>5. Latest(S) \in 1..n
    BY <2>4
  <2> QED BY <2>4, <2>5
<1> QED BY <1>1, <1>2

-----------------------------------------------------------------------------
(* The inductive invariant, and how it survives steps that only add to what
   Orpheus keeps.                                                           *)

IInv == TypeOK /\ Refs

OrpheusRefs ==
    /\ \A r \in DOMAIN runs : runs[r].sess \in DOMAIN sessions
    /\ \A i \in DOMAIN msgs :
          /\ msgs[i].run \in DOMAIN runs
          /\ msgs[i].sess = runs[msgs[i].run].sess
          /\ sessions[msgs[i].sess].rev = msgs[i].env.rev

(* Orpheus forgets nothing: sessions keep their revision, runs their session. *)
Grows ==
    /\ OrpheusOK' /\ OrpheusRefs'
    /\ Len(sessions) <= Len(sessions') /\ Len(runs) <= Len(runs') /\ Len(msgs) <= Len(msgs')
    /\ \A s \in DOMAIN sessions : sessions'[s].rev = sessions[s].rev
    /\ \A r \in DOMAIN runs : runs'[r].sess = runs[r].sess

LEMMA DomainsGrow ==
    ASSUME OrpheusOK, Grows
    PROVE  /\ DOMAIN sessions \subseteq DOMAIN sessions'
           /\ DOMAIN runs \subseteq DOMAIN runs'
           /\ DOMAIN msgs \subseteq DOMAIN msgs'
BY DEF Grows, OrpheusOK

LEMMA InputRefsGrow ==
    ASSUME OrpheusOK, Grows, NEW e \in Envelopes, InputRefs(e)
    PROVE  InputRefs(e)'
BY DomainsGrow DEF InputRefs, Grows

LEMMA StGrows ==
    ASSUME NEW D, NEW E, D \subseteq E, NEW f \in UNION {[R -> Statuses] : R \in SUBSET D}
    PROVE  f \in UNION {[R -> Statuses] : R \in SUBSET E}
<1>1. PICK R \in SUBSET D : f \in [R -> Statuses]
  OBVIOUS
<1> QED BY <1>1, R \in SUBSET E

(* The snapshot of a pass stays well formed while Orpheus moves on.         *)
LEMMA SnapFrame ==
    ASSUME OrpheusOK, Grows, SnapOK, snap' = snap, at' = at,
           pc' \in {"runs", "history"} => pc' = pc
    PROVE  SnapOK'
<1>1. snap.st \in UNION {[R -> Statuses] : R \in SUBSET (DOMAIN runs')}
  BY DomainsGrow, StGrows DEF SnapOK
<1>2. snap.n \in 0..Len(sessions')
  BY DEF SnapOK, Grows, OrpheusOK
<1>3. snap.usable \in SUBSET DOMAIN sessions' /\ snap.hist \in SUBSET DOMAIN msgs'
        /\ snap.rejected \in SUBSET DOMAIN msgs'
  BY DomainsGrow DEF SnapOK
<1> QED BY <1>1, <1>2, <1>3 DEF SnapOK

(* The snapshot a pass starts with.                                         *)
LEMMA SnapOfOK ==
    ASSUME NEW D, NEW M, NEW E, NEW k \in Nat, NEW n \in 0..k, NEW U \in SUBSET D
    PROVE  /\ SnapOf(n, U) \in [n : 0..k, usable : SUBSET D,
                                st : UNION {[R -> Statuses] : R \in SUBSET E},
                                hist : SUBSET M, rejected : SUBSET M]
           /\ SnapOf(n, U).n = n
<1> DEFINE f == [r \in {} |-> "queued"]
<1>1. f \in [{} -> Statuses]
  BY DEF Statuses
<1>2. f \in UNION {[R -> Statuses] : R \in SUBSET E}
  BY <1>1, {} \in SUBSET E
<1>3. SnapOf(n, U) = [n |-> n, usable |-> U, st |-> f, hist |-> {}, rejected |-> {}]
  BY DEF SnapOf
<1> HIDE DEF f
<1> QED BY <1>2, <1>3

LEMMA NoSnapOK ==
    ASSUME OrpheusOK', snap' = NoSnap, at' = 0, pc' \notin {"runs", "history"}
    PROVE  SnapOK'
<1>1. Len(sessions') \in Nat /\ 0 \in 0..Len(sessions')
  BY DEF OrpheusOK
<1>2. /\ NoSnap \in [n : 0..Len(sessions'), usable : SUBSET (DOMAIN sessions'),
                     st : UNION {[R -> Statuses] : R \in SUBSET (DOMAIN runs')},
                     hist : SUBSET (DOMAIN msgs'), rejected : SUBSET (DOMAIN msgs')]
      /\ NoSnap.n = 0
  <2>1. {} \in SUBSET (DOMAIN sessions')
    OBVIOUS
  <2> QED BY <1>1, <2>1, SnapOfOK DEF NoSnap
<1> QED BY <1>2 DEF SnapOK

LEMMA GrowsUnchanged ==
    ASSUME IInv, UNCHANGED orpheus
    PROVE  Grows
<1>1. OrpheusOK'
  BY DEF IInv, TypeOK, OrpheusOK, orpheus
<1>3. OrpheusRefs'
  BY DEF IInv, Refs, OrpheusRefs, orpheus
<1>2. Len(sessions) \in Int /\ Len(runs) \in Int /\ Len(msgs) \in Int
  BY DEF IInv, TypeOK, OrpheusOK
<1> QED BY <1>1, <1>2, <1>3 DEF Grows, orpheus

-----------------------------------------------------------------------------
(* What a pass offers refers to sessions of its own revision.               *)

LEMMA Elements ==
    ASSUME OrpheusOK
    PROVE  /\ Len(sessions) \in Nat /\ DOMAIN sessions = 1..Len(sessions)
           /\ Len(runs) \in Nat /\ DOMAIN runs = 1..Len(runs)
           /\ Len(msgs) \in Nat /\ DOMAIN msgs = 1..Len(msgs)
           /\ \A s \in DOMAIN sessions : sessions[s] \in [rev : Revs, usable : BOOLEAN]
           /\ \A r \in DOMAIN runs : runs[r] \in [sess : Nat, st : Statuses]
           /\ \A i \in DOMAIN msgs : msgs[i] \in [env : Envelopes, sess : Nat, run : Nat]
BY SeqElements DEF OrpheusOK

LEMMA RunBounded ==
    ASSUME IInv
    PROVE  Run # 0 => Run \in DOMAIN snap.st /\ Run \in DOMAIN runs
<1>1. PICK R \in SUBSET (DOMAIN runs) : snap.st \in [R -> Statuses]
  BY DEF IInv, TypeOK, SnapOK
<1>2. Active \subseteq DOMAIN snap.st /\ Active \subseteq DOMAIN runs
  BY <1>1 DEF Active
<1>3. Len(runs) \in Nat /\ DOMAIN runs = 1..Len(runs)
  BY DEF IInv, TypeOK, OrpheusOK
<1>4. Latest(Active) # 0 => Latest(Active) \in Active
  <2>1. Active \subseteq 1..Len(runs)
    BY <1>2, <1>3
  <2> QED BY <2>1, <1>3, LatestBounded
<1> QED BY <1>2, <1>4 DEF Run

LEMMA TargetRefs ==
    ASSUME IInv, ~Closed, NEW e \in Envelopes, e.rev = rev
    PROVE  Target(e) \in Envelopes /\ InputRefs(Target(e))
<1>1. CASE Run # 0
  <2>1. Run \in DOMAIN runs /\ Run \in Nat
    BY <1>1, RunBounded DEF IInv, TypeOK, OrpheusOK
  <2>2. Current \in DOMAIN sessions /\ Current \in Nat
    BY <2>1 DEF Current, IInv, Refs, TypeOK, OrpheusOK
  <2>3. Target(e) = [e EXCEPT !.sess = Current, !.run = Run]
    BY <1>1 DEF Target
  <2>4. sessions[Current].rev = rev
    BY <1>1 DEF Closed
  <2>5. /\ Target(e).sess = Current /\ Target(e).run = Run /\ Target(e).rev = rev
        /\ Target(e) \in Envelopes
    BY <2>1, <2>2, <2>3 DEF Envelopes
  <2>6. runs[Run].sess = Current
    BY DEF Current
  <2> QED BY <2>1, <2>2, <2>4, <2>5, <2>6 DEF InputRefs
<1>2. CASE Run = 0
  <2> DEFINE s == IF Initial THEN 0 ELSE snap.n
  <2>1. Target(e) = [e EXCEPT !.sess = s, !.run = 0]
    BY <1>2 DEF Target
  <2>2. s \in Nat /\ (s # 0 => s \in DOMAIN sessions)
    BY DEF IInv, TypeOK, SnapOK, OrpheusOK
  <2>3. s # 0 => sessions[s].rev = rev
    BY DEF Initial, Reusable
  <2> HIDE DEF s
  <2>4. s \in Nat
    BY <2>2
  <2> DEFINE f == [e EXCEPT !.sess = s, !.run = 0]
  <2>5. f \in Envelopes /\ f.sess = s /\ f.run = 0 /\ f.rev = rev
    BY <2>4 DEF Envelopes
  <2>6. Target(e) = f
    BY <2>1
  <2> HIDE DEF f
  <2> QED BY <2>6, <2>2, <2>3, <2>5 DEF InputRefs
<1> QED BY <1>1, <1>2

LEMMA TargetRun ==
    ASSUME NEW e \in Envelopes
    PROVE  Target(e).run = Run /\ Target(e).rev = e.rev /\ Target(e).link = e.link
BY DEF Target, Envelopes

LEMMA PostsOfCandidates ==
    ASSUME IInv, Candidates # {}
    PROVE  Min(PostsOf(Candidates)) \in Posts /\ Batch \in SUBSET (Posts \X (0..MaxEdits))
<1>1. Candidates \in SUBSET (Posts \X (0..MaxEdits))
  BY DEF IInv, TypeOK, ConnectorOK, Threads, Candidates
<1>2. PostsOf(Candidates) \subseteq Posts /\ PostsOf(Candidates) # {}
  BY <1>1 DEF PostsOf
<1>3. Posts \subseteq Nat
  BY DEF Posts
<1>4. Min(PostsOf(Candidates)) \in PostsOf(Candidates)
  BY <1>2, <1>3, MinOfNat
<1>5. InWindow \subseteq Candidates
  BY DEF InWindow
<1>6. FirstOnly \subseteq Candidates /\ UNION Fitting \subseteq Candidates
  BY <1>5 DEF FirstOnly, Fitting, Prefixes
<1>7. Batch \subseteq Candidates
  BY <1>6 DEF Batch
<1> QED BY <1>1, <1>2, <1>4, <1>7

LEMMA FreshOK ==
    ASSUME IInv, ~Closed, Candidates # {}
    PROVE  Fresh \in Envelopes /\ InputRefs(Fresh) /\ Fresh.run = Run
<1> DEFINE e == [anchor |-> Min(PostsOf(Candidates)), vers |-> Batch, rev |-> rev, link |-> 0,
                 after |-> IF snap.n = 0 THEN 0 ELSE LatestRun(snap.n), sess |-> 0, run |-> 0]
<1>1. LatestRun(snap.n) \in Nat
  <2>1. PICK R \in SUBSET (DOMAIN runs) : snap.st \in [R -> Statuses]
    BY DEF IInv, TypeOK, SnapOK
  <2>2. {r \in DOMAIN snap.st : runs[r].sess = snap.n} \subseteq 1..Len(runs) /\ Len(runs) \in Nat
    BY <2>1 DEF IInv, TypeOK, OrpheusOK
  <2>3. LatestRun(snap.n) \in 0..Len(runs)
    BY <2>2, LatestBounded DEF LatestRun
  <2> QED BY <2>3
<1>2. rev \in Revs
  BY DEF IInv, TypeOK, ConnectorOK
<1>3. e \in Envelopes
  BY <1>1, <1>2, PostsOfCandidates DEF Envelopes
<1>4. e.rev = rev
  OBVIOUS
<1>5. Fresh = Target(e)
  BY DEF Fresh
<1> HIDE DEF e
<1> QED BY <1>3, <1>4, <1>5, TargetRefs, TargetRun

LEMMA TransferableOne ==
    ASSUME IInv, Transferable # {}
    PROVE  FirstTransferable \in Transferable /\ FirstTransferable \in DOMAIN msgs
<1>1. Transferable \subseteq DOMAIN msgs
  BY DEF Transferable, IInv, TypeOK, SnapOK
<1>2. DOMAIN msgs \subseteq Nat /\ \A i \in DOMAIN msgs : msgs[i].sess \in Nat
  <2>1. \A i \in DOMAIN msgs : i \in Nat /\ msgs[i].sess \in Nat
    BY Elements DEF IInv, TypeOK
  <2> QED BY <2>1
<1> DEFINE S == {msgs[i].sess : i \in Transferable}
<1>3. S \subseteq Nat /\ S # {}
  BY <1>1, <1>2
<1>4. Min(S) \in S
  <2> HIDE DEF S
  <2> QED BY <1>3, MinOfNat
<1> DEFINE U == {i \in Transferable : msgs[i].sess = Min(S)}
<1>5. U \subseteq Nat /\ U # {}
  BY <1>1, <1>2, <1>4
<1>6. Min(U) \in U
  <2> HIDE DEF U
  <2> QED BY <1>5, MinOfNat
<1>7. FirstTransferable = Min(U)
  BY DEF FirstTransferable
<1> QED BY <1>1, <1>6, <1>7

LEMMA TransferOK ==
    ASSUME IInv, ~Closed, Transferable # {}
    PROVE  Transfer \in Envelopes /\ InputRefs(Transfer) /\ Transfer.run = Run
<1> DEFINE k == FirstTransferable
<1> DEFINE e == [msgs[k].env EXCEPT !.rev = rev, !.link = k, !.after = 0]
<1>1. k \in DOMAIN msgs /\ k \in Nat
  BY TransferableOne DEF IInv, TypeOK, OrpheusOK
<1>2. msgs[k].env \in Envelopes
  BY <1>1, Elements DEF IInv, TypeOK
<1>3. rev \in Revs
  BY DEF IInv, TypeOK, ConnectorOK
<1> HIDE DEF k
<1>4. e \in Envelopes /\ e.rev = rev
  BY <1>1, <1>2, <1>3 DEF Envelopes
<1>5. Transfer = Target(e)
  BY DEF Transfer, k
<1> HIDE DEF e
<1> QED BY <1>4, <1>5, TargetRefs, TargetRun

LEMMA OfferOK ==
    ASSUME IInv, ~Closed, NEW e \in Offer
    PROVE  e \in Envelopes /\ InputRefs(e) /\ e.run = Run
BY FreshOK, TransferOK DEF Offer, Due

-----------------------------------------------------------------------------
(* What a submission does to Orpheus.                                       *)

LEMMA MessageAdded ==
    ASSUME IInv, sessions' \in Seq([rev : Revs, usable : BOOLEAN]),
           runs' \in Seq([sess : Nat, st : Statuses]),
           Len(sessions) <= Len(sessions'), Len(runs) <= Len(runs'),
           \A s \in DOMAIN sessions : sessions'[s].rev = sessions[s].rev,
           \A r \in DOMAIN runs : runs'[r].sess = runs[r].sess,
           \A r \in DOMAIN runs' : runs'[r].sess \in DOMAIN sessions',
           NEW m \in [env : Envelopes, sess : Nat, run : Nat], msgs' = Append(msgs, m),
           m.run \in DOMAIN runs', m.sess = runs'[m.run].sess, sessions'[m.sess].rev = m.env.rev,
           delivered' = delivered, rejected' = rejected, prepared' = prepared
    PROVE  Grows
<1>1. /\ msgs' \in Seq([env : Envelopes, sess : Nat, run : Nat]) /\ Len(msgs') = Len(msgs) + 1
      /\ DOMAIN msgs' = DOMAIN msgs \cup {Len(msgs) + 1}
      /\ \A i \in DOMAIN msgs : msgs'[i] = msgs[i]
      /\ msgs'[Len(msgs) + 1] = m
  <2> DEFINE M == [env : Envelopes, sess : Nat, run : Nat]
  <2>1. msgs \in Seq(M) /\ m \in M
    BY DEF IInv, TypeOK, OrpheusOK
  <2> HIDE DEF M
  <2>2. msgs' \in Seq(M)
    BY <2>1, AppendElements
  <2> DEFINE longer == Append(msgs, m)
  <2>3. /\ Len(longer) = Len(msgs) + 1
        /\ DOMAIN longer = DOMAIN msgs \cup {Len(msgs) + 1}
        /\ \A i \in DOMAIN msgs : longer[i] = msgs[i]
        /\ longer[Len(msgs) + 1] = m
    BY <2>1, AppendElements
  <2> USE DEF M
  <2> QED BY <2>2, <2>3
<1>2. /\ DOMAIN sessions = 1..Len(sessions) /\ DOMAIN sessions' = 1..Len(sessions')
      /\ DOMAIN runs = 1..Len(runs) /\ DOMAIN runs' = 1..Len(runs')
      /\ Len(sessions) \in Nat /\ Len(sessions') \in Nat /\ Len(runs) \in Nat /\ Len(runs') \in Nat
      /\ Len(msgs) \in Nat
  BY SeqElements DEF IInv, TypeOK, OrpheusOK
<1>3. DOMAIN sessions \subseteq DOMAIN sessions' /\ DOMAIN runs \subseteq DOMAIN runs'
  BY <1>2
<1>4. OrpheusOK'
  <2>1. delivered \subseteq DOMAIN msgs' /\ rejected \subseteq DOMAIN msgs'
    BY <1>1 DEF IInv, TypeOK, OrpheusOK
  <2>2. prepared \subseteq (DOMAIN runs') \X Posts
    BY <1>3 DEF IInv, TypeOK, OrpheusOK
  <2> QED BY <1>1, <2>1, <2>2 DEF OrpheusOK
<1>5. OrpheusRefs'
  <2>1. ASSUME NEW i \in DOMAIN msgs
        PROVE  /\ msgs'[i].run \in DOMAIN runs'
               /\ msgs'[i].sess = runs'[msgs'[i].run].sess
               /\ sessions'[msgs'[i].sess].rev = msgs'[i].env.rev
    <3>1. /\ msgs[i].run \in DOMAIN runs /\ msgs[i].sess = runs[msgs[i].run].sess
          /\ sessions[msgs[i].sess].rev = msgs[i].env.rev
          /\ msgs[i].sess \in DOMAIN sessions
      BY DEF IInv, Refs
    <3> QED BY <1>1, <1>3, <3>1
  <2> QED BY <1>1, <2>1 DEF OrpheusRefs
<1>6. Len(msgs) <= Len(msgs')
  BY <1>1, <1>2
<1> QED BY <1>4, <1>5, <1>6 DEF Grows

LEMMA ProcessGrows ==
    ASSUME IInv, NEW e \in Envelopes, InputRefs(e), NEW answer, Process(e, answer),
           delivered' = delivered, rejected' = rejected, prepared' = prepared
    PROVE  Grows
<1> DEFINE S == [rev : Revs, usable : BOOLEAN]
           R == [sess : Nat, st : Statuses]
           M == [env : Envelopes, sess : Nat, run : Nat]
<1>1. sessions \in Seq(S) /\ runs \in Seq(R) /\ msgs \in Seq(M)
  BY DEF IInv, TypeOK, OrpheusOK
<1>2. \A r \in DOMAIN runs : runs[r].sess \in DOMAIN sessions
  BY DEF IInv, Refs
<1>3. /\ Len(sessions) \in Nat /\ DOMAIN sessions = 1..Len(sessions)
      /\ Len(runs) \in Nat /\ DOMAIN runs = 1..Len(runs)
  BY <1>1, SeqElements
<1>4. e.sess \in Nat /\ e.run \in Nat /\ e.rev \in Revs
  BY DEF Envelopes
<1>5. CASE UNCHANGED <<sessions, runs, msgs>>
  BY <1>5, GrowsUnchanged DEF orpheus
<1>6. CASE e.run # 0 /\ msgs' = Append(msgs, [env |-> e, sess |-> e.sess, run |-> e.run])
           /\ UNCHANGED <<sessions, runs>>
  <2> DEFINE m == [env |-> e, sess |-> e.sess, run |-> e.run]
  <2>1. m \in M /\ m.run = e.run /\ m.sess = e.sess /\ m.env = e
    BY <1>4
  <2>2. /\ e.run \in DOMAIN runs /\ runs[e.run].sess = e.sess
        /\ e.sess \in DOMAIN sessions
    BY <1>2, <1>6 DEF InputRefs
  <2>3. e.sess # 0
    BY <1>3, <2>2
  <2>4. sessions[e.sess].rev = e.rev
    BY <2>3 DEF InputRefs
  <2>5. msgs' = Append(msgs, m) /\ sessions' = sessions /\ runs' = runs
    BY <1>6
  <2>6. Len(sessions) <= Len(sessions) /\ Len(runs) <= Len(runs)
    BY <1>3
  <2> HIDE DEF m
  <2> QED BY <1>1, <1>2, <2>1, <2>2, <2>4, <2>5, <2>6, MessageAdded
<1>7. ASSUME NEW s \in Nat, NewRun(e, s), sessions' \in Seq(S), Len(sessions) <= Len(sessions'),
             \A t \in DOMAIN sessions : sessions'[t].rev = sessions[t].rev,
             s \in DOMAIN sessions', sessions'[s].rev = e.rev
      PROVE  Grows
  <2> DEFINE r == [sess |-> s, st |-> "queued"]
             m == [env |-> e, sess |-> s, run |-> Len(runs) + 1]
  <2>1. r \in R /\ r.sess = s
    BY DEF Statuses
  <2>2. m \in M /\ m.run = Len(runs) + 1 /\ m.sess = s /\ m.env = e
    BY <1>3
  <2>3. runs' = Append(runs, r) /\ msgs' = Append(msgs, m)
    BY <1>7 DEF NewRun
  <2> HIDE DEF r, m
  <2>4. /\ runs' \in Seq(R) /\ Len(runs') = Len(runs) + 1
        /\ DOMAIN runs' = DOMAIN runs \cup {Len(runs) + 1}
        /\ \A q \in DOMAIN runs : runs'[q] = runs[q]
        /\ runs'[Len(runs) + 1] = r
    BY <1>1, <2>1, <2>3, AppendElements
  <2>5. Len(runs) <= Len(runs')
    BY <1>3, <2>4
  <2>6. Len(sessions') \in Nat /\ DOMAIN sessions' = 1..Len(sessions')
    BY <1>7, SeqElements
  <2>7. DOMAIN sessions \subseteq DOMAIN sessions'
    BY <1>3, <1>7, <2>6
  <2>8. \A q \in DOMAIN runs' : runs'[q].sess \in DOMAIN sessions'
    BY <1>2, <1>7, <2>1, <2>4, <2>7
  <2>9. \A q \in DOMAIN runs : runs'[q].sess = runs[q].sess
    BY <2>4
  <2>10. m.run \in DOMAIN runs' /\ m.sess = runs'[m.run].sess /\ sessions'[m.sess].rev = m.env.rev
    BY <1>7, <2>1, <2>2, <2>4
  <2> QED BY <1>7, <2>2, <2>3, <2>4, <2>5, <2>8, <2>9, <2>10, MessageAdded
<1>8. CASE e.run = 0 /\ e.sess # 0 /\ NewRun(e, e.sess) /\ UNCHANGED sessions
  <2>1. e.sess \in DOMAIN sessions /\ sessions[e.sess].rev = e.rev
    BY <1>8 DEF InputRefs
  <2>2. Len(sessions) <= Len(sessions)
    BY <1>3
  <2> QED BY <1>1, <1>4, <1>7, <1>8, <2>1, <2>2
<1>9. CASE NewRun(e, Len(sessions) + 1) /\ sessions' = Append(sessions, [rev |-> e.rev, usable |-> TRUE])
  <2> DEFINE x == [rev |-> e.rev, usable |-> TRUE]
  <2>1. x \in S /\ x.rev = e.rev
    BY <1>4
  <2> HIDE DEF x
  <2>2. sessions' = Append(sessions, x)
    BY <1>9 DEF x
  <2>3. /\ sessions' \in Seq(S) /\ Len(sessions') = Len(sessions) + 1
        /\ DOMAIN sessions' = DOMAIN sessions \cup {Len(sessions) + 1}
        /\ \A t \in DOMAIN sessions : sessions'[t] = sessions[t]
        /\ sessions'[Len(sessions) + 1] = x
    BY <1>1, <2>1, <2>2, AppendElements
  <2>4. Len(sessions) <= Len(sessions') /\ Len(sessions) + 1 \in Nat
    BY <1>3, <2>3
  <2> QED BY <1>7, <1>9, <2>1, <2>3, <2>4
<1> QED
  BY <1>5, <1>6, <1>8, <1>9 DEF Process, Replay, SendMessage, CreateRun, CreateSession

LEMMA StatusChanged ==
    ASSUME IInv, NEW r \in DOMAIN runs, NEW st \in Statuses, runs' = [runs EXCEPT ![r].st = st],
           UNCHANGED <<sessions, msgs, prepared>>,
           delivered' \subseteq DOMAIN msgs, rejected' \subseteq DOMAIN msgs
    PROVE  Grows
<1> DEFINE R == [sess : Nat, st : Statuses]
<1>1. /\ runs \in Seq(R) /\ Len(sessions) \in Nat /\ Len(runs) \in Nat /\ Len(msgs) \in Nat
      /\ \A q \in DOMAIN runs : runs[q] \in R
  BY Elements DEF IInv, TypeOK, OrpheusOK
<1>2. [runs[r] EXCEPT !.st = st] \in R /\ [runs[r] EXCEPT !.st = st].sess = runs[r].sess
  BY <1>1
<1>3. runs' = [runs EXCEPT ![r] = [runs[r] EXCEPT !.st = st]]
  OBVIOUS
<1>4. /\ runs' \in Seq(R) /\ Len(runs') = Len(runs) /\ DOMAIN runs' = DOMAIN runs
      /\ \A q \in DOMAIN runs : runs'[q].sess = runs[q].sess
  <2> DEFINE x == [runs[r] EXCEPT !.st = st]
  <2>1. x \in R /\ x.sess = runs[r].sess /\ runs' = [runs EXCEPT ![r] = x]
    BY <1>2, <1>3
  <2> HIDE DEF R, x
  <2>2. /\ runs' \in Seq(R) /\ Len(runs') = Len(runs) /\ DOMAIN runs' = DOMAIN runs
        /\ runs'[r] = x /\ \A q \in DOMAIN runs : q # r => runs'[q] = runs[q]
    BY <1>1, <2>1, ExceptElements
  <2> QED BY <2>1, <2>2
<1>5. OrpheusOK'
  BY <1>4 DEF IInv, TypeOK, OrpheusOK
<1>6. OrpheusRefs'
  BY <1>4 DEF IInv, Refs, OrpheusRefs
<1> QED BY <1>1, <1>4, <1>5, <1>6 DEF Grows

LEMMA CancelGrows ==
    ASSUME IInv, Cancel(Run), UNCHANGED <<sessions, msgs, delivered, prepared>>
    PROVE  Grows
<1>1. CASE UNCHANGED <<runs, rejected>>
  BY <1>1, GrowsUnchanged DEF orpheus
<1>2. CASE Run # 0 /\ End(Run, "cancelled")
  <2>1. Run \in DOMAIN runs /\ delivered \subseteq DOMAIN msgs /\ rejected \subseteq DOMAIN msgs
    BY <1>2, RunBounded DEF IInv, TypeOK, OrpheusOK
  <2>2. rejected' \subseteq DOMAIN msgs /\ runs' = [runs EXCEPT ![Run].st = "cancelled"]
    BY <1>2, <2>1 DEF End, Undelivered
  <2>3. "cancelled" \in Statuses
    BY DEF Statuses, Terminal
  <2> QED BY <2>1, <2>2, <2>3, StatusChanged
<1> QED BY <1>1, <1>2 DEF Cancel

-----------------------------------------------------------------------------
(* Three shapes of steps: one outside the connector, one that ends the pass,
   one inside a pass.                                                       *)

LEMMA KeepsRefs ==
    ASSUME IInv, Grows, late' \cup frozen' \subseteq late \cup frozen, frozen' \subseteq frozen,
           pc' \in {"import", "confirm"} => pc \in {"import", "confirm"}
    PROVE  Refs'
<1>1. \A e \in late' \cup frozen' : InputRefs(e)'
  <2> TAKE e \in late' \cup frozen'
  <2>1. e \in Envelopes /\ InputRefs(e)
    BY DEF IInv, TypeOK, ConnectorOK, Refs
  <2> QED BY <2>1, InputRefsGrow DEF IInv, TypeOK
<1>2. pc' \in {"import", "confirm"} => \A e \in frozen' : e.run # 0
  BY DEF IInv, Refs
<1>3. OrpheusRefs'
  BY DEF Grows
<1> QED BY <1>1, <1>2, <1>3 DEF Refs, OrpheusRefs

LEMMA OutsideStep ==
    ASSUME IInv, Grows, MattermostOK', late' \subseteq late,
           UNCHANGED <<config, frozen, suspended, pc, pass, bounds>>
    PROVE  IInv'
<1>1. SnapOK'
  BY SnapFrame DEF IInv, TypeOK, pass
<1>2. ConnectorOK' /\ BoundsOK'
  BY DEF IInv, TypeOK, ConnectorOK, BoundsOK, config, pass, bounds
<1>3. Refs'
  <2>1. frozen' = frozen /\ late' \cup frozen' \subseteq late \cup frozen /\ pc' = pc
    OBVIOUS
  <2> QED BY <2>1, KeepsRefs
<1> QED BY <1>1, <1>2, <1>3 DEF IInv, TypeOK, Grows

LEMMA LastStep ==
    ASSUME IInv, Grows, MattermostOK', BoundsOK',
           late' \subseteq late \cup frozen, frozen' \subseteq frozen,
           rev' \in Revs, standing' \in AllStandings, suspended' \in BOOLEAN,
           pc' \in {"idle", "down"}, at' = 0,
           snap' = NoSnap, seen' = NoThread, readAt' = 0, reply' = "none"
    PROVE  IInv'
<1>1. SnapOK'
  BY NoSnapOK DEF Grows
<1>2. ConnectorOK'
  <2>1. NoThread \in [thread : Threads, receipts : Receipts]
    BY DEF NoThread, Threads, Receipts
  <2>2. 0 \in 0..Horizon
    BY TimeAssumption DEF Horizon
  <2>3. late' \cup frozen' \subseteq Envelopes /\ \A e, f \in frozen' : e = f
    BY DEF IInv, TypeOK, ConnectorOK
  <2> QED BY <2>1, <2>2, <2>3 DEF ConnectorOK
<1>3. Refs'
  <2>1. late' \cup frozen' \subseteq late \cup frozen
    OBVIOUS
  <2> QED BY <2>1, KeepsRefs
<1> QED BY <1>1, <1>2, <1>3 DEF IInv, TypeOK, Grows

LEMMA InsideStep ==
    ASSUME IInv, UNCHANGED <<mattermost, orpheus, late, config, suspended, bounds>>,
           SnapOK', ConnectorOK', Refs'
    PROVE  IInv'
<1>1. OrpheusOK'
  BY GrowsUnchanged DEF Grows
<1>2. MattermostOK' /\ BoundsOK'
  BY DEF IInv, TypeOK, MattermostOK, BoundsOK, mattermost, bounds
<1> QED BY <1>1, <1>2 DEF IInv, TypeOK

-----------------------------------------------------------------------------
(* Every step keeps the invariant.                                          *)

LEMMA Initiation == Init => IInv
<1> SUFFICES ASSUME Init PROVE IInv
  OBVIOUS
<1>1. MattermostOK /\ BoundsOK
  BY TimeAssumption, BoundsAssumption DEF Init, MattermostOK, BoundsOK, Threads, Receipts, Horizon
<1>2. OrpheusOK
  BY DEF Init, OrpheusOK
<1>3. SnapOK
  <2>1. Len(sessions) \in Nat /\ 0 \in 0..Len(sessions) /\ {} \in SUBSET (DOMAIN sessions)
    BY <1>2, Elements
  <2>2. /\ NoSnap \in [n : 0..Len(sessions), usable : SUBSET (DOMAIN sessions),
                       st : UNION {[R -> Statuses] : R \in SUBSET (DOMAIN runs)},
                       hist : SUBSET (DOMAIN msgs), rejected : SUBSET (DOMAIN msgs)]
        /\ NoSnap.n = 0
    BY <2>1, SnapOfOK DEF NoSnap
  <2> QED BY <2>2 DEF SnapOK, Init
<1>4. ConnectorOK
  <2>1. NoThread \in [thread : Threads, receipts : Receipts]
    BY DEF NoThread, Threads, Receipts
  <2>2. 0 \in 0..Horizon
    BY TimeAssumption DEF Horizon
  <2> QED BY <2>1, <2>2 DEF Init, ConnectorOK, AllStandings
<1>5. Refs
  BY DEF Init, Refs
<1> QED BY <1>1, <1>2, <1>3, <1>4, <1>5 DEF IInv, TypeOK

LEMMA UsersKeep ==
    ASSUME IInv, Users
    PROVE  IInv'
<1>1. ASSUME NEW posted \in BOOLEAN, Tick(posted)
      PROVE  IInv'
  <2>1. now' \in 0..Horizon
    BY <1>1, TimeAssumption DEF Tick, IInv, TypeOK, MattermostOK, Horizon
  <2>2. thread' \in Threads
    <3>1. thread \in Threads /\ 0 \in 0..MaxEdits
      BY BoundsAssumption DEF IInv, TypeOK, MattermostOK
    <3>2. CASE posted
      <4>1. now' \in Posts /\ thread' = thread \cup {<<now', 0>>}
        BY <1>1, <3>2 DEF Tick
      <4> QED BY <3>1, <4>1 DEF Threads
    <3>3. CASE ~posted
      BY <1>1, <3>1, <3>3 DEF Tick
    <3> QED BY <3>2, <3>3
  <2>3. MattermostOK'
    BY <1>1, <2>1, <2>2 DEF Tick, MattermostOK, IInv, TypeOK
  <2> QED BY <1>1, <2>3, GrowsUnchanged, OutsideStep DEF Tick
<1>2. ASSUME NEW v \in thread, Edit(v)
      PROVE  IInv'
  <2>1. v \in Posts \X (0..MaxEdits) /\ thread \in Threads
    BY DEF IInv, TypeOK, MattermostOK, Threads
  <2>2. <<v[1], v[2] + 1>> \in Posts \X (0..MaxEdits)
    BY <1>2, <2>1, BoundsAssumption DEF Edit
  <2>3. MattermostOK'
    BY <1>2, <2>1, <2>2 DEF Edit, MattermostOK, IInv, TypeOK, Threads
  <2> QED BY <1>2, <2>3, GrowsUnchanged, OutsideStep DEF Edit
<1>3. ASSUME NEW v \in thread, Delete(v)
      PROVE  IInv'
  <2>1. MattermostOK'
    BY <1>3 DEF Delete, MattermostOK, IInv, TypeOK, Threads
  <2> QED BY <1>3, <2>1, GrowsUnchanged, OutsideStep DEF Delete
<1> QED BY <1>1, <1>2, <1>3 DEF Users

LEMMA MattermostKept ==
    ASSUME IInv, UNCHANGED mattermost
    PROVE  MattermostOK'
BY DEF IInv, TypeOK, MattermostOK, mattermost

LEMMA LifecycleKeeps ==
    ASSUME IInv, Lifecycle
    PROVE  IInv'
<1>1. delivered \subseteq DOMAIN msgs /\ rejected \subseteq DOMAIN msgs
  BY DEF IInv, TypeOK, OrpheusOK
<1>2. ASSUME NEW r \in DOMAIN runs, RunStart(r)
      PROVE  IInv'
  <2>1. delivered' \subseteq DOMAIN msgs /\ rejected' \subseteq DOMAIN msgs
    BY <1>1, <1>2 DEF RunStart, InitialOf
  <2>2. Grows
    <3>1. "running" \in Statuses
      BY DEF Statuses
    <3> QED BY <1>2, <2>1, <3>1, StatusChanged DEF RunStart
  <2> QED BY <1>2, <2>2, MattermostKept, OutsideStep DEF RunStart
<1>3. ASSUME NEW r \in DOMAIN runs, RunFinalize(r)
      PROVE  IInv'
  <2>1. Grows
    <3>1. "finalizing" \in Statuses
      BY DEF Statuses
    <3> QED BY <1>1, <1>3, <3>1, StatusChanged DEF RunFinalize
  <2> QED BY <1>3, <2>1, MattermostKept, OutsideStep DEF RunFinalize
<1>4. ASSUME NEW r \in DOMAIN runs, NEW st \in Outcomes, RunEnd(r, st)
      PROVE  IInv'
  <2>1. st \in Statuses
    BY OutcomesAssumption DEF Statuses
  <2>2. rejected' \subseteq DOMAIN msgs
    BY <1>1, <1>4 DEF RunEnd, End, Undelivered
  <2>3. Grows
    BY <1>1, <1>4, <2>1, <2>2, StatusChanged DEF RunEnd, End
  <2> QED BY <1>4, <2>3, MattermostKept, OutsideStep DEF RunEnd
<1>5. ASSUME NEW i \in DOMAIN msgs, Deliver(i)
      PROVE  IInv'
  <2>1. OrpheusOK'
    BY <1>1, <1>5 DEF Deliver, IInv, TypeOK, OrpheusOK
  <2>2. OrpheusRefs'
    BY <1>5 DEF Deliver, IInv, Refs, OrpheusRefs
  <2>3. Grows
    <3>1. Len(sessions) \in Nat /\ Len(runs) \in Nat /\ Len(msgs) \in Nat
      BY Elements DEF IInv, TypeOK
    <3> QED BY <1>5, <2>1, <2>2, <3>1 DEF Grows, Deliver
  <2> QED BY <1>5, <2>3, MattermostKept, OutsideStep DEF Deliver
<1>6. ASSUME NEW s \in DOMAIN sessions, SessionLost(s)
      PROVE  IInv'
  <2> DEFINE S == [rev : Revs, usable : BOOLEAN]
             x == [sessions[s] EXCEPT !.usable = FALSE]
  <2>1. sessions \in Seq(S) /\ sessions[s] \in S
    BY Elements DEF IInv, TypeOK, OrpheusOK
  <2>2. x \in S /\ x.rev = sessions[s].rev
    BY <2>1
  <2>3. sessions' = [sessions EXCEPT ![s] = x]
    BY <1>6 DEF SessionLost
  <2>4. /\ sessions' \in Seq(S) /\ Len(sessions') = Len(sessions) /\ DOMAIN sessions' = DOMAIN sessions
        /\ \A t \in DOMAIN sessions : sessions'[t].rev = sessions[t].rev
    <3> HIDE DEF S, x
    <3>1. /\ sessions' \in Seq(S) /\ Len(sessions') = Len(sessions)
          /\ DOMAIN sessions' = DOMAIN sessions
          /\ sessions'[s] = x /\ \A t \in DOMAIN sessions : t # s => sessions'[t] = sessions[t]
      BY <2>1, <2>2, <2>3, ExceptElements
    <3> QED BY <2>2, <3>1
  <2> HIDE DEF x
  <2>5. OrpheusOK'
    BY <1>6, <2>4 DEF SessionLost, IInv, TypeOK, OrpheusOK
  <2>6. OrpheusRefs'
    <3>1. \A i \in DOMAIN msgs : msgs[i].sess \in DOMAIN sessions
      BY DEF IInv, Refs
    <3> QED BY <1>6, <2>4, <3>1 DEF SessionLost, IInv, Refs, OrpheusRefs
  <2>7. Grows
    <3>1. Len(sessions) \in Nat /\ Len(runs) \in Nat /\ Len(msgs) \in Nat
      BY Elements DEF IInv, TypeOK
    <3> QED BY <1>6, <2>4, <2>5, <2>6, <3>1 DEF Grows, SessionLost
  <2> QED BY <1>6, <2>7, MattermostKept, OutsideStep DEF SessionLost
<1> QED BY <1>2, <1>3, <1>4, <1>5, <1>6 DEF Lifecycle

LEMMA ServeKeeps ==
    ASSUME IInv, Serve \/ \E e \in late : ServeLate(e)
    PROVE  IInv'
<1>1. \A e \in late \cup frozen : e \in Envelopes /\ InputRefs(e)
  BY DEF IInv, TypeOK, ConnectorOK, Refs
<1>2. ASSUME NEW e \in late, ServeLate(e)
      PROVE  IInv'
  <2>1. PICK answer \in {"ok", "conflict", "closed", "error", "refused"} : Process(e, answer)
    BY <1>2 DEF ServeLate
  <2>2. Grows
    BY <1>1, <1>2, <2>1, ProcessGrows DEF ServeLate
  <2> QED BY <1>2, <2>2, MattermostKept, OutsideStep DEF ServeLate
<1>3. ASSUME Serve
      PROVE  IInv'
  <2>1. PICK e \in frozen, answer \in {"ok", "conflict", "closed", "error", "refused"} :
           Process(e, answer) /\ reply' = answer
    BY <1>3 DEF Serve
  <2>2. Grows
    BY <1>1, <1>3, <2>1, ProcessGrows DEF Serve
  <2>3. SnapOK'
    BY <1>3, <2>2, SnapFrame DEF Serve, IInv, TypeOK
  <2>4. ConnectorOK' /\ BoundsOK'
    BY <1>3, <2>1 DEF Serve, IInv, TypeOK, ConnectorOK, BoundsOK, config, bounds
  <2>5. Refs'
    <3>1. frozen' = frozen /\ late' = late /\ pc' = "reply"
      BY <1>3 DEF Serve
    <3> QED BY <2>2, <3>1, KeepsRefs
  <2> QED BY <1>3, <2>2, <2>3, <2>4, <2>5, MattermostKept DEF Serve, IInv, TypeOK, Grows
<1> QED BY <1>2, <1>3

(* Steps that read: StartPass to Refresh.                                   *)
LEMMA ReadsKeep ==
    ASSUME IInv, \/ StartPass \/ ReadRuns \/ ReadHistory \/ ReadThread
                 \/ (\E created \in BOOLEAN : Publish(created)) \/ Refresh
    PROVE  IInv'
<1>1. \A S \in SUBSET (DOMAIN msgs) : MsgsOf(at) \cup S \subseteq DOMAIN msgs
  BY DEF MsgsOf
<1>2. seen \in [thread : Threads, receipts : Receipts]
        /\ [thread |-> thread, receipts |-> receipts] \in [thread : Threads, receipts : Receipts]
  BY DEF IInv, TypeOK, MattermostOK, ConnectorOK
<1>3. now \in 0..Horizon /\ Len(sessions) \in Nat
  BY Elements DEF IInv, TypeOK, MattermostOK
<1>4. CASE StartPass
  <2> DEFINE U == {s \in DOMAIN sessions : sessions[s].usable}
             new == SnapOf(Len(sessions), U)
  <2>1. /\ U \in SUBSET (DOMAIN sessions)
        /\ Len(sessions) \in Nat /\ Len(sessions) \in 0..Len(sessions)
    BY <1>3
  <2>2. snap' = new
    BY <1>4 DEF StartPass
  <2> HIDE DEF U
  <2>3. /\ new \in [n : 0..Len(sessions), usable : SUBSET (DOMAIN sessions),
                    st : UNION {[R -> Statuses] : R \in SUBSET (DOMAIN runs)},
                    hist : SUBSET (DOMAIN msgs), rejected : SUBSET (DOMAIN msgs)]
        /\ new.n = Len(sessions)
    <3> DEFINE st == [r \in {} |-> "queued"]
    <3>1. st \in [{} -> Statuses]
      BY DEF Statuses
    <3>2. st \in UNION {[R -> Statuses] : R \in SUBSET (DOMAIN runs)}
      BY <3>1, {} \in SUBSET (DOMAIN runs)
    <3>3. new = [n |-> Len(sessions), usable |-> U, st |-> st, hist |-> {}, rejected |-> {}]
      BY DEF SnapOf
    <3> HIDE DEF st, new
    <3> QED BY <2>1, <3>2, <3>3
  <2>4. (at' = 0 /\ pc' = "settle") \/ (at' = 1 /\ pc' = "runs" /\ sessions # <<>>)
    BY <1>4 DEF StartPass
  <2>5. sessions # <<>> => Len(sessions) > 0
    BY <1>3 DEF IInv, TypeOK, OrpheusOK
  <2>6. UNCHANGED <<mattermost, orpheus, late, config, frozen, suspended, seen, readAt, reply, bounds>>
    BY <1>4 DEF StartPass
  <2> HIDE DEF new
  <2>7. SnapOK'
    <3>1. UNCHANGED <<sessions, runs, msgs>>
      BY <2>6 DEF orpheus
    <3>2. at' \in 0..new.n /\ (pc' \in {"runs", "history"} => at' # 0)
      BY <1>3, <2>3, <2>4, <2>5
    <3> QED BY <2>2, <2>3, <3>1, <3>2 DEF SnapOK
  <2>8. ConnectorOK'
    BY <2>4, <2>6 DEF IInv, TypeOK, ConnectorOK, config
  <2>9. Refs'
    <3>1. frozen' = frozen /\ late' = late /\ pc' \in {"settle", "runs"} /\ Grows
      BY <2>4, <2>6, GrowsUnchanged
    <3> QED BY <3>1, KeepsRefs
  <2> QED BY <2>6, <2>7, <2>8, <2>9, InsideStep
<1>5. CASE ReadRuns
  <2> DEFINE st == [r \in DOMAIN snap.st \cup RunsOf(at) |->
                       IF r \in RunsOf(at) THEN runs[r].st ELSE snap.st[r]]
  <2>1. PICK R \in SUBSET (DOMAIN runs) : snap.st \in [R -> Statuses]
    BY DEF IInv, TypeOK, SnapOK
  <2>2. RunsOf(at) \subseteq DOMAIN runs /\ \A r \in DOMAIN runs : runs[r].st \in Statuses
    BY Elements DEF RunsOf, IInv, TypeOK
  <2>3. st \in [R \cup RunsOf(at) -> Statuses]
    BY <2>1, <2>2
  <2>4. R \cup RunsOf(at) \in SUBSET (DOMAIN runs)
    BY <2>1, <2>2
  <2>5. snap' = [snap EXCEPT !.st = st] /\ pc' = "history" /\ at # 0
    BY <1>5 DEF ReadRuns, IInv, TypeOK, SnapOK
  <2>6. UNCHANGED <<mattermost, orpheus, late, config, frozen, suspended, at, seen, readAt, reply, bounds>>
    BY <1>5 DEF ReadRuns
  <2> HIDE DEF st
  <2>7. SnapOK'
    <3>1. UNCHANGED <<sessions, runs, msgs>>
      BY <2>6 DEF orpheus
    <3>2. st \in UNION {[Q -> Statuses] : Q \in SUBSET (DOMAIN runs)}
      BY <2>3, <2>4
    <3>3. /\ snap' \in [n : 0..Len(sessions), usable : SUBSET (DOMAIN sessions),
                        st : UNION {[Q -> Statuses] : Q \in SUBSET (DOMAIN runs)},
                        hist : SUBSET (DOMAIN msgs), rejected : SUBSET (DOMAIN msgs)]
          /\ snap'.n = snap.n
      BY <2>5, <3>2 DEF IInv, TypeOK, SnapOK
    <3> QED BY <2>5, <2>6, <3>1, <3>3 DEF IInv, TypeOK, SnapOK
  <2>8. ConnectorOK'
    BY <2>5, <2>6 DEF IInv, TypeOK, ConnectorOK, config
  <2>9. Refs'
    <3>1. frozen' = frozen /\ late' = late /\ pc' = "history" /\ Grows
      BY <2>5, <2>6, GrowsUnchanged
    <3> QED BY <3>1, KeepsRefs
  <2> QED BY <2>6, <2>7, <2>8, <2>9, InsideStep
<1>6. CASE ReadHistory
  <2> DEFINE new == [snap EXCEPT !.hist = @ \cup MsgsOf(at),
                                 !.rejected = @ \cup (MsgsOf(at) \cap rejected)]
  <2>1. /\ new \in [n : 0..Len(sessions), usable : SUBSET (DOMAIN sessions),
                    st : UNION {[R -> Statuses] : R \in SUBSET (DOMAIN runs)},
                    hist : SUBSET (DOMAIN msgs), rejected : SUBSET (DOMAIN msgs)]
        /\ new.n = snap.n
    <3>1. MsgsOf(at) \subseteq DOMAIN msgs
      BY DEF MsgsOf
    <3> QED BY <3>1 DEF IInv, TypeOK, SnapOK
  <2>2. snap' = new
    BY <1>6 DEF ReadHistory
  <2>3. /\ at # 0 /\ at \in 0..snap.n /\ snap.n \in Nat
        /\ \/ at' = 0 /\ pc' = "settle"
           \/ at # snap.n /\ at' = at + 1 /\ pc' = "runs"
    BY <1>6 DEF ReadHistory, IInv, TypeOK, SnapOK
  <2>4. UNCHANGED <<mattermost, orpheus, late, config, frozen, suspended, seen, readAt, reply, bounds>>
    BY <1>6 DEF ReadHistory
  <2> HIDE DEF new
  <2>5. SnapOK'
    <3>1. UNCHANGED <<sessions, runs, msgs>>
      BY <2>4 DEF orpheus
    <3>2. at' \in 0..new.n /\ (pc' \in {"runs", "history"} => at' # 0)
      BY <2>1, <2>3
    <3> QED BY <2>1, <2>2, <3>1, <3>2 DEF SnapOK
  <2>6. ConnectorOK'
    BY <2>3, <2>4 DEF IInv, TypeOK, ConnectorOK, config
  <2>7. Refs'
    <3>1. frozen' = frozen /\ late' = late /\ pc' \in {"settle", "runs"} /\ Grows
      BY <2>3, <2>4, GrowsUnchanged
    <3> QED BY <3>1, KeepsRefs
  <2> QED BY <2>4, <2>5, <2>6, <2>7, InsideStep
<1>7. CASE ReadThread \/ (\E created \in BOOLEAN : Publish(created)) \/ Refresh
  <2>1. UNCHANGED <<mattermost, orpheus, late, config, frozen, suspended, at, snap, reply, bounds>>
    BY <1>7 DEF ReadThread, Publish, Refresh, pass
  <2>2. pc' \in {"publish", "refresh", "decide"}
    BY <1>7 DEF ReadThread, Publish, Refresh
  <2>3. seen' \in [thread : Threads, receipts : Receipts] /\ readAt' \in 0..Horizon
    BY <1>2, <1>3, <1>7 DEF ReadThread, Publish, Refresh, pass, IInv, TypeOK, ConnectorOK
  <2>4. Grows
    BY <2>1, GrowsUnchanged
  <2>5. SnapOK'
    BY <2>1, <2>2, <2>4, SnapFrame DEF IInv, TypeOK
  <2>6. ConnectorOK'
    BY <2>1, <2>2, <2>3 DEF IInv, TypeOK, ConnectorOK, config
  <2>7. Refs'
    BY <2>1, <2>2, <2>4, KeepsRefs
  <2> QED BY <2>1, <2>5, <2>6, <2>7, InsideStep
<1> QED BY <1>4, <1>5, <1>6, <1>7

(* A step that ends the pass and leaves Orpheus and the configuration alone. *)
LEMMA QuietEnd ==
    ASSUME IInv, EndPass, MattermostOK', BoundsOK', UNCHANGED <<orpheus, config>>,
           late' \subseteq late \cup frozen, frozen' \subseteq frozen, suspended' \in BOOLEAN
    PROVE  IInv'
<1>1. rev' \in Revs /\ standing' \in AllStandings
  BY DEF IInv, TypeOK, ConnectorOK, config
<1>2. Grows
  BY GrowsUnchanged
<1> QED BY <1>1, <1>2, LastStep DEF EndPass

LEMMA NoticeOK ==
    ASSUME IInv, NEW e \in Envelopes, receipts' = receipts \cup {[rev |-> e.rev, vers |-> e.vers]},
           UNCHANGED <<now, thread>>
    PROVE  MattermostOK'
<1>1. [rev |-> e.rev, vers |-> e.vers] \in [rev : Revs, vers : Threads]
  BY DEF Envelopes, Threads
<1> QED BY <1>1 DEF IInv, TypeOK, MattermostOK, Receipts

LEMMA BoundsKept ==
    ASSUME IInv, UNCHANGED bounds
    PROVE  BoundsOK'
BY DEF IInv, TypeOK, BoundsOK, bounds

(* Steps by which a pass ends.                                              *)
LEMMA EndsKeep ==
    ASSUME IInv, \/ Revoke \/ Blocked \/ Drain \/ Hold \/ Wait \/ RejectOversized
                 \/ Receive \/ RejectRefused
    PROVE  IInv'
<1>1. suspended \in BOOLEAN /\ standing \in AllStandings /\ rev \in Revs /\ frozen \subseteq Envelopes
  BY DEF IInv, TypeOK, ConnectorOK
<1>2. CASE Revoke
  <2>1. Grows
    BY <1>2, CancelGrows DEF Revoke
  <2> QED BY <1>1, <1>2, <2>1, MattermostKept, BoundsKept, LastStep DEF Revoke, EndPass, config
<1>3. CASE Blocked
  BY <1>1, <1>3, MattermostKept, BoundsKept, QuietEnd DEF Blocked
<1>4. CASE Drain
  BY <1>1, <1>4, MattermostKept, BoundsKept, QuietEnd DEF Drain
<1>5. CASE Hold
  BY <1>1, <1>5, MattermostKept, BoundsKept, QuietEnd DEF Hold
<1>6. CASE Wait
  BY <1>1, <1>6, MattermostKept, BoundsKept, QuietEnd DEF Wait
<1>7. CASE RejectOversized
  <2>1. PICK e \in Offer : receipts' = receipts \cup {[rev |-> e.rev, vers |-> e.vers]}
    BY <1>7 DEF RejectOversized
  <2>2. e \in Envelopes
    BY <1>7, OfferOK DEF RejectOversized
  <2>3. MattermostOK'
    BY <1>7, <2>1, <2>2, NoticeOK DEF RejectOversized
  <2> QED BY <1>1, <1>7, <2>3, BoundsKept, QuietEnd DEF RejectOversized
<1>8. CASE Receive
  <2>1. frozen' \subseteq frozen /\ suspended' \in BOOLEAN
    BY <1>8 DEF Receive
  <2> QED BY <1>8, <2>1, MattermostKept, BoundsKept, QuietEnd DEF Receive
<1>9. CASE RejectRefused
  <2>1. MattermostOK'
    BY <1>1, <1>9, NoticeOK DEF RejectRefused
  <2> QED BY <1>1, <1>9, <2>1, BoundsKept, QuietEnd DEF RejectRefused
<1> QED BY <1>2, <1>3, <1>4, <1>5, <1>6, <1>7, <1>8, <1>9

(* Steps that prepare or send the frozen input.                             *)
LEMMA SubmissionKeeps ==
    ASSUME IInv, Freeze \/ Resend \/ Import \/ Confirm
    PROVE  IInv'
<1>1. \A e : Submitting(e) \in {"import", "await"}
             /\ (Submitting(e) = "import" => e.run # 0)
  BY DEF Submitting, IsClarification
<1>2. CASE Freeze
  <2>1. PICK e \in Offer : frozen' = {e} /\ pc' = Submitting(e)
    BY <1>2 DEF Freeze
  <2>2. e \in Envelopes /\ InputRefs(e)
    BY <1>2, OfferOK DEF Freeze
  <2>3. UNCHANGED <<mattermost, orpheus, late, config, suspended, pass, bounds>>
    BY <1>2 DEF Freeze
  <2>4. Grows
    BY <2>3, GrowsUnchanged
  <2>5. pc' \in {"import", "await"}
    BY <1>1, <2>1
  <2>6. SnapOK'
    BY <2>3, <2>4, <2>5, SnapFrame DEF IInv, TypeOK, pass
  <2>7. ConnectorOK'
    BY <2>1, <2>2, <2>3, <2>5 DEF IInv, TypeOK, ConnectorOK, config, pass
  <2>8. Refs'
    <3>1. \A f \in late' \cup frozen' : InputRefs(f)'
      <4> TAKE f \in late' \cup frozen'
      <4>1. f \in Envelopes /\ InputRefs(f)
        BY <2>1, <2>2, <2>3 DEF IInv, TypeOK, ConnectorOK, Refs
      <4> QED BY <2>4, <4>1, InputRefsGrow DEF IInv, TypeOK
    <3>2. pc' \in {"import", "confirm"} => \A f \in frozen' : f.run # 0
      BY <1>1, <2>1
    <3> QED BY <2>4, <3>1, <3>2 DEF Refs, OrpheusRefs, Grows
  <2> QED BY <2>3, <2>6, <2>7, <2>8, InsideStep
<1>3. CASE Resend
  <2>1. PICK e \in Kept : pc' = Submitting(e)
    BY <1>3 DEF Resend
  <2>2. e \in frozen /\ \A f \in frozen : f = e
    BY <2>1 DEF Kept, IInv, TypeOK, ConnectorOK
  <2>3. UNCHANGED <<mattermost, orpheus, late, config, frozen, suspended, pass, bounds>>
    BY <1>3 DEF Resend
  <2>4. Grows
    BY <2>3, GrowsUnchanged
  <2>5. pc' \in {"import", "await"}
    BY <1>1, <2>1
  <2>6. SnapOK'
    BY <2>3, <2>4, <2>5, SnapFrame DEF IInv, TypeOK, pass
  <2>7. ConnectorOK'
    BY <2>3, <2>5 DEF IInv, TypeOK, ConnectorOK, config, pass
  <2>8. Refs'
    <3>1. \A f \in late' \cup frozen' : InputRefs(f)'
      <4> TAKE f \in late' \cup frozen'
      <4>1. f \in Envelopes /\ InputRefs(f)
        BY <2>3 DEF IInv, TypeOK, ConnectorOK, Refs
      <4> QED BY <2>4, <4>1, InputRefsGrow DEF IInv, TypeOK
    <3>2. pc' \in {"import", "confirm"} => \A f \in frozen' : f.run # 0
      BY <1>1, <2>1, <2>2, <2>3
    <3> QED BY <2>4, <3>1, <3>2 DEF Refs, OrpheusRefs, Grows
  <2> QED BY <2>3, <2>6, <2>7, <2>8, InsideStep
<1>4. CASE Import
  <2>1. PICK e \in frozen :
           \/ /\ prepared' = prepared \cup {<<e.run, e.anchor>>}
              /\ pc' = "confirm" /\ UNCHANGED pass
           \/ EndPass /\ UNCHANGED prepared
    BY <1>4 DEF Import
  <2>2. UNCHANGED <<mattermost, sessions, runs, msgs, delivered, rejected, late, config, frozen,
                    suspended, bounds>>
    BY <1>4 DEF Import
  <2>3. CASE EndPass /\ UNCHANGED prepared
    <3>1. suspended' \in BOOLEAN /\ UNCHANGED orpheus
      BY <2>2, <2>3 DEF IInv, TypeOK, ConnectorOK, orpheus
    <3> QED BY <2>2, <2>3, <3>1, MattermostKept, BoundsKept, QuietEnd
  <2>4. CASE /\ prepared' = prepared \cup {<<e.run, e.anchor>>}
             /\ pc' = "confirm" /\ UNCHANGED pass
    <3>1. pc = "import"
      BY <1>4 DEF Import
    <3>2. e.run \in DOMAIN runs /\ e.anchor \in Posts
      BY <3>1 DEF IInv, TypeOK, ConnectorOK, Refs, InputRefs, Envelopes
    <3>3. OrpheusOK'
      BY <2>2, <2>4, <3>2 DEF IInv, TypeOK, OrpheusOK
    <3>4. OrpheusRefs'
      BY <2>2 DEF IInv, Refs, OrpheusRefs
    <3>5. Grows
      <4>1. Len(sessions) \in Nat /\ Len(runs) \in Nat /\ Len(msgs) \in Nat
        BY Elements DEF IInv, TypeOK
      <4> QED BY <2>2, <3>3, <3>4, <4>1 DEF Grows
    <3>6. SnapOK'
      BY <2>4, <3>5, SnapFrame DEF IInv, TypeOK, pass
    <3>7. ConnectorOK'
      BY <2>2, <2>4 DEF IInv, TypeOK, ConnectorOK, config, pass
    <3>8. Refs'
      BY <2>2, <3>1, <3>5, KeepsRefs
    <3> QED BY <2>2, <3>3, <3>6, <3>7, <3>8, MattermostKept, BoundsKept DEF IInv, TypeOK
  <2> QED BY <2>1, <2>3, <2>4
<1>5. CASE Confirm
  <2>1. UNCHANGED <<mattermost, orpheus, late, config, frozen, suspended, bounds>>
    BY <1>5 DEF Confirm
  <2>2. CASE EndPass
    <3>1. suspended' \in BOOLEAN
      BY <2>1 DEF IInv, TypeOK, ConnectorOK
    <3> QED BY <2>1, <2>2, <3>1, MattermostKept, BoundsKept, QuietEnd
  <2>3. CASE pc' = "await" /\ UNCHANGED pass
    <3>1. Grows
      BY <2>1, GrowsUnchanged
    <3>2. SnapOK'
      BY <2>3, <3>1, SnapFrame DEF IInv, TypeOK, pass
    <3>3. ConnectorOK'
      BY <2>1, <2>3 DEF IInv, TypeOK, ConnectorOK, config, pass
    <3>4. Refs'
      BY <2>1, <2>3, <3>1, KeepsRefs
    <3> QED BY <2>1, <3>2, <3>3, <3>4, InsideStep
  <2> QED BY <1>5, <2>2, <2>3 DEF Confirm
<1> QED BY <1>2, <1>3, <1>4, <1>5

LEMMA DisturbanceKeeps ==
    ASSUME IInv, Disturbance
    PROVE  IInv'
<1>1. /\ suspended \in BOOLEAN /\ standing \in AllStandings /\ rev \in Revs
      /\ faults \in 0..MaxFaults /\ crashes \in 0..MaxCrashes /\ changes \in 0..MaxChanges
      /\ MaxFaults \in Nat /\ MaxCrashes \in Nat /\ MaxChanges \in Nat
  BY BoundsAssumption DEF IInv, TypeOK, ConnectorOK, BoundsOK
<1>2. Abandoned => late' \subseteq late \cup frozen
  BY DEF Abandoned
<1>3. CASE Fail
  <2>1. BoundsOK'
    BY <1>1, <1>3 DEF Fail, BoundsOK
  <2> QED BY <1>1, <1>2, <1>3, <2>1, MattermostKept, QuietEnd DEF Fail
<1>4. ASSUME NEW status \in Denials, Denied(status)
      PROVE  IInv'
  <2>1. Grows
    BY <1>4, CancelGrows DEF Denied
  <2>2. BoundsOK'
    BY <1>1, <1>4 DEF Denied, BoundsOK
  <2>3. suspended' \in BOOLEAN
    BY <1>4 DEF Denied
  <2> QED BY <1>1, <1>4, <2>1, <2>2, <2>3, MattermostKept, LastStep DEF Denied, EndPass, config
<1>5. ASSUME NEW r \in Revs, NEW s \in Standings, Reload(r, s)
      PROVE  IInv'
  <2>1. Grows
    BY <1>5, GrowsUnchanged DEF Reload
  <2>2. BoundsOK'
    BY <1>1, <1>5 DEF Reload, BoundsOK
  <2>3. rev' \in Revs /\ standing' \in AllStandings /\ suspended' \in BOOLEAN
    BY <1>5, StandingsAssumption DEF Reload
  <2> QED BY <1>2, <1>5, <2>1, <2>2, <2>3, MattermostKept, LastStep DEF Reload, EndPass
<1>6. CASE Crash
  <2>1. Grows
    BY <1>6, GrowsUnchanged DEF Crash
  <2>2. BoundsOK'
    BY <1>1, <1>6 DEF Crash, BoundsOK
  <2>3. rev' \in Revs /\ standing' \in AllStandings /\ suspended' \in BOOLEAN
    BY <1>1, <1>6 DEF Crash, config
  <2>4. frozen' \subseteq frozen
    BY <1>6 DEF Crash
  <2> QED BY <1>2, <1>6, <2>1, <2>2, <2>3, <2>4, MattermostKept, LastStep DEF Crash
<1>7. CASE Restart
  <2>1. Grows
    BY <1>7, GrowsUnchanged DEF Restart
  <2>2. SnapOK'
    BY <1>7, <2>1, SnapFrame DEF Restart, IInv, TypeOK, pass
  <2>3. ConnectorOK'
    BY <1>7 DEF Restart, IInv, TypeOK, ConnectorOK, config, pass
  <2>4. Refs'
    BY <1>7, <2>1, KeepsRefs DEF Restart
  <2> QED BY <1>7, <2>2, <2>3, <2>4, InsideStep DEF Restart
<1> QED BY <1>3, <1>4, <1>5, <1>6, <1>7 DEF Disturbance

LEMMA Stuttering ==
    ASSUME IInv, UNCHANGED vars
    PROVE  IInv'
<1>1. UNCHANGED <<mattermost, orpheus, late, config, frozen, suspended, pc, pass, bounds>>
  BY DEF vars
<1> QED BY <1>1, GrowsUnchanged, MattermostKept, OutsideStep

LEMMA Consecution == IInv /\ [Next]_vars => IInv'
<1> SUFFICES ASSUME IInv, [Next]_vars PROVE IInv'
  OBVIOUS
<1>1. CASE Users
  BY <1>1, UsersKeep
<1>2. CASE Orpheus
  BY <1>2, ServeKeeps, LifecycleKeeps DEF Orpheus
<1>3. CASE Connector
  BY <1>3, ReadsKeep, EndsKeep, SubmissionKeeps DEF Connector
<1>4. CASE Disturbance
  BY <1>4, DisturbanceKeeps
<1> QED BY <1>1, <1>2, <1>3, <1>4, Stuttering DEF Next

-----------------------------------------------------------------------------
(* Every reachable state is well typed: in particular at most one input is
   frozen per thread (Engine.pending), and the snapshot a pass holds never
   names a session, run or message that Orpheus does not have.              *)
THEOREM TypeCorrect == Spec => []TypeOK
<1>1. IInv => TypeOK
  BY DEF IInv
<1> QED BY Initiation, Consecution, <1>1, PTL DEF Spec

(* All messages of a session carry the session's revision, whatever is lost,
   late, repeated, reloaded or rebuilt after a crash: the frozen input of one
   configuration never reaches a session of another (Engine.reconcile,
   Engine.submit).                                                          *)
THEOREM RevisionCoherence == Spec => []RevisionCoherent
<1>1. IInv => RevisionCoherent
  BY DEF IInv, Refs, RevisionCoherent
<1> QED BY Initiation, Consecution, <1>1, PTL DEF Spec

(* Every frozen or outstanding request names sessions and runs Orpheus has,
   the session's revision its own and the run one of that session.          *)
THEOREM InputsRefer == Spec => []Refs
<1>1. IInv => Refs
  BY DEF IInv
<1> QED BY Initiation, Consecution, <1>1, PTL DEF Spec

-----------------------------------------------------------------------------
(* Attachments.                                                             *)

(* The inductive invariant: what is about to be sent, or is on its way, is
   prepared.  Preparations are never undone while the session's sandbox
   lives, so a request that arrives late is prepared as well.               *)
Imported(e) == IsClarification(e) /\ HasFiles(e) => <<e.run, e.anchor>> \in prepared

FilesInv ==
    /\ FilesPrepared
    /\ \A e \in late : Imported(e)
    /\ pc \in {"confirm", "await"} => \A e \in frozen : Imported(e)

LEMMA ImportedStays ==
    ASSUME NEW e, Imported(e), prepared \subseteq prepared'
    PROVE  Imported(e)'
BY DEF Imported, IsClarification, HasFiles, Trig

(* Steps that add no message.                                               *)
LEMMA FilesFrame ==
    ASSUME FilesInv, msgs' = msgs, prepared \subseteq prepared',
           late' \subseteq late \/ (pc = "await" /\ late' \subseteq late \cup frozen),
           pc' \in {"confirm", "await"} => \A e \in frozen' : Imported(e)'
    PROVE  FilesInv'
<1>1. FilesPrepared'
  BY DEF FilesInv, FilesPrepared, IsClarification, HasFiles, Trig
<1>2. ASSUME NEW e \in late' PROVE Imported(e)'
  <2>1. Imported(e)
    BY <1>2 DEF FilesInv
  <2> QED BY <2>1, ImportedStays
<1> QED BY <1>1, <1>2 DEF FilesInv

(* Steps outside a pass, and steps that end one.                            *)
LEMMA FilesQuiet ==
    ASSUME FilesInv, msgs' = msgs, prepared \subseteq prepared',
           late' \subseteq late \/ (pc = "await" /\ late' \subseteq late \cup frozen),
           \/ pc' = pc /\ frozen' = frozen
           \/ pc' \notin {"confirm", "await"}
    PROVE  FilesInv'
<1>1. ASSUME pc' \in {"confirm", "await"}, NEW e \in frozen'
      PROVE  Imported(e)'
  <2>1. Imported(e)
    BY <1>1 DEF FilesInv
  <2> QED BY <2>1, ImportedStays
<1> QED BY <1>1, FilesFrame

(* What Orpheus accepts was prepared.                                       *)
LEMMA ProcessPrepared ==
    ASSUME IInv, FilesInv, NEW e \in Envelopes, Imported(e), NEW answer, Process(e, answer),
           prepared' = prepared
    PROVE  FilesPrepared'
<1>1. CASE msgs' = msgs
  BY <1>1 DEF FilesInv, FilesPrepared, IsClarification, HasFiles, Trig
<1>2. ASSUME NEW s \in Nat, NEW r \in Nat, e.run # 0 => r = e.run,
             msgs' = Append(msgs, [env |-> e, sess |-> s, run |-> r])
      PROVE  FilesPrepared'
  <2> DEFINE M == [env : Envelopes, sess : Nat, run : Nat]
             m == [env |-> e, sess |-> s, run |-> r]
  <2>1. msgs \in Seq(M) /\ m \in M /\ m.env = e /\ m.run = r
    BY DEF IInv, TypeOK, OrpheusOK
  <2>2. msgs' = Append(msgs, m)
    BY <1>2
  <2> HIDE DEF M, m
  <2>3. /\ DOMAIN msgs' = DOMAIN msgs \cup {Len(msgs) + 1}
        /\ \A i \in DOMAIN msgs : msgs'[i] = msgs[i]
        /\ msgs'[Len(msgs) + 1] = m
    BY <2>1, <2>2, AppendElements
  <2>4. ASSUME NEW i \in DOMAIN msgs', IsClarification(msgs'[i].env), HasFiles(msgs'[i].env)
        PROVE  <<msgs'[i].run, msgs'[i].env.anchor>> \in prepared
    <3>1. CASE i \in DOMAIN msgs
      BY <2>3, <2>4, <3>1 DEF FilesInv, FilesPrepared
    <3>2. CASE i = Len(msgs) + 1
      <4>1. msgs'[i].env = e /\ msgs'[i].run = r
        BY <2>1, <2>3, <3>2
      <4>2. IsClarification(e) /\ HasFiles(e)
        BY <2>4, <4>1
      <4>3. r = e.run
        BY <1>2, <4>2 DEF IsClarification
      <4> QED BY <4>1, <4>2, <4>3 DEF Imported
    <3> QED BY <2>3, <3>1, <3>2
  <2> QED BY <2>4 DEF FilesPrepared, IsClarification, HasFiles, Trig
<1>3. e.sess \in Nat /\ e.run \in Nat /\ Len(sessions) + 1 \in Nat /\ Len(runs) + 1 \in Nat
  BY Elements DEF IInv, TypeOK, Envelopes
<1>4. CASE Replay(e, answer)
  BY <1>1, <1>4 DEF Replay
<1>5. CASE SendMessage(e, answer)
  BY <1>1, <1>2, <1>3, <1>5 DEF SendMessage
<1>6. CASE CreateRun(e, answer)
  BY <1>1, <1>2, <1>3, <1>6 DEF CreateRun, NewRun
<1>7. CASE CreateSession(e, answer)
  BY <1>1, <1>2, <1>3, <1>7 DEF CreateSession, NewRun
<1> QED BY <1>4, <1>5, <1>6, <1>7 DEF Process

LEMMA FilesConsecution == IInv /\ FilesInv /\ [Next]_vars => FilesInv'
<1> SUFFICES ASSUME IInv, FilesInv, [Next]_vars PROVE FilesInv'
  OBVIOUS
<1>1. CASE Users
  BY <1>1, FilesQuiet DEF Users, Tick, Edit, Delete, orpheus
<1>2. CASE Lifecycle
  BY <1>2, FilesQuiet DEF Lifecycle, RunStart, RunFinalize, RunEnd, Deliver, SessionLost
<1>3. CASE Serve
  <2>1. PICK e \in frozen, answer \in {"ok", "conflict", "closed", "error", "refused"} :
           Process(e, answer)
    BY <1>3 DEF Serve
  <2>2. e \in Envelopes /\ Imported(e)
    BY <1>3 DEF Serve, FilesInv, IInv, TypeOK, ConnectorOK
  <2>3. FilesPrepared'
    BY <1>3, <2>1, <2>2, ProcessPrepared DEF Serve
  <2>4. \A f \in late' : Imported(f)'
    <3> TAKE f \in late'
    <3>1. Imported(f) /\ prepared \subseteq prepared'
      BY <1>3 DEF Serve, FilesInv
    <3> QED BY <3>1, ImportedStays
  <2> QED BY <1>3, <2>3, <2>4 DEF Serve, FilesInv
<1>4. ASSUME NEW e \in late, ServeLate(e)
      PROVE  FilesInv'
  <2>1. PICK answer \in {"ok", "conflict", "closed", "error", "refused"} : Process(e, answer)
    BY <1>4 DEF ServeLate
  <2>2. e \in Envelopes /\ Imported(e)
    BY DEF FilesInv, IInv, TypeOK, ConnectorOK
  <2>3. FilesPrepared'
    BY <1>4, <2>1, <2>2, ProcessPrepared DEF ServeLate
  <2>4. ASSUME NEW f, Imported(f)
        PROVE  Imported(f)'
    BY <1>4, <2>4, ImportedStays DEF ServeLate
  <2> QED BY <1>4, <2>3, <2>4 DEF ServeLate, FilesInv
<1>5. CASE Freeze \/ Resend
  <2>1. PICK e : e \in frozen' /\ pc' = Submitting(e) /\ \A f \in frozen' : f = e
    <3>1. CASE Freeze
      BY <3>1 DEF Freeze
    <3>2. CASE Resend
      <4>1. PICK e \in Kept : pc' = Submitting(e)
        BY <3>2 DEF Resend
      <4> QED BY <3>2, <4>1 DEF Resend, Kept, IInv, TypeOK, ConnectorOK
    <3> QED BY <1>5, <3>1, <3>2
  <2>2. UNCHANGED <<msgs, prepared, late>>
    BY <1>5 DEF Freeze, Resend, orpheus
  <2>3. pc' \in {"confirm", "await"} => \A f \in frozen' : Imported(f)'
    BY <2>1, <2>2 DEF Submitting, Imported, IsClarification, HasFiles, Trig
  <2> QED BY <2>2, <2>3, FilesFrame
<1>6. CASE Import
  <2>1. PICK e \in frozen :
           \/ /\ prepared' = prepared \cup {<<e.run, e.anchor>>}
              /\ pc' = "confirm"
           \/ pc' = "idle" /\ UNCHANGED prepared
    BY <1>6 DEF Import, EndPass
  <2>2. UNCHANGED <<msgs, late, frozen>> /\ \A f \in frozen : f = e
    BY <1>6 DEF Import, IInv, TypeOK, ConnectorOK
  <2>3. prepared \subseteq prepared'
    BY <2>1
  <2>4. pc' \in {"confirm", "await"} => \A f \in frozen' : Imported(f)'
    BY <2>1, <2>2 DEF Imported, IsClarification, HasFiles, Trig
  <2> QED BY <2>2, <2>3, <2>4, FilesFrame
<1>7. CASE Confirm
  <2>1. UNCHANGED <<msgs, prepared, late, frozen>> /\ pc = "confirm" /\ pc' \in {"await", "idle"}
    BY <1>7 DEF Confirm, EndPass, orpheus
  <2>2. pc' \in {"confirm", "await"} => \A f \in frozen' : Imported(f)'
    <3> SUFFICES ASSUME NEW f \in frozen' PROVE Imported(f)'
      OBVIOUS
    <3>1. Imported(f) /\ prepared \subseteq prepared'
      BY <2>1 DEF FilesInv
    <3> QED BY <3>1, ImportedStays
  <2> QED BY <2>1, <2>2, FilesFrame
<1>8. CASE \/ StartPass \/ ReadRuns \/ ReadHistory \/ ReadThread
           \/ (\E created \in BOOLEAN : Publish(created)) \/ Refresh
  <2>1. UNCHANGED <<msgs, prepared, late>>
    BY <1>8 DEF StartPass, ReadRuns, ReadHistory, ReadThread, Publish, Refresh, orpheus
  <2>2. pc' \notin {"confirm", "await"}
    BY <1>8 DEF StartPass, ReadRuns, ReadHistory, ReadThread, Publish, Refresh
  <2> QED BY <2>1, <2>2, FilesQuiet
<1>9. CASE \/ Revoke \/ Blocked \/ Drain \/ Hold \/ Wait \/ RejectOversized
           \/ Receive \/ RejectRefused
  <2>1. UNCHANGED <<msgs, prepared, late>>
    BY <1>9 DEF Revoke, Blocked, Drain, Hold, Wait, RejectOversized, Receive, RejectRefused, orpheus
  <2>2. pc' = "idle"
    BY <1>9 DEF Revoke, Blocked, Drain, Hold, Wait, RejectOversized, Receive, RejectRefused, EndPass
  <2> QED BY <2>1, <2>2, FilesQuiet
<1>10. CASE Disturbance
  <2>1. UNCHANGED <<msgs, prepared>>
    BY <1>10 DEF Disturbance, Fail, Denied, Reload, Crash, Restart, orpheus
  <2>2. late' \subseteq late \/ (pc = "await" /\ late' \subseteq late \cup frozen)
    BY <1>10 DEF Disturbance, Fail, Denied, Reload, Crash, Restart, Abandoned
  <2>3. pc' \in {"idle", "down"}
    BY <1>10 DEF Disturbance, Fail, Denied, Reload, Crash, Restart, EndPass
  <2> QED BY <2>1, <2>2, <2>3, FilesQuiet
<1>11. CASE UNCHANGED vars
  BY <1>11, FilesQuiet DEF vars, orpheus
<1> QED
  BY <1>1, <1>2, <1>3, <1>4, <1>5, <1>6, <1>7, <1>8, <1>9, <1>10, <1>11
  DEF Next, Orpheus, Connector

LEMMA FilesInitiation == Init => FilesInv
BY DEF Init, FilesInv, FilesPrepared

(* The attachments of an accepted clarification were imported into the
   sandbox of the very run that received it, also when the message was sent
   again, answered late or overtaken by a crash (Engine.submit calls
   Access.Prepare before every Submit of a clarification with files).       *)
THEOREM FilesImported == Spec => []FilesPrepared
<1>1. FilesInv => FilesPrepared
  BY DEF FilesInv
<1> QED BY Initiation, Consecution, FilesInitiation, FilesConsecution, <1>1, PTL DEF Spec

-----------------------------------------------------------------------------
Timely == ~(Stragglers /\ LateRequests)

-----------------------------------------------------------------------------
(* Orpheus only moves forward: messages stay, sessions do not recover, what
   ended stays ended, and a new run needs a session that can continue.      *)

Taking == {"queued", "running"}

Forward ==
    /\ \A i \in DOMAIN msgs : i \in DOMAIN msgs' /\ msgs'[i] = msgs[i]
    /\ \A s \in DOMAIN sessions :
          /\ s \in DOMAIN sessions' /\ sessions'[s].rev = sessions[s].rev
          /\ ~sessions[s].usable => ~sessions'[s].usable
    /\ \A r \in DOMAIN runs :
          /\ r \in DOMAIN runs' /\ runs'[r].sess = runs[r].sess
          /\ runs[r].st \notin Taking => runs'[r].st \notin Taking
          /\ ~Live(r) => runs'[r].st = runs[r].st
    /\ \A r \in DOMAIN runs' \ DOMAIN runs :
          runs'[r].sess \in DOMAIN sessions => Continuable(runs'[r].sess)
    /\ \A s \in DOMAIN sessions' \ DOMAIN sessions : \E r \in DOMAIN runs' : runs'[r].sess = s

Spent(s) == ~sessions[s].usable \/ runs[Latest(RunsOf(s))].st \in {"lost", "limit"}
Started == \A s \in DOMAIN sessions : RunsOf(s) # {}
Settled(e) == Known(e) \/ Dead(e)

LEMMA ForwardQuiet ==
    ASSUME UNCHANGED <<sessions, runs, msgs>>
    PROVE  Forward
BY DEF Forward, Live

LEMMA ForwardStatus ==
    ASSUME IInv, NEW r \in DOMAIN runs, NEW st \in Statuses, Live(r),
           runs[r].st \notin Taking => st \notin Taking,
           runs' = [runs EXCEPT ![r].st = st], UNCHANGED <<sessions, msgs>>
    PROVE  Forward
<1>1. DOMAIN runs' = DOMAIN runs
  OBVIOUS
<1>2. \A q \in DOMAIN runs : runs[q] \in [sess : Nat, st : Statuses]
  BY Elements DEF IInv, TypeOK
<1>3. \A q \in DOMAIN runs : q # r => runs'[q] = runs[q]
  OBVIOUS
<1>4. runs'[r].sess = runs[r].sess /\ runs'[r].st = st
  BY <1>2
<1> QED BY <1>1, <1>3, <1>4 DEF Forward, Live

LEMMA ForwardLost ==
    ASSUME IInv, NEW s \in DOMAIN sessions, sessions' = [sessions EXCEPT ![s].usable = FALSE],
           UNCHANGED <<runs, msgs>>
    PROVE  Forward
<1>1. DOMAIN sessions' = DOMAIN sessions
  OBVIOUS
<1>2. \A q \in DOMAIN sessions : sessions[q] \in [rev : Revs, usable : BOOLEAN]
  BY Elements DEF IInv, TypeOK
<1>3. \A q \in DOMAIN sessions : q # s => sessions'[q] = sessions[q]
  OBVIOUS
<1>4. sessions'[s].rev = sessions[s].rev /\ sessions'[s].usable = FALSE
  BY <1>2
<1> QED BY <1>1, <1>3, <1>4 DEF Forward, Live

-----------------------------------------------------------------------------
(* What a submission adds: the message of an input that was not settled.    *)

New == Len(msgs) + 1
NewR == Len(runs) + 1

Added(e) ==
    /\ ~Settled(e)
    /\ DOMAIN msgs' = DOMAIN msgs \cup {New} /\ msgs'[New].env = e
    /\ \/ /\ e.run # 0 /\ msgs'[New].run = e.run /\ runs[e.run].st = "running"
          /\ msgs'[New].sess = e.sess /\ UNCHANGED <<sessions, runs>>
       \/ /\ e.run = 0 /\ msgs'[New].run = NewR /\ msgs'[New].sess = runs'[NewR].sess
          /\ DOMAIN runs' = DOMAIN runs \cup {NewR} /\ runs'[NewR].st = "queued"
          /\ \A r \in DOMAIN runs : runs'[r] = runs[r]
          /\ \/ /\ e.sess # 0 /\ runs'[NewR].sess = e.sess /\ Continuable(e.sess)
                /\ UNCHANGED sessions
             \/ /\ e.sess = 0 /\ runs'[NewR].sess = Len(sessions) + 1
                /\ DOMAIN sessions' = DOMAIN sessions \cup {Len(sessions) + 1}

LEMMA MessageAppended ==
    ASSUME IInv, NEW m, m \in [env : Envelopes, sess : Nat, run : Nat], msgs' = Append(msgs, m)
    PROVE  /\ DOMAIN msgs' = DOMAIN msgs \cup {New} /\ msgs'[New] = m /\ New \notin DOMAIN msgs
           /\ \A i \in DOMAIN msgs : msgs'[i] = msgs[i]
<1> DEFINE M == [env : Envelopes, sess : Nat, run : Nat]
<1>1. msgs \in Seq(M) /\ m \in M
  BY DEF IInv, TypeOK, OrpheusOK
<1> HIDE DEF M
<1>2. New \notin DOMAIN msgs
  BY Elements DEF IInv, TypeOK, New
<1> QED BY <1>1, <1>2, AppendElements DEF New

LEMMA RunAppended ==
    ASSUME IInv, NEW s \in Nat, NEW e \in Envelopes, NewRun(e, s)
    PROVE  /\ DOMAIN msgs' = DOMAIN msgs \cup {New} /\ New \notin DOMAIN msgs
           /\ \A i \in DOMAIN msgs : msgs'[i] = msgs[i]
           /\ msgs'[New].env = e /\ msgs'[New].sess = s /\ msgs'[New].run = NewR
           /\ DOMAIN runs' = DOMAIN runs \cup {NewR} /\ NewR \notin DOMAIN runs
           /\ \A r \in DOMAIN runs : runs'[r] = runs[r]
           /\ runs'[NewR].sess = s /\ runs'[NewR].st = "queued"
<1> DEFINE R == [sess : Nat, st : Statuses]
           r == [sess |-> s, st |-> "queued"]
           m == [env |-> e, sess |-> s, run |-> NewR]
<1>1. Len(runs) \in Nat /\ DOMAIN runs = 1..Len(runs)
  BY Elements DEF IInv, TypeOK
<1>2. NewR \in Nat /\ NewR \notin DOMAIN runs
  BY <1>1 DEF NewR
<1>3. m \in [env : Envelopes, sess : Nat, run : Nat]
  BY <1>2
<1>4. msgs' = Append(msgs, m) /\ runs' = Append(runs, r)
  BY DEF NewRun, NewR
<1>5. m.env = e /\ m.sess = s /\ m.run = NewR /\ r.sess = s /\ r.st = "queued"
  OBVIOUS
<1>6. runs \in Seq(R) /\ r \in R
  BY DEF IInv, TypeOK, OrpheusOK, Statuses
<1> HIDE DEF m, r, R
<1>7. /\ DOMAIN msgs' = DOMAIN msgs \cup {New} /\ msgs'[New] = m /\ New \notin DOMAIN msgs
      /\ \A i \in DOMAIN msgs : msgs'[i] = msgs[i]
  BY <1>3, <1>4, MessageAppended
<1>8. /\ DOMAIN runs' = DOMAIN runs \cup {NewR} /\ \A q \in DOMAIN runs : runs'[q] = runs[q]
      /\ runs'[NewR] = r
  BY <1>4, <1>6, AppendElements DEF NewR
<1> QED BY <1>2, <1>5, <1>7, <1>8

LEMMA ProcessEffect ==
    ASSUME IInv, NEW e \in Envelopes, InputRefs(e), NEW answer, Process(e, answer)
    PROVE  /\ Forward
           /\ UNCHANGED <<sessions, runs, msgs>> \/ Added(e)
           /\ answer = "ok" => Known(e)'
           /\ answer = "refused" => Dead(e)'
<1>1. CASE Replay(e, answer)
  <2>1. UNCHANGED <<sessions, runs, msgs>> /\ Known(e) /\ answer # "refused"
    BY <1>1 DEF Replay, Known
  <2>2. Known(e)'
    BY <2>1 DEF Known
  <2> QED BY <2>1, <2>2, ForwardQuiet
<1>2. CASE ~Known(e) /\ SendMessage(e, answer)
  <2>1. CASE runs[e.run].st = "running"
    <3> DEFINE m == [env |-> e, sess |-> e.sess, run |-> e.run]
    <3>1. m \in [env : Envelopes, sess : Nat, run : Nat]
      BY DEF Envelopes
    <3>2. msgs' = Append(msgs, m) /\ UNCHANGED <<sessions, runs>> /\ e.run # 0 /\ answer = "ok"
      BY <1>2, <2>1 DEF SendMessage
    <3>3. m.env = e /\ m.sess = e.sess /\ m.run = e.run
      OBVIOUS
    <3> HIDE DEF m
    <3>4. /\ DOMAIN msgs' = DOMAIN msgs \cup {New} /\ msgs'[New] = m /\ New \notin DOMAIN msgs
          /\ \A i \in DOMAIN msgs : msgs'[i] = msgs[i]
      BY <3>1, <3>2, MessageAppended
    <3>5. ~Dead(e)
      BY <2>1, <3>2 DEF Dead
    <3>6. Known(e)'
      BY <3>3, <3>4 DEF Known
    <3> QED BY <1>2, <2>1, <3>2, <3>3, <3>4, <3>5, <3>6 DEF Forward, Added, Settled, Live
  <2>2. CASE runs[e.run].st # "running"
    BY <1>2, <2>2, ForwardQuiet DEF SendMessage
  <2> QED BY <2>1, <2>2
<1>3. CASE ~Known(e) /\ CreateRun(e, answer)
  <2>1. CASE Continuable(e.sess)
    <3>1. NewRun(e, e.sess) /\ UNCHANGED sessions /\ e.run = 0 /\ e.sess # 0 /\ answer = "ok"
      BY <1>3, <2>1 DEF CreateRun
    <3>2. e.sess \in Nat
      BY DEF Envelopes
    <3>3. ~Dead(e)
      BY <2>1, <3>1 DEF Dead, Continuable
    <3>4. Known(e)'
      BY <3>1, <3>2, RunAppended DEF Known
    <3>5. Added(e)
      BY <1>3, <2>1, <3>1, <3>2, <3>3, RunAppended DEF Added, Settled
    <3>6. Forward
      BY <2>1, <3>1, <3>2, RunAppended DEF Forward, Live
    <3> QED BY <3>1, <3>4, <3>5, <3>6
  <2>2. CASE ~Continuable(e.sess)
    BY <1>3, <2>2, ForwardQuiet DEF CreateRun
  <2> QED BY <2>1, <2>2
<1>4. CASE ~Known(e) /\ CreateSession(e, answer)
  <2>1. CASE e.rev \notin BadRevs
    <3> DEFINE s == Len(sessions) + 1
               S == [rev : Revs, usable : BOOLEAN]
               x == [rev |-> e.rev, usable |-> TRUE]
    <3>1. /\ NewRun(e, s) /\ sessions' = Append(sessions, x) /\ e.run = 0 /\ e.sess = 0
          /\ answer = "ok"
      BY <1>4, <2>1 DEF CreateSession
    <3>2. s \in Nat /\ s \notin DOMAIN sessions
      BY Elements DEF IInv, TypeOK
    <3>3. sessions \in Seq(S) /\ x \in S
      BY DEF IInv, TypeOK, OrpheusOK, Envelopes
    <3> HIDE DEF S, x
    <3>4. DOMAIN sessions' = DOMAIN sessions \cup {s} /\ \A t \in DOMAIN sessions : sessions'[t] = sessions[t]
      BY <3>1, <3>3, AppendElements
    <3> HIDE DEF s
    <3>5. ~Dead(e)
      BY <2>1, <3>1 DEF Dead
    <3>6. Known(e)'
      BY <3>1, <3>2, RunAppended DEF Known
    <3>7. Added(e)
      <4>1. /\ DOMAIN msgs' = DOMAIN msgs \cup {New} /\ msgs'[New].env = e
            /\ msgs'[New].sess = s /\ msgs'[New].run = NewR
            /\ DOMAIN runs' = DOMAIN runs \cup {NewR}
            /\ \A r \in DOMAIN runs : runs'[r] = runs[r]
            /\ runs'[NewR].sess = s /\ runs'[NewR].st = "queued"
        BY <3>1, <3>2, RunAppended
      <4> USE DEF s
      <4> QED BY <1>4, <3>1, <3>4, <3>5, <4>1 DEF Added, Settled
    <3>8. Forward
      BY <3>1, <3>2, <3>4, RunAppended DEF Forward, Live
    <3> QED BY <3>1, <3>6, <3>7, <3>8
  <2>2. CASE e.rev \in BadRevs
    <3>1. UNCHANGED <<sessions, runs, msgs>> /\ e.run = 0 /\ e.sess = 0 /\ answer = "refused"
      BY <1>4, <2>2 DEF CreateSession
    <3> QED BY <2>2, <3>1, ForwardQuiet DEF Dead
  <2> QED BY <2>1, <2>2
<1> QED BY <1>1, <1>2, <1>3, <1>4 DEF Process

LEMMA LatestOf ==
    ASSUME IInv, Started, NEW s \in DOMAIN sessions
    PROVE  Latest(RunsOf(s)) \in RunsOf(s)
<1>1. RunsOf(s) \subseteq 1..Len(runs) /\ Len(runs) \in Nat /\ RunsOf(s) # {}
  BY Elements DEF IInv, TypeOK, RunsOf, Started
<1>2. RunsOf(s) \subseteq 0..Len(runs)
  BY <1>1
<1>3. Max(RunsOf(s)) \in RunsOf(s)
  BY <1>1, <1>2, MaxOfBounded
<1> QED BY <1>1, <1>3 DEF Latest

(* What is spent, known or dead stays so.                                   *)
LEMMA SpentStays ==
    ASSUME IInv, Started, Forward, NEW s \in DOMAIN sessions, Spent(s)
    PROVE  Spent(s)'
<1>1. CASE ~sessions[s].usable
  BY <1>1 DEF Forward, Spent
<1>2. CASE sessions[s].usable /\ runs[Latest(RunsOf(s))].st \in {"lost", "limit"}
  <2>1. Latest(RunsOf(s)) \in DOMAIN runs
    BY LatestOf DEF RunsOf
  <2>2. ~Continuable(s)
    BY <1>2 DEF Continuable
  <2>3. RunsOf(s)' = RunsOf(s)
    BY <2>2 DEF Forward, RunsOf
  <2>4. Latest(RunsOf(s))' = Latest(RunsOf(s))
    BY <2>3 DEF Latest
  <2>5. runs'[Latest(RunsOf(s))].st = runs[Latest(RunsOf(s))].st
    BY <1>2, <2>1 DEF Forward, Live, Terminal
  <2> QED BY <1>2, <2>4, <2>5 DEF Spent
<1> QED BY <1>1, <1>2 DEF Spent

LEMMA KnownStays ==
    ASSUME Forward, NEW e, Known(e)
    PROVE  Known(e)'
BY DEF Forward, Known

LEMMA DeadStays ==
    ASSUME IInv, Started, Forward, NEW e \in Envelopes, InputRefs(e), Dead(e)
    PROVE  Dead(e)'
<1>1. CASE e.run # 0
  <2>1. e.run \in DOMAIN runs
    BY <1>1 DEF InputRefs
  <2> QED BY <1>1, <2>1 DEF Dead, Forward, Taking
<1>2. CASE e.run = 0 /\ e.sess # 0
  <2>1. e.sess \in DOMAIN sessions /\ Spent(e.sess)
    BY <1>2 DEF Dead, InputRefs, Spent
  <2> QED BY <1>2, <2>1, SpentStays DEF Dead, Spent
<1> QED BY <1>1, <1>2 DEF Dead

LEMMA SettledStays ==
    ASSUME IInv, Started, Forward, NEW e \in Envelopes, InputRefs(e), Settled(e)
    PROVE  Settled(e)'
BY KnownStays, DeadStays DEF Settled

LEMMA StartedStays ==
    ASSUME Started, Forward
    PROVE  Started'
<1> SUFFICES ASSUME NEW s \in DOMAIN sessions' PROVE RunsOf(s)' # {}
  BY DEF Started
<1>1. CASE s \in DOMAIN sessions
  <2>1. PICK r : r \in RunsOf(s)
    BY <1>1 DEF Started
  <2>2. r \in DOMAIN runs' /\ runs'[r].sess = s
    BY <2>1 DEF RunsOf, Forward
  <2> QED BY <2>2 DEF RunsOf
<1>2. CASE s \notin DOMAIN sessions
  BY <1>2 DEF Forward, RunsOf
<1> QED BY <1>1, <1>2

-----------------------------------------------------------------------------
(* Every step of the system, seen from Orpheus.                             *)

InHand == frozen \cup late

LEMMA InHandRefs ==
    ASSUME IInv, NEW e \in InHand
    PROVE  e \in Envelopes /\ InputRefs(e)
BY DEF IInv, TypeOK, ConnectorOK, Refs, InHand

LEMMA ForwardEnd ==
    ASSUME IInv, NEW r \in DOMAIN runs, NEW st \in Terminal, Live(r), End(r, st),
           UNCHANGED <<sessions, msgs>>
    PROVE  Forward
<1>1. runs' = [runs EXCEPT ![r].st = st] /\ st \in Statuses /\ st \notin Taking
  BY DEF End, Statuses, Taking, Terminal
<1> QED BY <1>1, ForwardStatus

LEMMA ForwardCancel ==
    ASSUME IInv, Cancel(Run), UNCHANGED <<sessions, msgs>>
    PROVE  Forward
<1>1. CASE Run # 0 /\ runs[Run].st \in {"queued", "running"}
  <2>1. Run \in DOMAIN runs
    BY <1>1, RunBounded
  <2>2. Live(Run) /\ "cancelled" \in Terminal
    BY <1>1 DEF Live, Terminal
  <2>3. End(Run, "cancelled")
    BY <1>1 DEF Cancel
  <2> QED BY <2>1, <2>2, <2>3, ForwardEnd
<1>2. CASE ~(Run # 0 /\ runs[Run].st \in {"queued", "running"})
  BY <1>2, ForwardQuiet DEF Cancel
<1> QED BY <1>1, <1>2

LEMMA ForwardLife ==
    ASSUME IInv, Lifecycle
    PROVE  Forward /\ UNCHANGED msgs
<1>1. CASE \E r \in DOMAIN runs : RunStart(r) \/ RunFinalize(r) \/ \E st \in Outcomes : RunEnd(r, st)
  <2>1. PICK r \in DOMAIN runs : RunStart(r) \/ RunFinalize(r) \/ \E st \in Outcomes : RunEnd(r, st)
    BY <1>1
  <2>2. CASE RunStart(r)
    <3>1. /\ runs' = [runs EXCEPT ![r].st = "running"] /\ runs[r].st = "queued"
          /\ UNCHANGED <<sessions, msgs>>
      BY <2>2 DEF RunStart
    <3>2. "running" \in Statuses /\ Live(r) /\ runs[r].st \in Taking
      BY <3>1 DEF Statuses, Live, Terminal, Taking
    <3> QED BY <3>1, <3>2, ForwardStatus
  <2>3. CASE RunFinalize(r)
    <3>1. /\ runs' = [runs EXCEPT ![r].st = "finalizing"] /\ runs[r].st = "running"
          /\ UNCHANGED <<sessions, msgs>>
      BY <2>3 DEF RunFinalize
    <3>2. "finalizing" \in Statuses /\ Live(r) /\ runs[r].st \in Taking
      BY <3>1 DEF Statuses, Live, Terminal, Taking
    <3> QED BY <3>1, <3>2, ForwardStatus
  <2>4. ASSUME NEW st \in Outcomes, RunEnd(r, st)
        PROVE  Forward /\ UNCHANGED msgs
    <3>1. st \in Terminal /\ Live(r) /\ End(r, st) /\ UNCHANGED <<sessions, msgs>>
      BY <2>4, OutcomesAssumption DEF RunEnd, Live, Terminal
    <3> QED BY <3>1, ForwardEnd
  <2> QED BY <2>1, <2>2, <2>3, <2>4
<1>2. CASE \E i \in DOMAIN msgs : Deliver(i)
  BY <1>2, ForwardQuiet DEF Deliver
<1>3. CASE \E s \in DOMAIN sessions : SessionLost(s)
  <2>1. PICK s \in DOMAIN sessions : SessionLost(s)
    BY <1>3
  <2> QED BY <2>1, ForwardLost DEF SessionLost
<1> QED BY <1>1, <1>2, <1>3 DEF Lifecycle

(* A message is added only for an input in hand that is not settled, and
   that input stays in hand or was late.                                    *)
Adds(e) == Added(e) /\ UNCHANGED frozen /\ late' \subseteq late

LEMMA OrpheusStep ==
    ASSUME IInv, [Next]_vars
    PROVE  Forward /\ (UNCHANGED <<sessions, msgs>> \/ (\E s \in DOMAIN sessions : SessionLost(s))
                       \/ \E e \in InHand : Adds(e))
<1>1. CASE Lifecycle
  <2>1. UNCHANGED <<sessions, msgs>> \/ (\E s \in DOMAIN sessions : SessionLost(s))
    BY <1>1 DEF Lifecycle, RunStart, RunFinalize, RunEnd, Deliver
  <2> QED BY <1>1, <2>1, ForwardLife
<1>2. CASE Serve
  <2>1. PICK e \in frozen, answer \in {"ok", "conflict", "closed", "error", "refused"} :
           Process(e, answer)
    BY <1>2 DEF Serve
  <2>2. e \in InHand /\ UNCHANGED frozen /\ late' \subseteq late
    BY <1>2 DEF Serve, InHand
  <2> QED BY <2>1, <2>2, InHandRefs, ProcessEffect DEF Adds
<1>3. CASE \E e \in late : ServeLate(e)
  <2>1. PICK e \in late, answer \in {"ok", "conflict", "closed", "error", "refused"} :
           ServeLate(e) /\ Process(e, answer)
    BY <1>3 DEF ServeLate
  <2>2. e \in InHand /\ UNCHANGED frozen /\ late' \subseteq late
    BY <2>1 DEF ServeLate, InHand
  <2> QED BY <2>1, <2>2, InHandRefs, ProcessEffect DEF Adds
<1>4. CASE Revoke \/ (\E status \in Denials : Denied(status))
  <2>1. Cancel(Run) /\ UNCHANGED <<sessions, msgs>>
    BY <1>4 DEF Revoke, Denied
  <2> QED BY <2>1, ForwardCancel
<1>5. CASE Users \/ UNCHANGED vars
  BY <1>5, ForwardQuiet DEF Users, Tick, Edit, Delete, vars, orpheus
<1>6. CASE Connector /\ ~Revoke
  BY <1>6, ForwardQuiet
  DEF Connector, StartPass, ReadRuns, ReadHistory, Blocked, ReadThread, Publish, Refresh, Drain,
      Hold, Resend, Wait, RejectOversized, Freeze, Import, Confirm, Receive, RejectRefused, orpheus
<1>7. CASE Disturbance /\ ~(\E status \in Denials : Denied(status))
  BY <1>7, ForwardQuiet DEF Disturbance, Fail, Reload, Crash, Restart, orpheus
<1> QED BY <1>1, <1>2, <1>3, <1>4, <1>5, <1>6, <1>7 DEF Next, Orpheus

-----------------------------------------------------------------------------
(* The inductive invariant.  An input in hand that is not settled has no
   rival (Hands, Unique).  It may be accepted while a pass reads, but then
   the pass does not take it for lost (Unread): so once nothing is kept, the
   snapshot misses no message.                                              *)

Unique(e) ==
    \A i \in DOMAIN msgs :
        /\ e.link = 0 => Trig(e) \cap Trig(msgs[i].env) = {}
        /\ e.link # 0 => msgs[i].env.link # e.link
Anchored(e) == e.link = 0 => e.anchor \in Trig(e)
CarriedOnce ==
    \A i, j \in DOMAIN msgs :
        msgs[i].env.link # 0 /\ msgs[i].env.link = msgs[j].env.link => i = j

Accepts ==
    /\ Started /\ TriggerAcceptedOnce /\ CarriedOnce
    /\ \A i \in DOMAIN msgs : Anchored(msgs[i].env)
    /\ \A e \in InHand : Anchored(e)

Hands ==
    /\ \A e \in InHand : Settled(e) \/ Unique(e)
    /\ \A e, f \in InHand : Settled(e) \/ Settled(f) \/ e = f
    /\ pc # "down" => \A e \in late : Settled(e) \/ e \in frozen
    /\ pc = "down" => frozen = {}
    /\ ~LateRequests => late = {}

Answered ==
    pc = "reply" => \A e \in frozen : (reply = "ok" => Known(e)) /\ (reply = "refused" => Dead(e))

Reading == {"runs", "history"}
HasRead == {"settle", "publish", "refresh", "decide"}
RunsRead(s) == s <= snap.n /\ (pc \in HasRead \/ s < at \/ (s = at /\ pc = "history"))
HistoryRead(s) == s > snap.n \/ pc \in HasRead \/ s < at

Sound ==
    /\ \A r \in DOMAIN snap.st : snap.st[r] \in Terminal => runs[r].st = snap.st[r]
    /\ \A s \in 1..snap.n : ~Reusable(s, sessions[s].rev) => Spent(s)
FrozenRead ==
    \A e \in frozen : e.run # 0 =>
        e.sess <= snap.n /\ (RunsRead(e.sess) => e.run \in DOMAIN snap.st)
Missed(i) ==
    LET e == msgs[i].env IN
    /\ e \in frozen /\ e.sess \in {0, msgs[i].sess} /\ ~TargetLost(e)
    /\ e.run # 0 => e.run \in Active
Unread == \A i \in DOMAIN msgs \ snap.hist : HistoryRead(msgs[i].sess) => Missed(i)
SnapTrue == pc \in Reading \cup HasRead => Sound /\ FrozenRead /\ Unread
OneActive == pc \in {"publish", "refresh", "decide"} => Cardinality(Active) <= 1

OnceInv == Accepts /\ Hands /\ Answered /\ SnapTrue /\ OneActive

-----------------------------------------------------------------------------
(* The snapshot while Orpheus moves on.                                     *)

LEMMA SnapParts ==
    ASSUME IInv
    PROVE  /\ DOMAIN snap.st \subseteq DOMAIN runs /\ snap.hist \subseteq DOMAIN msgs
           /\ snap.usable \subseteq DOMAIN sessions
           /\ snap.n \in Nat /\ snap.n <= Len(sessions) /\ at \in Nat /\ at <= snap.n
           /\ pc \in Reading => at # 0
           /\ snap = [n |-> snap.n, usable |-> snap.usable, st |-> snap.st, hist |-> snap.hist,
                      rejected |-> snap.rejected]
<1>1. PICK R \in SUBSET (DOMAIN runs) : snap.st \in [R -> Statuses]
  BY DEF IInv, TypeOK, SnapOK
<1>2. Len(sessions) \in Nat
  BY Elements DEF IInv, TypeOK
<1> QED BY <1>1, <1>2 DEF IInv, TypeOK, SnapOK, Reading

LEMMA SessionsOf ==
    ASSUME IInv
    PROVE  /\ DOMAIN sessions = 1..Len(sessions) /\ Len(sessions) \in Nat
           /\ \A r \in DOMAIN runs : runs[r].sess \in DOMAIN sessions
           /\ \A i \in DOMAIN msgs : msgs[i].sess \in DOMAIN sessions
BY Elements DEF IInv, TypeOK, Refs

(* What a snapshot says does not depend on what happens meanwhile.          *)
LEMMA SnapSays ==
    ASSUME IInv, Forward, snap' = snap
    PROVE  /\ Active' = Active /\ Run' = Run
           /\ \A s : LatestRun(s)' = LatestRun(s)
           /\ \A s \in DOMAIN sessions : \A v : Reusable(s, v)' <=> Reusable(s, v)
           /\ \A e : TargetLost(e)' <=> TargetLost(e)
<1>1. \A r \in DOMAIN snap.st : runs'[r].sess = runs[r].sess
  BY SnapParts DEF Forward
<1>2. Active' = Active
  BY DEF Active
<1>3. \A s : LatestRun(s)' = LatestRun(s)
  <2> TAKE s
  <2>1. {r \in DOMAIN snap.st : runs'[r].sess = s} = {r \in DOMAIN snap.st : runs[r].sess = s}
    BY <1>1
  <2> QED BY <2>1 DEF LatestRun, Latest
<1>4. \A s \in DOMAIN sessions : \A v : Reusable(s, v)' <=> Reusable(s, v)
  BY <1>3 DEF Reusable, Forward
<1>5. \A s \in 1..snap.n : s \in DOMAIN sessions
  BY SnapParts, SessionsOf
<1>6. \A e : TargetLost(e)' <=> TargetLost(e)
  BY <1>4, <1>5 DEF TargetLost
<1> QED BY <1>2, <1>3, <1>4, <1>6 DEF Run, Latest

LEMMA SoundStays ==
    ASSUME IInv, Started, Forward, snap' = snap, Sound
    PROVE  Sound'
<1>1. ASSUME NEW r \in DOMAIN snap.st, snap.st[r] \in Terminal
      PROVE  runs'[r].st = snap.st[r]
  <2>1. r \in DOMAIN runs /\ runs[r].st = snap.st[r]
    BY <1>1, SnapParts DEF Sound
  <2> QED BY <1>1, <2>1 DEF Forward, Live
<1>2. ASSUME NEW s \in 1..snap.n, ~Reusable(s, sessions[s].rev)'
      PROVE  Spent(s)'
  <2>1. s \in DOMAIN sessions
    BY SnapParts, SessionsOf
  <2>2. sessions'[s].rev = sessions[s].rev
    BY <2>1 DEF Forward
  <2>3. ~Reusable(s, sessions[s].rev)
    BY <1>2, <2>1, <2>2, SnapSays DEF Reusable
  <2>4. Spent(s)
    BY <2>3 DEF Sound
  <2> QED BY <2>1, <2>4, SpentStays
<1> QED BY <1>1, <1>2 DEF Sound

(* An input accepted while a pass reads.                                    *)
LEMMA MissedAdded ==
    ASSUME IInv, IInv', OnceInv, Forward, snap' = snap, pc \in Reading \cup HasRead,
           NEW e \in InHand, Adds(e), NEW i, i = New, HistoryRead(msgs'[i].sess)
    PROVE  Missed(i)'
<1>1. ~Settled(e) /\ e \in frozen /\ e \in frozen' /\ msgs'[i].env = e
  BY DEF Adds, Added, OnceInv, Hands, InHand, Reading, HasRead
<1>2. ~Known(e) /\ ~Dead(e)
  BY <1>1 DEF Settled
<1>3. e \in Envelopes /\ InputRefs(e)
  BY InHandRefs
<1>4. Sound /\ FrozenRead
  BY DEF OnceInv, SnapTrue
<1>5. e.sess \in {0, msgs'[i].sess}
  BY DEF Adds, Added
<1>6. ~TargetLost(e)
  <2> SUFFICES ASSUME e.run = 0, e.sess \in 1..snap.n PROVE Reusable(e.sess, e.rev)
    BY DEF TargetLost
  <2>1. e.sess # 0 /\ sessions[e.sess].rev = e.rev
    BY <1>3 DEF InputRefs
  <2>2. ~Spent(e.sess)
    BY <1>2, <2>1 DEF Dead, Spent
  <2> QED BY <1>4, <2>1, <2>2 DEF Sound
<1>7. ASSUME e.run # 0
      PROVE  e.run \in Active
  <2>1. e.run \in DOMAIN runs /\ runs[e.run].sess = e.sess /\ runs[e.run].st = "running"
    BY <1>3, <1>7 DEF InputRefs, Adds, Added
  <2>2. msgs'[i].sess = e.sess
    BY <1>7 DEF Adds, Added
  <2>3. e.sess <= snap.n /\ e.sess \in Nat /\ snap.n \in Nat
    BY <1>1, <1>3, <1>4, <1>7, SnapParts DEF FrozenRead, Envelopes
  <2>4. RunsRead(e.sess)
    BY <2>2, <2>3 DEF HistoryRead, RunsRead
  <2>5. e.run \in DOMAIN snap.st
    BY <1>1, <1>4, <1>7, <2>4 DEF FrozenRead
  <2>6. snap.st[e.run] \notin Terminal
    BY <1>4, <2>1, <2>5 DEF Sound, Terminal
  <2> QED BY <2>5, <2>6 DEF Active
<1>8. ~TargetLost(e)' /\ (e.run # 0 => e.run \in Active')
  BY <1>6, <1>7, SnapSays
<1> QED BY <1>1, <1>5, <1>8 DEF Missed, TargetLost

LEMMA MissedStays ==
    ASSUME IInv, Forward, snap' = snap, frozen' = frozen, NEW i \in DOMAIN msgs, Missed(i)
    PROVE  Missed(i)'
<1>1. msgs'[i] = msgs[i]
  BY DEF Forward
<1>2. ~TargetLost(msgs[i].env)'
  BY <1>1, SnapSays DEF Missed, TargetLost
<1> QED BY <1>1, <1>2, SnapSays DEF Missed, TargetLost

(* Steps that leave the snapshot alone.                                     *)
LEMMA SnapStands ==
    ASSUME IInv, IInv', OnceInv, [Next]_vars, snap' = snap, at' = at, frozen' = frozen,
           pc' = pc \/ (pc \in HasRead /\ pc' \in HasRead), pc \in Reading \cup HasRead
    PROVE  SnapTrue'
<1>1. Forward /\ (UNCHANGED msgs \/ \E e \in InHand : Adds(e))
  BY OrpheusStep DEF SessionLost
<1>2. Sound /\ FrozenRead /\ Unread /\ Started
  BY DEF OnceInv, SnapTrue, Accepts
<1>3. Sound'
  BY <1>1, <1>2, SoundStays
<1>4. FrozenRead'
  <2>1. \A s : RunsRead(s)' => RunsRead(s)
    BY DEF RunsRead, HasRead
  <2> QED BY <1>2, <2>1 DEF FrozenRead
<1>6. ASSUME NEW i \in DOMAIN msgs' \ snap.hist, HistoryRead(msgs[i].sess)'
      PROVE  Missed(i)'
  <2>1. HistoryRead(msgs'[i].sess)
    BY <1>6 DEF HistoryRead, HasRead
  <2>2. CASE i \in DOMAIN msgs
    <3>1. msgs'[i] = msgs[i]
      BY <1>1, <2>2 DEF Forward
    <3>2. Missed(i)
      BY <1>2, <1>6, <2>1, <2>2, <3>1 DEF Unread
    <3> QED BY <1>1, <2>2, <3>2, MissedStays
  <2>3. CASE i \notin DOMAIN msgs
    <3>1. PICK e \in InHand : Adds(e)
      BY <1>1, <1>6, <2>3
    <3>2. i = New
      BY <1>6, <2>3, <3>1 DEF Adds, Added
    <3> QED BY <1>1, <2>1, <3>1, <3>2, MissedAdded
  <2> QED BY <2>2, <2>3
<1>7. Unread'
  BY <1>6 DEF Unread
<1> QED BY <1>3, <1>4, <1>7 DEF SnapTrue

(* Steps that read the snapshot.                                            *)
LEMMA SnapStarts ==
    ASSUME IInv, OnceInv, StartPass
    PROVE  SnapTrue'
<1>1. /\ snap'.n = Len(sessions) /\ snap'.usable = {s \in DOMAIN sessions : sessions[s].usable}
      /\ DOMAIN snap'.st = {} /\ snap'.hist = {}
  BY DEF StartPass, SnapOf
<1>2. UNCHANGED <<sessions, runs, msgs, frozen>>
  BY DEF StartPass, orpheus
<1>3. \A s \in DOMAIN sessions : ~RunsRead(s)' /\ ~HistoryRead(s)'
  <2> TAKE s \in DOMAIN sessions
  <2>1. s \in 1..Len(sessions) /\ Len(sessions) \in Nat
    BY SessionsOf
  <2>2. at' = 1 /\ pc' = "runs"
    BY <2>1 DEF StartPass
  <2> QED BY <1>1, <2>1, <2>2 DEF RunsRead, HistoryRead, HasRead
<1>4. Sound'
  <2>1. ASSUME NEW s \in 1..snap'.n, ~Reusable(s, sessions[s].rev)'
        PROVE  Spent(s)'
    <3>1. LatestRun(s)' = 0
      BY <1>1 DEF LatestRun, Latest
    <3>2. s \in DOMAIN sessions
      BY <1>1, SessionsOf
    <3>3. ~sessions[s].usable
      BY <1>1, <1>2, <2>1, <3>1, <3>2 DEF Reusable
    <3> QED BY <1>2, <3>3 DEF Spent
  <2> QED BY <1>1, <2>1 DEF Sound
<1>5. FrozenRead'
  <2> SUFFICES ASSUME NEW e \in frozen, e.run # 0
               PROVE  e.sess \in DOMAIN sessions
    BY <1>1, <1>2, <1>3, SessionsOf DEF FrozenRead
  <2>1. InputRefs(e)
    BY InHandRefs DEF InHand
  <2> QED BY <2>1, SessionsOf DEF InputRefs
<1>6. Unread'
  BY <1>2, <1>3, SessionsOf DEF Unread
<1> QED BY <1>4, <1>5, <1>6 DEF SnapTrue

LEMMA SnapRuns ==
    ASSUME IInv, OnceInv, ReadRuns
    PROVE  SnapTrue'
<1>1. pc = "runs" /\ pc' = "history" /\ at' = at /\ UNCHANGED <<sessions, runs, msgs, frozen>>
  BY DEF ReadRuns, orpheus
<1>2. Sound /\ FrozenRead /\ Unread /\ Started
  BY <1>1 DEF OnceInv, SnapTrue, Reading, Accepts
<1>3. at \in Nat /\ at <= snap.n /\ snap.n \in Nat /\ at \in DOMAIN sessions
  BY <1>1, SnapParts, SessionsOf DEF Reading
<1> DEFINE st == [r \in DOMAIN snap.st \cup RunsOf(at) |->
                     IF r \in RunsOf(at) THEN runs[r].st ELSE snap.st[r]]
<1>4. snap' = [snap EXCEPT !.st = st]
  BY DEF ReadRuns
<1> HIDE DEF st
<1>5. snap'.n = snap.n /\ snap'.usable = snap.usable /\ snap'.hist = snap.hist /\ snap'.st = st
  BY <1>4, SnapParts
<1>6. DOMAIN st = DOMAIN snap.st \cup RunsOf(at)
  BY DEF st
<1>7. /\ \A r \in RunsOf(at) : st[r] = runs[r].st
      /\ \A r \in DOMAIN snap.st \ RunsOf(at) : st[r] = snap.st[r]
  BY DEF st
<1>8. \A r \in RunsOf(at) : r \in DOMAIN runs /\ runs[r].sess = at
  BY DEF RunsOf
<1>9. \A r \in DOMAIN snap.st : r \in DOMAIN runs /\ (r \notin RunsOf(at) <=> runs[r].sess # at)
  BY SnapParts DEF RunsOf
<1>10. \A s : s # at => LatestRun(s)' = LatestRun(s)
  <2> TAKE s
  <2> SUFFICES ASSUME s # at PROVE LatestRun(s)' = LatestRun(s)
    OBVIOUS
  <2>1. {r \in DOMAIN st : runs[r].sess = s} = {r \in DOMAIN snap.st : runs[r].sess = s}
    BY <1>6, <1>8
  <2> QED BY <1>1, <1>5, <2>1 DEF LatestRun, Latest
<1>11. LatestRun(at)' = Latest(RunsOf(at))
  <2>1. {r \in DOMAIN st : runs[r].sess = at} = RunsOf(at)
    BY <1>6, <1>8, <1>9
  <2> QED BY <1>1, <1>5, <2>1 DEF LatestRun, Latest
<1>12. ASSUME NEW s \in DOMAIN sessions, s # at
       PROVE  \A v : Reusable(s, v)' <=> Reusable(s, v)
  <2>1. LatestRun(s) # 0 => LatestRun(s) \in DOMAIN snap.st \ RunsOf(at)
    <3> DEFINE S == {r \in DOMAIN snap.st : runs[r].sess = s}
    <3>1. S \subseteq 1..Len(runs) /\ Len(runs) \in Nat
      BY SnapParts, Elements DEF IInv, TypeOK
    <3>2. Latest(S) # 0 => Latest(S) \in S
      <4> HIDE DEF S
      <4> QED BY <3>1, LatestBounded
    <3>3. LatestRun(s) = Latest(S)
      BY DEF LatestRun
    <3> QED BY <1>9, <1>12, <3>2, <3>3
  <2>2. LatestRun(s)' = LatestRun(s)
    BY <1>10, <1>12
  <2>3. LatestRun(s) # 0 => st[LatestRun(s)] = snap.st[LatestRun(s)]
    BY <1>7, <2>1
  <2> QED BY <1>1, <1>5, <2>2, <2>3 DEF Reusable
<1>13. Sound'
  <2>1. ASSUME NEW r \in DOMAIN st, st[r] \in Terminal
        PROVE  runs[r].st = st[r]
    <3>1. CASE r \in RunsOf(at)
      BY <1>7, <3>1
    <3>2. CASE r \notin RunsOf(at)
      BY <1>2, <1>6, <1>7, <2>1, <3>2 DEF Sound
    <3> QED BY <3>1, <3>2
  <2>2. ASSUME NEW s \in 1..snap.n, ~Reusable(s, sessions[s].rev)'
        PROVE  Spent(s)
    <3>1. s \in DOMAIN sessions
      BY SnapParts, SessionsOf
    <3>2. CASE s # at
      <4>1. ~Reusable(s, sessions[s].rev)
        BY <1>1, <1>12, <2>2, <3>1, <3>2 DEF Reusable
      <4> QED BY <1>2, <4>1 DEF Sound
    <3>3. CASE s = at /\ s \in snap.usable
      <4>1. Latest(RunsOf(at)) \in RunsOf(at)
        BY <1>2, <3>1, <3>3, LatestOf
      <4>2. st[Latest(RunsOf(at))] \in {"lost", "limit"}
        BY <1>1, <1>5, <1>11, <2>2, <3>3 DEF Reusable
      <4> QED BY <1>7, <3>3, <4>1, <4>2 DEF Spent
    <3>4. CASE s = at /\ s \notin snap.usable
      <4>1. ~Reusable(s, sessions[s].rev)
        BY <3>4 DEF Reusable
      <4> QED BY <1>2, <4>1 DEF Sound
    <3> QED BY <3>2, <3>3, <3>4
  <2>3. \A s : Spent(s)' <=> Spent(s)
    BY <1>1 DEF Spent, RunsOf, Latest
  <2> QED BY <1>1, <1>5, <2>1, <2>2, <2>3 DEF Sound
<1>14. FrozenRead'
  <2> SUFFICES ASSUME NEW e \in frozen, e.run # 0
               PROVE  e.sess <= snap.n /\ (RunsRead(e.sess)' => e.run \in DOMAIN st)
    BY <1>1, <1>5 DEF FrozenRead
  <2>1. e.sess \in Nat /\ InputRefs(e)
    BY InHandRefs DEF InHand, Envelopes
  <2>2. CASE e.sess = at
    BY <1>2, <1>6, <2>1, <2>2 DEF FrozenRead, InputRefs, RunsOf
  <2>3. CASE e.sess # at
    <3>1. RunsRead(e.sess)' => RunsRead(e.sess)
      BY <1>1, <1>3, <1>5, <2>1, <2>3 DEF RunsRead, HasRead
    <3> QED BY <1>2, <1>6, <3>1 DEF FrozenRead
  <2> QED BY <2>2, <2>3
<1>15. ASSUME NEW i \in DOMAIN msgs \ snap.hist, HistoryRead(msgs[i].sess)'
       PROVE  Missed(i)'
  <2> DEFINE e == msgs[i].env
  <2>1. HistoryRead(msgs[i].sess) /\ msgs[i].sess # at
    BY <1>1, <1>3, <1>5, <1>15, SessionsOf DEF HistoryRead, HasRead
  <2>2. Missed(i)
    BY <1>2, <2>1 DEF Unread
  <2>3. e \in frozen /\ e.sess \in {0, msgs[i].sess} /\ ~TargetLost(e) /\ InputRefs(e)
    BY <2>2, InHandRefs DEF Missed, InHand
  <2>4. ~TargetLost(e)'
    <3>1. e.sess \in 1..snap.n => e.sess \in DOMAIN sessions /\ e.sess # at
      BY <2>1, <2>3, SnapParts, SessionsOf
    <3> QED BY <1>1, <1>5, <1>12, <2>3, <3>1 DEF TargetLost
  <2>5. e.run # 0 => e.run \in Active'
    <3> SUFFICES ASSUME e.run # 0 PROVE e.run \in Active'
      OBVIOUS
    <3>1. e.run \in DOMAIN snap.st /\ snap.st[e.run] \notin Terminal
      BY <2>2 DEF Missed, Active
    <3>2. runs[e.run].sess # at
      BY <1>3, <2>1, <2>3, SessionsOf DEF InputRefs
    <3> QED BY <1>5, <1>6, <1>7, <1>9, <3>1, <3>2 DEF Active
  <2> QED BY <1>1, <2>3, <2>4, <2>5 DEF Missed
<1>16. Unread'
  BY <1>1, <1>5, <1>15 DEF Unread
<1> QED BY <1>13, <1>14, <1>16 DEF SnapTrue

LEMMA SnapHistory ==
    ASSUME IInv, OnceInv, ReadHistory
    PROVE  SnapTrue'
<1>1. pc = "history" /\ UNCHANGED <<sessions, runs, msgs, frozen>>
  BY DEF ReadHistory, orpheus
<1>2. Sound /\ FrozenRead /\ Unread
  BY <1>1 DEF OnceInv, SnapTrue, Reading
<1>3. at \in Nat /\ at <= snap.n /\ snap.n \in Nat
  BY SnapParts
<1>4. /\ snap'.n = snap.n /\ snap'.usable = snap.usable /\ snap'.st = snap.st
      /\ snap'.hist = snap.hist \cup MsgsOf(at)
  BY SnapParts DEF ReadHistory
<1>5. Active' = Active /\ \A s, v : Reusable(s, v)' <=> Reusable(s, v)
  BY <1>1, <1>4 DEF Active, Reusable, LatestRun, Latest
<1>6. \A e : TargetLost(e)' <=> TargetLost(e)
  BY <1>4, <1>5 DEF TargetLost
<1>7. Sound'
  <2>1. ASSUME NEW s \in 1..snap.n, ~Reusable(s, sessions[s].rev)'
        PROVE  Spent(s)'
    <3>1. ~Reusable(s, sessions[s].rev)
      BY <1>1, <1>5, <2>1 DEF Reusable
    <3> QED BY <1>1, <1>2, <3>1 DEF Sound, Spent, RunsOf, Latest
  <2> QED BY <1>1, <1>2, <1>4, <2>1 DEF Sound
<1>8. ASSUME NEW s \in Nat
      PROVE  /\ RunsRead(s)' => RunsRead(s)
             /\ HistoryRead(s)' => HistoryRead(s) \/ s = at
  <2>1. CASE at = snap.n
    BY <1>1, <1>3, <1>4, <2>1 DEF ReadHistory, RunsRead, HistoryRead, HasRead
  <2>2. CASE at # snap.n
    <3>1. at' = at + 1 /\ pc' = "runs"
      BY <2>2 DEF ReadHistory
    <3> QED BY <1>1, <1>3, <1>4, <3>1 DEF RunsRead, HistoryRead, HasRead
  <2> QED BY <2>1, <2>2
<1>9. FrozenRead'
  <2>1. \A e \in frozen : e.sess \in Nat
    BY InHandRefs DEF InHand, Envelopes
  <2> QED BY <1>1, <1>2, <1>4, <1>8, <2>1 DEF FrozenRead
<1>10. ASSUME NEW i \in DOMAIN msgs \ snap'.hist, HistoryRead(msgs[i].sess)'
       PROVE  Missed(i)'
  <2>1. msgs[i].sess \in Nat
    BY SessionsOf
  <2>2. i \notin snap.hist /\ msgs[i].sess # at
    BY <1>4, <1>10 DEF MsgsOf
  <2>3. HistoryRead(msgs[i].sess)
    BY <1>1, <1>8, <1>10, <2>1, <2>2 DEF HistoryRead
  <2>4. Missed(i)
    BY <1>2, <2>2, <2>3 DEF Unread
  <2>5. ~TargetLost(msgs[i].env)'
    BY <1>1, <1>6, <2>4 DEF Missed, TargetLost
  <2> QED BY <1>1, <1>5, <2>4, <2>5 DEF Missed, TargetLost
<1>11. Unread'
  BY <1>1, <1>10 DEF Unread
<1> QED BY <1>7, <1>9, <1>11 DEF SnapTrue

LEMMA SnapKept ==
    ASSUME IInv, IInv', OnceInv, [Next]_vars
    PROVE  SnapTrue' /\ OneActive'
<1> DEFINE Stands == /\ snap' = snap /\ at' = at /\ frozen' = frozen
                     /\ pc' = pc \/ (pc \in HasRead /\ pc' \in HasRead)
           Over == pc' \notin Reading \cup HasRead
           Fewer == pc' \in {"publish", "refresh", "decide"} =>
                       pc \in {"publish", "refresh", "decide"} \/ Cardinality(Active) <= 1
<1>1. CASE Over
  BY <1>1 DEF SnapTrue, OneActive, HasRead
<1>2. CASE Stands /\ Fewer /\ ~Over
  <2>1. pc \in Reading \cup HasRead
    BY <1>2
  <2>2. SnapTrue'
    BY <1>2, <2>1, SnapStands
  <2>3. Active' = Active
    BY <1>2 DEF Active
  <2>4. OneActive'
    BY <1>2, <2>3 DEF OneActive, OnceInv
  <2> QED BY <2>2, <2>4
<1>3. CASE StartPass
  BY <1>3, SnapStarts DEF StartPass, OneActive
<1>4. CASE ReadRuns
  BY <1>4, SnapRuns DEF ReadRuns, OneActive
<1>5. CASE ReadHistory
  BY <1>5, SnapHistory DEF ReadHistory, OneActive
<1>6. CASE Users \/ Lifecycle \/ (\E e \in late : ServeLate(e)) \/ UNCHANGED vars
  <2>1. snap' = snap /\ at' = at /\ frozen' = frozen /\ pc' = pc
    BY <1>6 DEF Users, Tick, Edit, Delete, Lifecycle, RunStart, RunFinalize, RunEnd, Deliver,
                SessionLost, ServeLate, vars, pass
  <2> QED BY <1>1, <1>2, <2>1
<1>7. CASE ReadThread \/ (\E created \in BOOLEAN : Publish(created)) \/ Refresh
  <2>1. /\ snap' = snap /\ at' = at /\ frozen' = frozen /\ pc \in HasRead /\ pc' \in HasRead
        /\ pc \in {"publish", "refresh"} \/ Cardinality(Active) <= 1
    BY <1>7 DEF ReadThread, Publish, Refresh, pass, HasRead
  <2> QED BY <1>1, <1>2, <2>1
<1>8. CASE Serve \/ Import \/ Confirm \/ Resend \/ Freeze
  <2>1. pc' \in {"reply", "import", "confirm", "await", "idle"}
    BY <1>8 DEF Serve, Import, Confirm, Resend, Freeze, Submitting, EndPass
  <2> QED BY <1>1, <2>1 DEF Reading, HasRead
<1>9. CASE \/ Revoke \/ Blocked \/ Drain \/ Hold \/ Wait \/ RejectOversized \/ Receive \/ RejectRefused
           \/ Disturbance
  <2>1. pc' \in {"idle", "down"}
    BY <1>9 DEF Revoke, Blocked, Drain, Hold, Wait, RejectOversized, Receive, RejectRefused,
                Disturbance, Fail, Denied, Reload, Crash, Restart, EndPass
  <2> QED BY <1>1, <2>1 DEF Reading, HasRead
<1> QED
  BY <1>3, <1>4, <1>5, <1>6, <1>7, <1>8, <1>9 DEF Next, Orpheus, Connector

-----------------------------------------------------------------------------
(* Once nothing is kept, what was frozen is settled and the snapshot has
   every message.                                                           *)

LEMMA OnlyRun ==
    ASSUME IInv, Cardinality(Active) <= 1, NEW r \in Active
    PROVE  Run = r
<1>1. Active \subseteq 1..Len(runs) /\ Len(runs) \in Nat
  BY SnapParts, Elements DEF Active, IInv, TypeOK
<1>2. IsFiniteSet(Active)
  <2>1. IsFiniteSet(1..Len(runs))
    BY <1>1, FS_Interval
  <2> QED BY <1>1, <2>1, FS_Subset
<1>3. r \in 1..Len(runs)
  BY <1>1
<1>4. Active \subseteq 0..Len(runs)
  BY <1>1
<1>5. Run \in Active
  BY <1>1, <1>4, MaxOfBounded DEF Run, Latest
<1>6. SUFFICES ASSUME Run # r PROVE FALSE
  OBVIOUS
<1>7. Cardinality({r}) = 1 /\ IsFiniteSet({r})
  BY FS_Singleton
<1>8. Cardinality({r} \cup {Run}) = 2
  BY <1>6, <1>7, FS_AddElement
<1>9. {r} \cup {Run} \subseteq Active
  BY <1>5
<1>10. Cardinality({r} \cup {Run}) <= Cardinality(Active) /\ Cardinality(Active) \in Nat
  BY <1>2, <1>9, FS_Subset, FS_CardinalityType
<1> QED BY <1>8, <1>10

LEMMA NothingMissed ==
    ASSUME IInv, OnceInv, pc = "decide", Kept = {}
    PROVE  snap.hist = DOMAIN msgs /\ \A f \in frozen : Settled(f)
<1>1. Sound /\ FrozenRead /\ Unread /\ Cardinality(Active) <= 1
  BY DEF OnceInv, SnapTrue, HasRead, OneActive
<1>2. Accepts /\ Hands
  BY DEF OnceInv
<1>3. \A f \in frozen : Accepted(f) \/ TargetLost(f) \/ RunGone(f)
  BY DEF Kept
<1>4. ASSUME NEW i \in DOMAIN msgs, i \notin snap.hist
      PROVE  FALSE
  <2> DEFINE f == msgs[i].env
  <2>1. Missed(i)
    BY <1>1, <1>4 DEF Unread, HistoryRead, HasRead
  <2>2. f \in frozen /\ ~TargetLost(f) /\ ~RunGone(f)
    BY <1>1, <2>1, OnlyRun DEF Missed, RunGone
  <2>3. PICK j \in snap.hist : msgs[j].env.anchor = f.anchor /\ msgs[j].env.link = f.link
    BY <1>3, <2>2 DEF Accepted
  <2>4. j \in DOMAIN msgs /\ j # i
    BY <1>4, <2>3, SnapParts
  <2>5. CASE f.link = 0
    <3>1. Direct(i) /\ Direct(j) /\ Anchored(f) /\ Anchored(msgs[j].env)
      BY <1>2, <2>3, <2>4, <2>5 DEF Direct, Accepts
    <3>2. f.anchor \in Trig(f) \cap Trig(msgs[j].env)
      BY <2>3, <3>1 DEF Anchored, Direct
    <3> QED BY <1>2, <2>4, <3>1, <3>2 DEF Accepts, TriggerAcceptedOnce
  <2>6. CASE f.link # 0
    BY <1>2, <2>3, <2>4, <2>6 DEF Accepts, CarriedOnce
  <2> QED BY <2>5, <2>6
<1>5. ASSUME NEW f \in frozen
      PROVE  Settled(f)
  <2>1. f \in InHand /\ InputRefs(f) /\ f \in Envelopes
    BY InHandRefs DEF InHand
  <2>2. CASE Accepted(f)
    <3>1. PICK j \in snap.hist : msgs[j].env.anchor = f.anchor /\ msgs[j].env.link = f.link
      BY <2>2 DEF Accepted
    <3>2. j \in DOMAIN msgs
      BY <3>1, SnapParts
    <3>3. ~Unique(f)
      <4>1. CASE f.link = 0
        <5>1. f.anchor \in Trig(f) /\ f.anchor \in Trig(msgs[j].env)
          BY <1>2, <2>1, <3>1, <3>2, <4>1 DEF Accepts, Anchored
        <5> QED BY <3>2, <4>1, <5>1 DEF Unique
      <4>2. CASE f.link # 0
        BY <3>1, <3>2, <4>2 DEF Unique
      <4> QED BY <4>1, <4>2
    <3> QED BY <1>2, <2>1, <3>3 DEF Hands
  <2>3. CASE TargetLost(f)
    <3>1. f.run = 0 /\ f.sess \in 1..snap.n /\ f.sess # 0 /\ ~Reusable(f.sess, f.rev)
      BY <2>3 DEF TargetLost
    <3>2. sessions[f.sess].rev = f.rev
      BY <2>1, <3>1 DEF InputRefs
    <3>3. Spent(f.sess)
      BY <1>1, <3>1, <3>2 DEF Sound
    <3> QED BY <3>1, <3>3 DEF Settled, Dead, Spent
  <2>4. CASE RunGone(f)
    <3>1. f.run # 0 /\ f.run # Run
      BY <2>4 DEF RunGone
    <3>2. f.run \in DOMAIN snap.st
      BY <1>1, <3>1 DEF FrozenRead, RunsRead, HasRead
    <3>3. snap.st[f.run] \in Terminal
      BY <1>1, <3>1, <3>2, OnlyRun DEF Active
    <3>4. runs[f.run].st \notin {"queued", "running"}
      BY <1>1, <3>2, <3>3 DEF Sound, Terminal
    <3> QED BY <3>1, <3>4 DEF Settled, Dead
  <2> QED BY <1>3, <2>2, <2>3, <2>4
<1> QED BY <1>4, <1>5, SnapParts

-----------------------------------------------------------------------------
(* So the next input has no rival.                                          *)

LEMMA TargetKeeps ==
    ASSUME NEW e \in Envelopes
    PROVE  /\ Target(e).anchor = e.anchor /\ Target(e).vers = e.vers /\ Target(e).rev = e.rev
           /\ Target(e).link = e.link /\ Target(e).run = Run
BY DEF Target, Envelopes

LEMMA FreshIs ==
    ASSUME IInv, Candidates # {}
    PROVE  /\ Fresh.anchor = Min(PostsOf(Candidates)) /\ Fresh.vers = Batch /\ Fresh.link = 0
           /\ Fresh.run = Run
<1> DEFINE e == [anchor |-> Min(PostsOf(Candidates)), vers |-> Batch, rev |-> rev, link |-> 0,
                 after |-> IF snap.n = 0 THEN 0 ELSE LatestRun(snap.n), sess |-> 0, run |-> 0]
<1>1. LatestRun(snap.n) \in Nat
  <2>1. {r \in DOMAIN snap.st : runs[r].sess = snap.n} \subseteq 1..Len(runs) /\ Len(runs) \in Nat
    BY SnapParts, Elements DEF IInv, TypeOK
  <2>2. LatestRun(snap.n) \in 0..Len(runs)
    BY <2>1, LatestBounded DEF LatestRun
  <2> QED BY <2>2
<1>2. e \in Envelopes
  BY <1>1, PostsOfCandidates DEF Envelopes, IInv, TypeOK, ConnectorOK
<1>3. e.anchor = Min(PostsOf(Candidates)) /\ e.vers = Batch /\ e.link = 0
  OBVIOUS
<1>4. Fresh = Target(e)
  BY DEF Fresh
<1> HIDE DEF e
<1> QED BY <1>2, <1>3, <1>4, TargetKeeps

LEMMA TransferIs ==
    ASSUME IInv, Transferable # {}
    PROVE  /\ Transfer.link = FirstTransferable /\ Transfer.run = Run
           /\ Transfer.vers = msgs[FirstTransferable].env.vers
<1> DEFINE k == FirstTransferable
           e == [msgs[k].env EXCEPT !.rev = rev, !.link = k, !.after = 0]
<1>1. k \in DOMAIN msgs /\ k \in Nat /\ msgs[k].env \in Envelopes /\ rev \in Revs
  BY TransferableOne, Elements DEF IInv, TypeOK, ConnectorOK
<1> HIDE DEF k
<1>2. e \in Envelopes /\ e.link = k /\ e.vers = msgs[k].env.vers
  BY <1>1 DEF Envelopes
<1>3. Transfer = Target(e)
  BY DEF Transfer, k
<1> HIDE DEF e
<1>4. Transfer.link = k /\ Transfer.run = Run /\ Transfer.vers = msgs[k].env.vers
  BY <1>2, <1>3, TargetKeeps
<1> QED BY <1>4 DEF k

(* A batch is a prefix of the candidates and contains the first of them.    *)
LEMMA BatchPrefix ==
    ASSUME IInv, Candidates # {}
    PROVE  /\ Batch \subseteq Candidates
           /\ \E v \in Batch : v[1] = Min(PostsOf(Candidates))
           /\ \A v \in Batch, w \in Candidates : w[1] < v[1] => w \in Batch
<1> DEFINE first == Min(PostsOf(Candidates))
<1>1. Candidates \in SUBSET (Posts \X (0..MaxEdits))
  BY DEF IInv, TypeOK, ConnectorOK, Threads, Candidates
<1>2. PostsOf(Candidates) \subseteq Nat /\ PostsOf(Candidates) # {} /\ Window \in Nat
  BY <1>1, TimeAssumption DEF PostsOf, Posts
<1>3. first \in PostsOf(Candidates) /\ \A p \in PostsOf(Candidates) : first <= p
  BY <1>2, MinOfNat
<1>4. \A v \in Candidates : v[1] \in PostsOf(Candidates) /\ v[1] \in Nat
  BY <1>2 DEF PostsOf
<1>5. InWindow = {v \in Candidates : v[1] <= first + Window}
  BY DEF InWindow
<1>6. PICK v0 \in Candidates : v0[1] = first
  BY <1>3 DEF PostsOf
<1> HIDE DEF first
<1>7. first \in Nat /\ v0 \in InWindow
  BY <1>2, <1>3, <1>5, <1>6
<1>8. PostsOf(InWindow) \subseteq PostsOf(Candidates) /\ first \in PostsOf(InWindow)
  BY <1>5, <1>6, <1>7 DEF PostsOf
<1>9. Min(PostsOf(InWindow)) = first
  <2>1. /\ Min(PostsOf(InWindow)) \in PostsOf(InWindow)
        /\ \A p \in PostsOf(InWindow) : Min(PostsOf(InWindow)) <= p
    BY <1>2, <1>8, MinOfNat
  <2>2. Min(PostsOf(InWindow)) <= first /\ first <= Min(PostsOf(InWindow))
    BY <1>3, <1>8, <2>1
  <2> QED BY <1>2, <1>7, <1>8, <2>1, <2>2
<1>10. CASE Fitting = {}
  <2>1. Batch = {v \in InWindow : v[1] = first}
    BY <1>9, <1>10 DEF Batch, FirstOnly
  <2> QED BY <1>3, <1>4, <1>5, <1>6, <1>7, <2>1 DEF first
<1>11. CASE Fitting # {}
  <2>1. Batch = UNION Fitting
    BY <1>11 DEF Batch
  <2>2. \A S \in Fitting : \E p \in PostsOf(InWindow) : S = {v \in InWindow : v[1] <= p}
    BY DEF Fitting, Prefixes
  <2>3. Batch \subseteq Candidates
    BY <1>5, <2>1, <2>2
  <2>4. v0 \in Batch
    <3>1. PICK S \in Fitting : TRUE
      BY <1>11
    <3>2. PICK p \in PostsOf(InWindow) : S = {v \in InWindow : v[1] <= p}
      BY <2>2
    <3>3. first <= p
      BY <1>3, <1>8
    <3> QED BY <1>6, <1>7, <2>1, <3>2, <3>3
  <2>5. ASSUME NEW v \in Batch, NEW w \in Candidates, w[1] < v[1]
        PROVE  w \in Batch
    <3>1. PICK S \in Fitting : v \in S
      BY <2>1
    <3>2. PICK p \in PostsOf(InWindow) : S = {x \in InWindow : x[1] <= p}
      BY <2>2
    <3>3. v \in Candidates /\ v[1] <= first + Window /\ v[1] <= p /\ p \in Nat
      BY <1>2, <1>5, <1>8, <3>1, <3>2
    <3>4. w[1] <= first + Window /\ w[1] <= p
      BY <1>2, <1>4, <1>7, <2>5, <3>3
    <3>5. w \in S
      BY <1>5, <3>2, <3>4
    <3> QED BY <2>1, <3>5
  <2> QED BY <1>6, <2>3, <2>4, <2>5 DEF first
<1> QED BY <1>10, <1>11

LEMMA OfferUnique ==
    ASSUME IInv, snap.hist = DOMAIN msgs, NEW e \in Offer
    PROVE  Unique(e) /\ Anchored(e)
<1>1. CASE Transferable # {} /\ e = Transfer
  <2>1. e.link = FirstTransferable /\ FirstTransferable \in Transferable
    BY <1>1, TransferIs, TransferableOne
  <2>2. FirstTransferable \in DOMAIN msgs /\ FirstTransferable # 0
    BY <1>1, TransferableOne, Elements DEF IInv, TypeOK
  <2>3. \A i \in DOMAIN msgs : msgs[i].env.link # FirstTransferable
    BY <2>1 DEF Transferable
  <2> QED BY <2>1, <2>2, <2>3 DEF Unique, Anchored
<1>2. CASE Due /\ e = Fresh
  <2>1. Candidates # {}
    BY <1>2 DEF Due
  <2>2. e.anchor = Min(PostsOf(Candidates)) /\ e.vers = Batch /\ e.link = 0
    BY <1>2, <2>1, FreshIs
  <2>3. Batch \subseteq Candidates /\ \E v \in Batch : v[1] = Min(PostsOf(Candidates))
    BY <2>1, BatchPrefix
  <2>4. Anchored(e)
    BY <2>2, <2>3 DEF Anchored, Trig, PostsOf
  <2>5. ASSUME NEW i \in DOMAIN msgs
        PROVE  Trig(e) \cap Trig(msgs[i].env) = {}
    <3>1. Trig(msgs[i].env) \subseteq KnownTriggers
      BY DEF KnownTriggers
    <3>2. \A v \in Batch : v[1] \notin KnownTriggers
      BY <2>3 DEF Candidates
    <3>3. \A p \in Trig(e) : p \notin KnownTriggers
      BY <2>2, <3>2 DEF Trig, PostsOf
    <3> QED BY <3>1, <3>3
  <2> QED BY <2>2, <2>4, <2>5 DEF Unique
<1> QED BY <1>1, <1>2 DEF Offer

-----------------------------------------------------------------------------
(* Every step keeps the invariant.                                          *)

LEMMA HandStep ==
    ASSUME [Next]_vars
    PROVE  \/ Freeze
           \/ /\ frozen' \subseteq frozen /\ InHand' \subseteq InHand
              /\ ~LateRequests => late' \subseteq late
<1>1. CASE Freeze
  BY <1>1
<1>2. CASE Users \/ Lifecycle \/ UNCHANGED vars
  <2>1. frozen' = frozen /\ late' = late
    BY <1>2 DEF Users, Tick, Edit, Delete, Lifecycle, RunStart, RunFinalize, RunEnd, Deliver,
                SessionLost, vars
  <2> QED BY <2>1 DEF InHand
<1>3. CASE Serve \/ \E e \in late : ServeLate(e)
  <2>1. frozen' = frozen /\ late' \subseteq late
    BY <1>3 DEF Serve, ServeLate
  <2> QED BY <2>1 DEF InHand
<1>4. CASE Connector /\ ~Freeze
  <2>1. frozen' \subseteq frozen /\ late' = late
    BY <1>4
    DEF Connector, StartPass, ReadRuns, ReadHistory, Revoke, Blocked, ReadThread, Publish, Refresh,
        Drain, Hold, Resend, Wait, RejectOversized, Import, Confirm, Receive, RejectRefused
  <2> QED BY <2>1 DEF InHand
<1>5. CASE Disturbance
  <2>1. frozen' \subseteq frozen /\ (late' = late \/ (LateRequests /\ late' = late \cup frozen))
    BY <1>5 DEF Disturbance, Fail, Denied, Reload, Crash, Restart, Abandoned
  <2> QED BY <2>1 DEF InHand
<1> QED BY <1>1, <1>2, <1>3, <1>4, <1>5 DEF Next, Orpheus

LEMMA FreezeIs ==
    ASSUME IInv, OnceInv, Freeze
    PROVE  /\ \E e \in Offer : frozen' = {e} /\ ~Oversized(e) /\ ~Deferred(e)
           /\ snap.hist = DOMAIN msgs /\ (\A f \in frozen : Settled(f)) /\ ~Closed
           /\ UNCHANGED <<mattermost, orpheus, late, config, pass>>
BY NothingMissed DEF Freeze, Deciding

LEMMA AcceptsKept ==
    ASSUME IInv, OnceInv, [Next]_vars
    PROVE  Accepts'
<1>1. Forward /\ (UNCHANGED msgs \/ \E e \in InHand : Adds(e))
  BY OrpheusStep DEF SessionLost
<1>2. Accepts /\ Hands /\ Started'
  BY <1>1, StartedStays DEF OnceInv, Accepts
<1>3. \A e \in InHand' : Anchored(e)
  <2>1. CASE Freeze
    <3>1. \A e \in InHand' : e \in InHand \/ e \in Offer
      BY <2>1, FreezeIs DEF InHand
    <3> QED BY <1>2, <2>1, <3>1, FreezeIs, OfferUnique DEF Accepts
  <2>2. CASE ~Freeze
    BY <1>2, <2>2, HandStep DEF Accepts
  <2> QED BY <2>1, <2>2
<1>4. \A e : Anchored(e)' <=> Anchored(e)
  BY DEF Anchored, Trig
<1>5. CASE UNCHANGED msgs
  BY <1>2, <1>3, <1>4, <1>5 DEF Accepts, TriggerAcceptedOnce, CarriedOnce, Anchored, Trig, Direct
<1>6. ASSUME NEW e \in InHand, Adds(e)
      PROVE  Accepts'
  <2>1. /\ DOMAIN msgs' = DOMAIN msgs \cup {New} /\ msgs'[New].env = e
        /\ \A i \in DOMAIN msgs : msgs'[i] = msgs[i]
    BY <1>1, <1>6 DEF Adds, Added, Forward
  <2>2. Unique(e) /\ Anchored(e)
    BY <1>2, <1>6 DEF Accepts, Hands, Adds, Added
  <2>3. TriggerAcceptedOnce'
    <3> SUFFICES ASSUME NEW i \in DOMAIN msgs', NEW j \in DOMAIN msgs', i # j,
                        msgs'[i].env.link = 0, msgs'[j].env.link = 0
                 PROVE  Trig(msgs'[i].env) \cap Trig(msgs'[j].env) = {}
      BY DEF TriggerAcceptedOnce, Direct, Trig
    <3>1. CASE i \in DOMAIN msgs /\ j \in DOMAIN msgs
      BY <1>2, <2>1, <3>1 DEF Accepts, TriggerAcceptedOnce, Direct
    <3>2. CASE i = New /\ j \in DOMAIN msgs
      BY <2>1, <2>2, <3>2 DEF Unique
    <3>3. CASE j = New /\ i \in DOMAIN msgs
      BY <2>1, <2>2, <3>3 DEF Unique
    <3> QED BY <2>1, <3>1, <3>2, <3>3
  <2>4. CarriedOnce'
    BY <1>2, <2>1, <2>2 DEF Accepts, CarriedOnce, Unique
  <2>5. \A i \in DOMAIN msgs' : Anchored(msgs'[i].env)
    BY <1>2, <2>1, <2>2 DEF Accepts
  <2> QED BY <1>2, <1>3, <1>4, <2>3, <2>4, <2>5 DEF Accepts, Anchored, Trig
<1> QED BY <1>1, <1>5, <1>6

(* What settles an input in hand, or leaves it without a rival.             *)
LEMMA StillUnique ==
    ASSUME IInv, OnceInv, [Next]_vars, NEW f \in InHand
    PROVE  /\ Settled(f) => Settled(f)'
           /\ Settled(f)' \/ Unique(f)'
<1>1. Forward /\ (UNCHANGED msgs \/ \E e \in InHand : Adds(e)) /\ Started /\ Hands
  BY OrpheusStep DEF SessionLost, OnceInv, Accepts
<1>2. Settled(f) => Settled(f)'
  BY <1>1, InHandRefs, SettledStays
<1>3. ASSUME ~Settled(f)
      PROVE  Settled(f)' \/ Unique(f)'
  <2>1. Unique(f)
    BY <1>1, <1>3 DEF Hands
  <2>2. CASE UNCHANGED msgs
    BY <2>1, <2>2 DEF Unique, Trig
  <2>3. ASSUME NEW e \in InHand, Adds(e)
        PROVE  Settled(f)'
    <3>1. f = e
      BY <1>1, <1>3, <2>3 DEF Hands, Adds, Added
    <3>2. Known(f)'
      BY <2>3, <3>1 DEF Known, Adds, Added
    <3> QED BY <3>2 DEF Settled
  <2> QED BY <1>1, <2>2, <2>3
<1> QED BY <1>2, <1>3

LEMMA NoRivalKept ==
    ASSUME IInv, OnceInv, [Next]_vars, Timely, pc' # "down"
    PROVE  \A e \in late' : Settled(e)' \/ e \in frozen'
<1>1. Hands
  BY DEF OnceInv
<1>2. \A e \in InHand : Settled(e) => Settled(e)'
  BY StillUnique
<1>3. CASE pc # "down" /\ frozen' = frozen /\ late' \subseteq late \cup frozen
  BY <1>1, <1>2, <1>3 DEF Hands, InHand
<1>4. CASE late' = {}
  BY <1>4
<1>5. CASE late' = late /\ pc # "down" /\ \A f \in frozen : Settled(f)
  BY <1>1, <1>2, <1>5 DEF Hands, InHand
<1>6. CASE Users \/ Lifecycle \/ UNCHANGED vars
  <2>1. frozen' = frozen /\ late' = late /\ pc' = pc
    BY <1>6 DEF Users, Tick, Edit, Delete, Lifecycle, RunStart, RunFinalize, RunEnd, Deliver,
                SessionLost, vars
  <2> QED BY <1>3, <2>1
<1>7. CASE Serve \/ \E e \in late : ServeLate(e)
  <2>1. frozen' = frozen /\ late' \subseteq late /\ pc # "down"
    BY <1>7 DEF Serve, ServeLate
  <2> QED BY <1>3, <2>1
<1>8. CASE \/ StartPass \/ ReadRuns \/ ReadHistory \/ Blocked \/ ReadThread
           \/ (\E created \in BOOLEAN : Publish(created)) \/ Refresh
           \/ Drain \/ Hold \/ Resend \/ Import \/ Confirm
  <2>1. frozen' = frozen /\ late' = late /\ pc # "down"
    BY <1>8 DEF StartPass, ReadRuns, ReadHistory, Blocked, ReadThread, Publish, Refresh,
                Drain, Hold, Resend, Import, Confirm, Deciding
  <2> QED BY <1>3, <2>1
<1>9. CASE Wait \/ RejectOversized \/ Freeze
  <2>1. late' = late /\ pc = "decide" /\ Kept = {}
    BY <1>9 DEF Wait, RejectOversized, Freeze, Deciding
  <2> QED BY <1>5, <2>1, NothingMissed
<1>10. CASE Receive
  <2>1. CASE reply = "ok"
    <3>1. \A f \in frozen : Settled(f)
      BY <1>10, <2>1 DEF Receive, OnceInv, Answered, Settled
    <3> QED BY <1>5, <1>10, <3>1 DEF Receive
  <2>2. CASE reply # "ok"
    BY <1>3, <1>10, <2>2 DEF Receive
  <2> QED BY <2>1, <2>2
<1>11. CASE RejectRefused
  <2>1. \A f \in frozen : Settled(f)
    BY <1>11 DEF RejectRefused, OnceInv, Answered, Settled
  <2> QED BY <1>5, <1>11, <2>1 DEF RejectRefused
<1>12. CASE Revoke \/ Restart
  <2>1. late' = late /\ (Stragglers \/ late = {})
    BY <1>12 DEF Revoke, Restart
  <2>2. late = {}
    BY <1>1, <2>1, FlagsAssumption DEF Timely, Hands
  <2> QED BY <1>4, <2>1, <2>2
<1>13. CASE Disturbance /\ ~Restart
  <2>1. frozen' = frozen /\ late' \subseteq late \cup frozen /\ pc # "down"
    BY <1>13 DEF Disturbance, Fail, Denied, Reload, Crash, Abandoned
  <2> QED BY <1>3, <2>1
<1> QED
  BY <1>6, <1>7, <1>8, <1>9, <1>10, <1>11, <1>12, <1>13 DEF Next, Orpheus, Connector

LEMMA DownEmpty ==
    ASSUME OnceInv, [Next]_vars, pc' = "down"
    PROVE  frozen' = {}
<1>1. CASE pc = "down" /\ frozen' = frozen
  BY <1>1 DEF OnceInv, Hands
<1>2. CASE Users \/ Lifecycle \/ UNCHANGED vars \/ \E e \in late : ServeLate(e)
  <2>1. frozen' = frozen /\ pc' = pc
    BY <1>2 DEF Users, Tick, Edit, Delete, Lifecycle, RunStart, RunFinalize, RunEnd, Deliver,
                SessionLost, ServeLate, vars
  <2> QED BY <1>1, <2>1
<1>3. CASE Serve \/ Connector
  BY <1>3 DEF Serve, Connector, StartPass, ReadRuns, ReadHistory, Revoke, Blocked, ReadThread,
     Publish, Refresh, Drain, Hold, Resend, Wait, RejectOversized, Freeze, Submitting, Import,
     Confirm, Receive, RejectRefused, EndPass
<1>4. CASE Disturbance
  BY <1>4 DEF Disturbance, Fail, Denied, Reload, Crash, Restart, EndPass
<1> QED BY <1>2, <1>3, <1>4 DEF Next, Orpheus

LEMMA HandsKept ==
    ASSUME IInv, OnceInv, [Next]_vars, Timely
    PROVE  Hands'
<1>1. Hands
  BY DEF OnceInv
<1>2. CASE ~Freeze
  <2>1. InHand' \subseteq InHand /\ (~LateRequests => late' \subseteq late)
    BY <1>2, HandStep
  <2> QED BY <1>1, <2>1, StillUnique, NoRivalKept, DownEmpty DEF Hands
<1>3. CASE Freeze
  <2>1. PICK e \in Offer : frozen' = {e}
    BY <1>3, FreezeIs
  <2>2. late' = late /\ pc = "decide" /\ UNCHANGED orpheus /\ snap.hist = DOMAIN msgs
    BY <1>3, FreezeIs DEF Freeze, Deciding
  <2>3. \A f \in late : Settled(f)'
    <3> TAKE f \in late
    <3>1. Settled(f)
      BY <1>1, <1>3, <2>2, FreezeIs DEF Hands
    <3> QED BY <3>1, StillUnique DEF InHand
  <2>4. Unique(e)'
    <3>1. Unique(e)
      BY <2>2, OfferUnique
    <3> QED BY <2>2, <3>1 DEF Unique, Trig, orpheus
  <2>5. \A f \in InHand' : f = e \/ Settled(f)'
    BY <2>1, <2>2, <2>3 DEF InHand
  <2> QED BY <1>1, <2>1, <2>2, <2>3, <2>4, <2>5, DownEmpty DEF Hands
<1> QED BY <1>2, <1>3

LEMMA AnsweredKept ==
    ASSUME IInv, OnceInv, [Next]_vars
    PROVE  Answered'
<1> SUFFICES ASSUME pc' = "reply" PROVE Answered'
  BY DEF Answered
<1>1. CASE Serve
  <2>1. PICK e \in frozen : Process(e, reply')
    BY <1>1 DEF Serve
  <2>2. (reply' = "ok" => Known(e)') /\ (reply' = "refused" => Dead(e)')
    BY <2>1, InHandRefs, ProcessEffect DEF InHand
  <2>3. \A f \in frozen' : f = e
    BY <1>1 DEF Serve, IInv, TypeOK, ConnectorOK
  <2> QED BY <2>2, <2>3 DEF Answered
<1>2. CASE pc = "reply" /\ reply' = reply /\ frozen' = frozen
  <2>1. Forward /\ Started
    BY OrpheusStep DEF OnceInv, Accepts
  <2>2. \A f \in frozen : (Known(f) => Known(f)') /\ (Dead(f) => Dead(f)')
    BY <2>1, InHandRefs, KnownStays, DeadStays DEF InHand
  <2> QED BY <1>2, <2>2 DEF OnceInv, Answered
<1>3. CASE Users \/ Lifecycle \/ UNCHANGED vars \/ \E e \in late : ServeLate(e)
  <2>1. frozen' = frozen /\ pc' = pc /\ reply' = reply
    BY <1>3 DEF Users, Tick, Edit, Delete, Lifecycle, RunStart, RunFinalize, RunEnd, Deliver,
                SessionLost, ServeLate, vars, pass
  <2> QED BY <1>2, <2>1
<1>4. CASE Connector
  BY <1>4 DEF Connector, StartPass, ReadRuns, ReadHistory, Revoke, Blocked, ReadThread,
     Publish, Refresh, Drain, Hold, Resend, Wait, RejectOversized, Freeze, Submitting, Import,
     Confirm, Receive, RejectRefused, EndPass
<1>5. CASE Disturbance
  BY <1>5 DEF Disturbance, Fail, Denied, Reload, Crash, Restart, EndPass
<1> QED BY <1>1, <1>3, <1>4, <1>5 DEF Next, Orpheus

LEMMA OnceConsecution == IInv /\ IInv' /\ OnceInv /\ Timely /\ [Next]_vars => OnceInv'
BY AcceptsKept, HandsKept, AnsweredKept, SnapKept DEF OnceInv

LEMMA OnceInitiation == Init => OnceInv
<1> SUFFICES ASSUME Init PROVE OnceInv
  OBVIOUS
<1>1. DOMAIN msgs = {} /\ DOMAIN sessions = {} /\ InHand = {} /\ pc = "idle"
  BY DEF Init, InHand
<1> QED
  BY <1>1 DEF Init, OnceInv, Accepts, Hands, Answered, SnapTrue, OneActive, Started,
     TriggerAcceptedOnce, CarriedOnce, Reading, HasRead

LEMMA OnceHolds ==
    ASSUME Timely
    PROVE  Spec => []OnceInv
<1>1. OnceInv /\ IInv /\ IInv' /\ [Next]_vars => OnceInv'
  BY OnceConsecution
<1> QED BY Initiation, Consecution, OnceInitiation, <1>1, PTL DEF Spec

(* A trigger is accepted once, however often requests are repeated, answered
   late or rebuilt after a crash (Engine.retry, Engine.admit).              *)
THEOREM AcceptedOnce ==
    ASSUME Timely
    PROVE  Spec => []TriggerAcceptedOnce
<1>1. OnceInv => TriggerAcceptedOnce
  BY DEF OnceInv, Accepts
<1> QED BY OnceHolds, <1>1, PTL

(* A request that may still take effect is the frozen input: the connector
   never sends another in its place (Engine.pending).                       *)
THEOREM WithoutRival == Spec => []NoRival
<1>1. CASE Timely
  <2>1. OnceInv => NoRival
    BY DEF OnceInv, Hands, NoRival, Settled
  <2> QED BY <1>1, <2>1, OnceHolds, PTL
<1>2. CASE Stragglers
  <2>1. NoRival
    BY <1>2 DEF NoRival
  <2> QED BY <2>1, PTL
<1> QED BY <1>1, <1>2, FlagsAssumption DEF Timely

-----------------------------------------------------------------------------
(* Admission implements Intake.  An input that carries a message over repeats
   its posts, and the message had come back (Links, Returned); a message that
   shares a post with a later one has been carried over (Chained), so what is
   carried over next shares none with a later one.                          *)

LinkOK(e) == e.link # 0 => e.link \in rejected /\ Trig(e) = Trig(msgs[e.link].env)
Sent == {msgs[i].env : i \in DOMAIN msgs}
Links == \A e \in InHand \cup Sent : LinkOK(e)
Returned == \A i \in rejected : i \notin delivered /\ ~Live(msgs[i].run)
Chained ==
    \A i, j \in DOMAIN msgs : i < j /\ Trig(msgs[i].env) \cap Trig(msgs[j].env) # {} =>
        \E l \in DOMAIN msgs : msgs[l].env.link = i
PromiseInv == Links /\ Returned /\ Chained /\ snap.rejected \subseteq rejected

MessagesOf(r) == {i \in DOMAIN msgs : msgs[i].run = r}

Takes(r, S) ==
    /\ S \subseteq MessagesOf(r) /\ delivered' = delivered \cup S
    /\ UNCHANGED <<msgs, rejected>>
Ends(r) ==
    /\ rejected' = rejected \cup (MessagesOf(r) \ delivered) /\ ~Live(r)'
    /\ UNCHANGED <<msgs, delivered>>

LEMMA EndEnds ==
    ASSUME IInv, NEW r \in DOMAIN runs, NEW st \in Terminal, End(r, st), UNCHANGED <<msgs, delivered>>
    PROVE  Ends(r)
<1>1. runs[r] \in [sess : Nat, st : Statuses]
  BY Elements DEF IInv, TypeOK
<1>2. runs'[r].st = st
  BY <1>1 DEF End
<1> QED BY <1>2 DEF End, Ends, Undelivered, MessagesOf, Live

(* Every step of the system, seen from Intake.                              *)
LEMMA FateStep ==
    ASSUME IInv, [Next]_vars
    PROVE  \/ UNCHANGED <<msgs, delivered, rejected>>
           \/ (\E e \in InHand : Adds(e)) /\ UNCHANGED <<delivered, rejected>>
           \/ \E r \in DOMAIN runs : Live(r) /\ (Ends(r) \/ \E S \in SUBSET MessagesOf(r) : Takes(r, S))
<1>1. CASE \E r \in DOMAIN runs : RunStart(r) \/ RunFinalize(r) \/ \E st \in Outcomes : RunEnd(r, st)
  <2>1. PICK r \in DOMAIN runs : RunStart(r) \/ RunFinalize(r) \/ \E st \in Outcomes : RunEnd(r, st)
    BY <1>1
  <2>2. CASE RunStart(r)
    <3>1. InitialOf(r) \in SUBSET MessagesOf(r) /\ Live(r)
      BY <2>2 DEF InitialOf, MessagesOf, RunStart, Live, Terminal
    <3>2. Takes(r, InitialOf(r))
      BY <2>2, <3>1 DEF RunStart, Takes
    <3> QED BY <3>1, <3>2
  <2>3. CASE RunFinalize(r)
    BY <2>3 DEF RunFinalize
  <2>4. ASSUME NEW st \in Outcomes, RunEnd(r, st)
        PROVE  Live(r) /\ Ends(r)
    <3>1. st \in Terminal /\ Live(r) /\ End(r, st) /\ UNCHANGED <<msgs, delivered>>
      BY <2>4, OutcomesAssumption DEF RunEnd, Live, Terminal
    <3> QED BY <3>1, EndEnds
  <2> QED BY <2>1, <2>2, <2>3, <2>4
<1>2. ASSUME NEW i \in DOMAIN msgs, Deliver(i)
      PROVE  \E r \in DOMAIN runs : Live(r) /\ \E S \in SUBSET MessagesOf(r) : Takes(r, S)
  <2>1. {i} \in SUBSET MessagesOf(msgs[i].run) /\ msgs[i].run \in DOMAIN runs /\ Live(msgs[i].run)
    BY <1>2 DEF Deliver, MessagesOf, Live, Terminal, IInv, Refs
  <2>2. Takes(msgs[i].run, {i})
    BY <1>2, <2>1 DEF Deliver, Takes
  <2> QED BY <2>1, <2>2
<1>3. CASE \E s \in DOMAIN sessions : SessionLost(s)
  BY <1>3 DEF SessionLost
<1>4. CASE Serve \/ \E e \in late : ServeLate(e)
  <2>1. UNCHANGED <<delivered, rejected>>
    BY <1>4 DEF Serve, ServeLate
  <2>2. UNCHANGED msgs \/ \E e \in InHand : Adds(e)
    BY OrpheusStep DEF SessionLost
  <2> QED BY <2>1, <2>2
<1>5. CASE Revoke \/ \E status \in Denials : Denied(status)
  <2>1. Cancel(Run) /\ UNCHANGED <<msgs, delivered>>
    BY <1>5 DEF Revoke, Denied
  <2>2. CASE UNCHANGED <<runs, rejected>>
    BY <2>1, <2>2
  <2>3. CASE Run # 0 /\ runs[Run].st \in {"queued", "running"} /\ End(Run, "cancelled")
    <3>1. Run \in DOMAIN runs /\ Live(Run) /\ "cancelled" \in Terminal
      BY <2>3, RunBounded DEF Live, Terminal
    <3> QED BY <2>1, <2>3, <3>1, EndEnds
  <2> QED BY <2>1, <2>2, <2>3 DEF Cancel
<1>6. CASE Users \/ UNCHANGED vars
  BY <1>6 DEF Users, Tick, Edit, Delete, vars, orpheus
<1>7. CASE Connector /\ ~Revoke
  BY <1>7
  DEF Connector, StartPass, ReadRuns, ReadHistory, Blocked, ReadThread, Publish, Refresh, Drain,
      Hold, Resend, Wait, RejectOversized, Freeze, Import, Confirm, Receive, RejectRefused, orpheus
<1>8. CASE Disturbance /\ ~(\E status \in Denials : Denied(status))
  BY <1>8 DEF Disturbance, Fail, Reload, Crash, Restart, orpheus
<1> QED BY <1>1, <1>2, <1>3, <1>4, <1>5, <1>6, <1>7, <1>8 DEF Next, Orpheus, Lifecycle

LEMMA RejectedGrows ==
    ASSUME IInv, [Next]_vars
    PROVE  rejected \subseteq rejected'
BY FateStep DEF Ends, Takes

LEMMA ReturnedKept ==
    ASSUME IInv, [Next]_vars, Returned
    PROVE  Returned'
<1>1. Forward
  BY OrpheusStep
<1>2. ASSUME NEW i \in rejected
      PROVE  i \in DOMAIN msgs /\ msgs'[i] = msgs[i] /\ ~Live(msgs[i].run)'
  <2>1. i \in DOMAIN msgs /\ msgs[i].run \in DOMAIN runs /\ ~Live(msgs[i].run)
    BY DEF IInv, TypeOK, OrpheusOK, Refs, Returned
  <2>2. msgs'[i] = msgs[i] /\ runs'[msgs[i].run].st = runs[msgs[i].run].st
    BY <1>1, <2>1 DEF Forward
  <2> QED BY <2>1, <2>2 DEF Live
<1>3. CASE rejected' = rejected /\ delivered' = delivered
  BY <1>2, <1>3 DEF Returned
<1>4. ASSUME NEW r \in DOMAIN runs, Live(r), Ends(r)
      PROVE  Returned'
  <2>1. \A i \in MessagesOf(r) : ~Live(msgs[i].run)'
    BY <1>4 DEF MessagesOf, Ends, Live
  <2> QED BY <1>2, <1>4, <2>1 DEF Ends, Returned
<1>5. ASSUME NEW r \in DOMAIN runs, Live(r), NEW S \in SUBSET MessagesOf(r), Takes(r, S)
      PROVE  Returned'
  <2>1. S \cap rejected = {}
    BY <1>5 DEF MessagesOf, Returned
  <2> QED BY <1>2, <1>5, <2>1 DEF Takes, Returned
<1> QED BY <1>3, <1>4, <1>5, FateStep

LEMMA LinkStays ==
    ASSUME IInv, [Next]_vars, NEW e, LinkOK(e)
    PROVE  LinkOK(e)'
<1> SUFFICES ASSUME e.link # 0 PROVE LinkOK(e)'
  BY DEF LinkOK
<1>1. e.link \in rejected /\ e.link \in DOMAIN msgs /\ Trig(e) = Trig(msgs[e.link].env)
  BY DEF LinkOK, IInv, TypeOK, OrpheusOK
<1>2. e.link \in rejected' /\ msgs'[e.link] = msgs[e.link]
  BY <1>1, RejectedGrows, OrpheusStep DEF Forward
<1> QED BY <1>1, <1>2 DEF LinkOK, Trig

LEMMA LinksKept ==
    ASSUME IInv, OnceInv, PromiseInv, [Next]_vars
    PROVE  Links'
<1>1. \A e \in InHand \cup Sent : LinkOK(e)'
  BY LinkStays DEF PromiseInv, Links
<1>2. Sent' \subseteq InHand \cup Sent
  <2>1. Forward /\ (UNCHANGED msgs \/ \E e \in InHand : Adds(e))
    BY OrpheusStep DEF SessionLost
  <2>2. ASSUME NEW i \in DOMAIN msgs'
        PROVE  msgs'[i].env \in InHand \cup Sent
    <3>1. CASE i \in DOMAIN msgs
      BY <2>1, <3>1 DEF Forward, Sent
    <3>2. CASE i \notin DOMAIN msgs
      BY <2>1, <2>2, <3>2 DEF Adds, Added
    <3> QED BY <3>1, <3>2
  <2> QED BY <2>2 DEF Sent
<1>3. CASE ~Freeze
  <2>1. InHand' \cup Sent' \subseteq InHand \cup Sent
    BY <1>2, <1>3, HandStep
  <2> QED BY <1>1, <2>1 DEF Links
<1>4. CASE Freeze
  <2>1. PICK e \in Offer : frozen' = {e}
    BY <1>4, FreezeIs
  <2>2. late' = late /\ UNCHANGED orpheus
    BY <1>4, FreezeIs
  <2>3. LinkOK(e)
    <3>1. CASE Transferable # {} /\ e = Transfer
      <4>1. e.link = FirstTransferable /\ e.vers = msgs[FirstTransferable].env.vers
        BY <3>1, TransferIs
      <4>2. FirstTransferable \in rejected
        BY <3>1, TransferableOne DEF Transferable, PromiseInv
      <4> QED BY <4>1, <4>2 DEF LinkOK, Trig
    <3>2. CASE Due /\ e = Fresh
      BY <3>2, FreshIs DEF Due, LinkOK
    <3> QED BY <3>1, <3>2 DEF Offer
  <2>4. LinkOK(e)'
    BY <2>3, LinkStays
  <2>5. InHand' \cup Sent' \subseteq InHand \cup Sent \cup {e}
    BY <1>2, <2>1, <2>2 DEF InHand
  <2> QED BY <1>1, <2>4, <2>5 DEF Links
<1> QED BY <1>3, <1>4

(* What is carried over shares no post with a later message.                *)
LEMMA NotYetCarried ==
    ASSUME IInv, PromiseInv, NEW e \in InHand, Unique(e), NEW i \in DOMAIN msgs,
           Trig(msgs[i].env) \cap Trig(e) # {}
    PROVE  e.link # 0 /\ (i = e.link \/ \E l \in DOMAIN msgs : msgs[l].env.link = i)
           /\ ~(e.link < i)
<1>1. e.link # 0
  BY DEF Unique
<1>2. e.link \in DOMAIN msgs /\ Trig(e) = Trig(msgs[e.link].env)
  BY <1>1 DEF PromiseInv, Links, LinkOK, IInv, TypeOK, OrpheusOK
<1>3. \A l \in DOMAIN msgs : msgs[l].env.link # e.link
  BY <1>1 DEF Unique
<1>4. DOMAIN msgs \subseteq Nat
  <2>1. DOMAIN msgs = 1..Len(msgs) /\ Len(msgs) \in Nat
    BY Elements DEF IInv, TypeOK
  <2> QED BY <2>1
<1>5. ~(e.link < i)
  BY <1>2, <1>3 DEF PromiseInv, Chained
<1>6. i = e.link \/ i < e.link
  BY <1>2, <1>4, <1>5
<1> QED BY <1>1, <1>2, <1>5, <1>6 DEF PromiseInv, Chained

LEMMA ChainedKept ==
    ASSUME IInv, OnceInv, PromiseInv, [Next]_vars
    PROVE  Chained'
<1>1. Forward /\ (UNCHANGED msgs \/ \E e \in InHand : Adds(e))
  BY OrpheusStep DEF SessionLost
<1>2. CASE UNCHANGED msgs
  BY <1>2 DEF PromiseInv, Chained, Trig
<1>3. ASSUME NEW e \in InHand, Adds(e)
      PROVE  Chained'
  <2>1. /\ DOMAIN msgs' = DOMAIN msgs \cup {New} /\ msgs'[New].env = e
        /\ \A i \in DOMAIN msgs : msgs'[i] = msgs[i]
    BY <1>1, <1>3 DEF Adds, Added, Forward
  <2>2. Unique(e)
    BY <1>3 DEF OnceInv, Hands, Adds, Added
  <2>3. DOMAIN msgs = 1..Len(msgs) /\ Len(msgs) \in Nat /\ New = Len(msgs) + 1
    BY Elements DEF IInv, TypeOK, New
  <2> SUFFICES ASSUME NEW i \in DOMAIN msgs', NEW j \in DOMAIN msgs', i < j,
                      Trig(msgs'[i].env) \cap Trig(msgs'[j].env) # {}
               PROVE  \E l \in DOMAIN msgs' : msgs'[l].env.link = i
    BY DEF Chained, Trig
  <2>4. CASE j \in DOMAIN msgs
    <3>1. i \in DOMAIN msgs
      BY <2>1, <2>3, <2>4
    <3>2. PICK l \in DOMAIN msgs : msgs[l].env.link = i
      BY <2>1, <2>4, <3>1 DEF PromiseInv, Chained
    <3> QED BY <2>1, <3>2
  <2>5. CASE j = New
    <3>1. i \in DOMAIN msgs
      BY <2>1, <2>3, <2>5
    <3>2. i = e.link \/ \E l \in DOMAIN msgs : msgs[l].env.link = i
      BY <2>1, <2>2, <2>5, <3>1, NotYetCarried
    <3> QED BY <2>1, <3>2
  <2> QED BY <2>1, <2>4, <2>5
<1> QED BY <1>1, <1>2, <1>3

LEMMA SnapRejectedKept ==
    ASSUME IInv, PromiseInv, [Next]_vars
    PROVE  snap'.rejected \subseteq rejected'
<1>1. CASE snap' = snap
  BY <1>1, RejectedGrows DEF PromiseInv
<1>2. CASE snap'.rejected = {}
  BY <1>2
<1>3. CASE ReadHistory
  <2>1. snap'.rejected = snap.rejected \cup (MsgsOf(at) \cap rejected)
    BY <1>3, SnapParts DEF ReadHistory
  <2> QED BY <2>1, RejectedGrows DEF PromiseInv
<1>4. CASE ReadRuns
  <2>1. snap'.rejected = snap.rejected
    BY <1>4, SnapParts DEF ReadRuns
  <2> QED BY <2>1, RejectedGrows DEF PromiseInv
<1>5. CASE StartPass
  BY <1>2, <1>5 DEF StartPass, SnapOf
<1>6. CASE Users \/ Orpheus \/ UNCHANGED vars
  BY <1>1, <1>6 DEF Users, Tick, Edit, Delete, Orpheus, Serve, Lifecycle, RunStart, RunFinalize, RunEnd,
     Deliver, SessionLost, ServeLate, vars, pass
<1>7. CASE Connector /\ ~StartPass /\ ~ReadRuns /\ ~ReadHistory
  <2>1. snap' = snap \/ snap' = NoSnap
    BY <1>7
    DEF Connector, Revoke, Blocked, ReadThread, Publish, Refresh, Drain, Hold, Resend, Wait,
        RejectOversized, Freeze, Import, Confirm, Receive, RejectRefused, pass, EndPass
  <2> QED BY <1>1, <1>2, <2>1 DEF NoSnap, SnapOf
<1>8. CASE Disturbance
  <2>1. snap' = snap \/ snap' = NoSnap
    BY <1>8 DEF Disturbance, Fail, Denied, Reload, Crash, Restart, pass, EndPass
  <2> QED BY <1>1, <1>2, <2>1 DEF NoSnap, SnapOf
<1> QED BY <1>3, <1>4, <1>5, <1>6, <1>7, <1>8 DEF Next

LEMMA PromiseConsecution == IInv /\ OnceInv /\ PromiseInv /\ [Next]_vars => PromiseInv'
BY LinksKept, ReturnedKept, ChainedKept, SnapRejectedKept DEF PromiseInv

LEMMA PromiseInitiation == Init => PromiseInv
<1> SUFFICES ASSUME Init PROVE PromiseInv
  OBVIOUS
<1>1. DOMAIN msgs = {} /\ InHand = {} /\ Sent = {} /\ rejected = {} /\ snap.rejected = {}
  BY DEF Init, InHand, Sent, NoSnap, SnapOf
<1> QED BY <1>1 DEF PromiseInv, Links, Returned, Chained

(* The inputs of Intake, and what the steps do to them.                     *)
InputSet == [posts : SUBSET Posts, fate : {"queued", "handed", "returned"}]

LEMMA TrigPosts ==
    ASSUME NEW e \in Envelopes
    PROVE  Trig(e) \in SUBSET Posts
BY DEF Envelopes, Trig, PostsOf

LEMMA RecordOf ==
    ASSUME NEW x, NEW P, NEW F, NEW f, x = [posts |-> P, fate |-> F]
    PROVE  x.posts = P /\ x.fate = F /\ [x EXCEPT !.fate = f] = [posts |-> P, fate |-> f]
OBVIOUS

LEMMA InputsSeq ==
    ASSUME OrpheusOK
    PROVE  /\ Inputs \in Seq(InputSet) /\ Len(Inputs) = Len(msgs) /\ DOMAIN Inputs = DOMAIN msgs
           /\ \A i \in DOMAIN msgs : /\ Inputs[i] = [posts |-> Trig(msgs[i].env), fate |-> Fate(i)]
                                     /\ Inputs[i].posts = Trig(msgs[i].env) /\ Inputs[i].fate = Fate(i)
                                     /\ Inputs[i] \in InputSet
<1>1. DOMAIN msgs = 1..Len(msgs) /\ Len(msgs) \in Nat
  BY Elements
<1>2. \A i \in DOMAIN msgs : [posts |-> Trig(msgs[i].env), fate |-> Fate(i)] \in InputSet
  <2> TAKE i \in DOMAIN msgs
  <2>1. Trig(msgs[i].env) \in SUBSET Posts
    BY Elements, TrigPosts
  <2>2. Fate(i) \in {"queued", "handed", "returned"}
    BY DEF Fate
  <2> QED BY <2>1, <2>2 DEF InputSet
<1>3. \A i \in DOMAIN msgs : Inputs[i] = [posts |-> Trig(msgs[i].env), fate |-> Fate(i)]
  BY DEF Inputs
<1>4. Inputs \in [1..Len(msgs) -> InputSet]
  BY <1>1, <1>2 DEF Inputs
<1>5. Inputs \in Seq(InputSet) /\ Len(Inputs) = Len(msgs)
  BY <1>1, <1>4
<1>6. \A i \in DOMAIN msgs : Inputs[i].posts = Trig(msgs[i].env) /\ Inputs[i].fate = Fate(i)
  <2> TAKE i \in DOMAIN msgs
  <2>1. Inputs[i] = [posts |-> Trig(msgs[i].env), fate |-> Fate(i)]
    BY <1>3
  <2> QED BY <2>1, RecordOf
<1> QED BY <1>1, <1>2, <1>3, <1>4, <1>5, <1>6

LEMMA InputsEnqueued ==
    ASSUME IInv, IInv', NEW e \in InHand, Adds(e), Forward, UNCHANGED <<delivered, rejected>>
    PROVE  Inputs' = Append(Inputs, [posts |-> Trig(e), fate |-> "queued"])
<1> DEFINE x == [posts |-> Trig(e), fate |-> "queued"]
<1>1. OrpheusOK /\ OrpheusOK' /\ Len(msgs) \in Nat /\ DOMAIN msgs = 1..Len(msgs)
  BY Elements DEF IInv, TypeOK
<1>2. /\ DOMAIN msgs' = DOMAIN msgs \cup {New} /\ msgs'[New].env = e /\ New = Len(msgs) + 1
      /\ \A i \in DOMAIN msgs : msgs'[i] = msgs[i]
  BY DEF Adds, Added, Forward, New
<1>3. x \in InputSet
  BY InHandRefs, TrigPosts DEF InputSet
<1>4. /\ Inputs \in Seq(InputSet) /\ Len(Inputs) = Len(msgs) /\ DOMAIN Inputs = DOMAIN msgs
      /\ \A i \in DOMAIN msgs : Inputs[i] = [posts |-> Trig(msgs[i].env), fate |-> Fate(i)]
  BY <1>1, InputsSeq
<1>5. /\ DOMAIN Inputs' = DOMAIN msgs'
      /\ \A i \in DOMAIN msgs' :
            Inputs'[i] = [posts |-> Trig(msgs'[i].env),
                          fate |-> IF i \in delivered' THEN "handed"
                                   ELSE IF i \in rejected' THEN "returned" ELSE "queued"]
  BY DEF Inputs, Fate, Trig
<1>6. \A i \in DOMAIN msgs : Inputs'[i] = Inputs[i]
  BY <1>2, <1>4, <1>5 DEF Fate
<1>7. Inputs'[New] = x
  <2>1. New \notin delivered /\ New \notin rejected
    BY <1>1, <1>2 DEF OrpheusOK
  <2> QED BY <1>2, <1>5, <2>1
<1>11. Inputs' \in [1..New -> InputSet]
  <2>1. DOMAIN msgs' = 1..New
    BY <1>1, <1>2
  <2>2. \A i \in DOMAIN msgs' : Inputs'[i] \in InputSet
    BY <1>2, <1>3, <1>4, <1>6, <1>7, SeqElements
  <2>3. Inputs' = [i \in DOMAIN msgs' |-> Inputs'[i]]
    BY DEF Inputs
  <2> QED BY <2>1, <2>2, <2>3
<1>12. Inputs' \in Seq(InputSet) /\ Len(Inputs') = New
  BY <1>1, <1>2, <1>11
<1> HIDE DEF x
<1>8. /\ Append(Inputs, x) \in Seq(InputSet) /\ DOMAIN Append(Inputs, x) = DOMAIN Inputs \cup {New}
      /\ \A i \in DOMAIN Inputs : Append(Inputs, x)[i] = Inputs[i]
      /\ Append(Inputs, x)[New] = x
  BY <1>2, <1>3, <1>4, AppendElements
<1>9. \A i \in DOMAIN msgs' : Inputs'[i] = Append(Inputs, x)[i]
  BY <1>2, <1>4, <1>6, <1>7, <1>8
<1>10. Inputs' = Append(Inputs, x)
  <2>1. Len(Append(Inputs, x)) = New /\ 1..New = DOMAIN msgs'
    BY <1>1, <1>2, <1>3, <1>4, AppendElements DEF x
  <2> QED BY <1>8, <1>9, <1>12, <2>1, SeqEqual
<1> QED BY <1>10 DEF x

LEMMA InputsSettled ==
    ASSUME IInv, IInv', UNCHANGED msgs, NEW S, S \subseteq DOMAIN msgs, NEW fate,
           \A i \in DOMAIN msgs : Fate(i)' = IF i \in S THEN fate ELSE Fate(i)
    PROVE  Promise!Settle(S, fate)
<1>1. OrpheusOK /\ DOMAIN Inputs = DOMAIN msgs
  BY InputsSeq DEF IInv, TypeOK
<1>2. \A i \in DOMAIN msgs : Inputs[i] = [posts |-> Trig(msgs[i].env), fate |-> Fate(i)]
  BY <1>1, InputsSeq
<1>3. Inputs' = [i \in DOMAIN msgs |-> [posts |-> Trig(msgs[i].env), fate |-> Fate(i)']]
  BY DEF Inputs, Trig, Fate
<1>4. \A i \in DOMAIN msgs :
         [posts |-> Trig(msgs[i].env), fate |-> Fate(i)']
            = IF i \in S THEN [Inputs[i] EXCEPT !.fate = fate] ELSE Inputs[i]
  <2> TAKE i \in DOMAIN msgs
  <2>1. CASE i \in S
    <3>1. Inputs[i] = [posts |-> Trig(msgs[i].env), fate |-> Fate(i)]
      BY <1>2
    <3>2. [Inputs[i] EXCEPT !.fate = fate] = [posts |-> Trig(msgs[i].env), fate |-> fate]
      BY <3>1, RecordOf
    <3> QED BY <1>2, <2>1, <3>2, Zenon
  <2>2. CASE i \notin S
    BY <1>2, <2>2
  <2> QED BY <2>1, <2>2
<1>5. Inputs' = [i \in DOMAIN msgs |-> IF i \in S THEN [Inputs[i] EXCEPT !.fate = fate] ELSE Inputs[i]]
  BY <1>3, <1>4
<1> QED BY <1>1, <1>5 DEF Promise!Settle

LEMMA PromiseStep ==
    ASSUME IInv, IInv', OnceInv, PromiseInv, [Next]_vars
    PROVE  [Promise!Next]_Inputs
<1>1. Forward /\ OrpheusOK
  BY OrpheusStep DEF IInv, TypeOK
<1>2. /\ DOMAIN Inputs = DOMAIN msgs
      /\ \A i \in DOMAIN msgs : Inputs[i].posts = Trig(msgs[i].env) /\ Inputs[i].fate = Fate(i)
  BY <1>1, InputsSeq
<1>3. CASE UNCHANGED <<msgs, delivered, rejected>>
  BY <1>3 DEF Inputs, Trig, Fate
<1>4. ASSUME NEW e \in InHand, Adds(e), UNCHANGED <<delivered, rejected>>
      PROVE  Promise!Next
  <2>1. Inputs' = Append(Inputs, [posts |-> Trig(e), fate |-> "queued"])
    BY <1>1, <1>4, InputsEnqueued
  <2>2. Unique(e) /\ Anchored(e) /\ LinkOK(e) /\ Trig(e) \in SUBSET Posts
    BY <1>4, InHandRefs, TrigPosts
    DEF OnceInv, Hands, Accepts, PromiseInv, Links, Adds, Added
  <2>3. CASE e.link = 0
    <3>1. Trig(e) # {} /\ \A i \in DOMAIN Inputs : Inputs[i].posts \cap Trig(e) = {}
      BY <1>2, <2>2, <2>3 DEF Unique, Anchored
    <3>2. Promise!Accept(Trig(e))
      BY <2>1, <3>1 DEF Promise!Accept, Promise!Enqueue
    <3> QED BY <2>2, <3>2 DEF Promise!Next
  <2>4. CASE e.link # 0
    <3>1. /\ e.link \in DOMAIN Inputs /\ Inputs[e.link].posts = Trig(e)
          /\ e.link \in rejected /\ e.link \notin delivered
      BY <1>1, <1>2, <2>2, <2>4 DEF LinkOK, OrpheusOK, PromiseInv, Returned
    <3>2. Inputs[e.link].fate = "returned"
      BY <1>1, <1>2, <3>1 DEF Fate
    <3>3. \A j \in DOMAIN Inputs : e.link < j => ~Promise!Share(e.link, j)
      BY <1>2, <2>2, <3>1, NotYetCarried DEF Promise!Share
    <3>4. Promise!Retake(e.link)
      BY <2>1, <3>1, <3>2, <3>3 DEF Promise!Retake, Promise!Enqueue
    <3> QED BY <3>1, <3>4 DEF Promise!Next
  <2> QED BY <2>3, <2>4
<1>5. ASSUME NEW r \in DOMAIN runs, Live(r), Ends(r)
      PROVE  [Promise!Next]_Inputs
  <2> DEFINE S == {i \in MessagesOf(r) : i \notin delivered /\ i \notin rejected}
  <2>1. S \subseteq DOMAIN msgs /\ msgs' = msgs
    BY <1>5 DEF MessagesOf, Ends
  <2>2. \A i \in DOMAIN msgs : Fate(i)' = IF i \in S THEN "returned" ELSE Fate(i)
    BY <1>5 DEF Ends, Fate, MessagesOf
  <2>3. S \subseteq Promise!Queued
    BY <1>2, <2>1 DEF Promise!Queued, Fate
  <2> HIDE DEF S
  <2>4. Promise!Settle(S, "returned")
    BY <2>1, <2>2, InputsSettled
  <2>5. CASE S # {}
    BY <2>3, <2>4, <2>5 DEF Promise!Next, Promise!Return
  <2>6. CASE S = {}
    <3>1. \A i \in DOMAIN msgs : Fate(i)' = Fate(i)
      BY <2>2, <2>6
    <3> QED BY <2>1, <3>1 DEF Inputs, Trig
  <2> QED BY <2>5, <2>6
<1>6. ASSUME NEW r \in DOMAIN runs, Live(r), NEW T \in SUBSET MessagesOf(r), Takes(r, T)
      PROVE  [Promise!Next]_Inputs
  <2> DEFINE S == {i \in T : i \notin delivered}
  <2>1. S \subseteq DOMAIN msgs /\ msgs' = msgs
    BY <1>6 DEF MessagesOf, Takes
  <2>2. \A i \in DOMAIN msgs : Fate(i)' = IF i \in S THEN "handed" ELSE Fate(i)
    BY <1>6 DEF Takes, Fate
  <2>3. S \subseteq Promise!Queued
    <3>1. \A i \in S : i \notin rejected
      BY <1>6 DEF MessagesOf, PromiseInv, Returned
    <3> QED BY <1>2, <2>1, <3>1 DEF Promise!Queued, Fate
  <2> HIDE DEF S
  <2>4. Promise!Settle(S, "handed")
    BY <2>1, <2>2, InputsSettled
  <2>5. CASE S # {}
    BY <2>3, <2>4, <2>5 DEF Promise!Next, Promise!Hand
  <2>6. CASE S = {}
    <3>1. \A i \in DOMAIN msgs : Fate(i)' = Fate(i)
      BY <2>2, <2>6
    <3> QED BY <2>1, <3>1 DEF Inputs, Trig
  <2> QED BY <2>5, <2>6
<1> QED BY <1>3, <1>4, <1>5, <1>6, FateStep

(* Admission keeps the promise of Intake: whatever is repeated, lost, late or
   forgotten by a crash, posts become an input once, and an input is taken
   again only after it came back.                                           *)
THEOREM PromiseKept ==
    ASSUME Timely
    PROVE  Spec => KeepsPromise
<1>1. Init => Promise!Init
  <2> SUFFICES ASSUME Init PROVE Inputs = <<>>
    BY DEF Promise!Init
  <2>1. msgs = <<>>
    BY DEF Init
  <2> QED BY <2>1 DEF Inputs
<1>2. IInv /\ IInv' /\ OnceInv /\ PromiseInv /\ [Next]_vars => [Promise!Next]_Inputs
  BY PromiseStep
<1> QED
  BY Initiation, Consecution, OnceHolds, PromiseInitiation, PromiseConsecution, <1>1, <1>2, PTL
  DEF Spec, KeepsPromise, Promise!Spec

LEMMA PromiseHolds ==
    ASSUME Timely
    PROVE  Spec => []PromiseInv
<1>1. IInv /\ OnceInv /\ PromiseInv /\ [Next]_vars => PromiseInv'
  BY PromiseConsecution
<1> QED BY Initiation, Consecution, OnceHolds, PromiseInitiation, <1>1, PTL DEF Spec

-----------------------------------------------------------------------------
(* What Intake promises, of any inputs that behave as it says: no post is
   handed to an agent twice.  The invariant that carries it is Superseded: an
   input shares posts with a later one only if it came back, and what came
   back keeps its fate.                                                     *)

IntakeInv == Promise!TypeOK /\ Promise!Superseded

(* A batch that joins the inputs leaves the others as they are.             *)
LEMMA PromiseEnqueued ==
    ASSUME Promise!TypeOK, NEW batch \in SUBSET Posts, Promise!Enqueue(batch)
    PROVE  /\ Promise!TypeOK'
           /\ DOMAIN Inputs = 1 .. Len(Inputs) /\ Len(Inputs) \in Nat
           /\ DOMAIN Inputs' = 1 .. Len(Inputs) + 1
           /\ \A i \in DOMAIN Inputs : Inputs'[i] = Inputs[i]
           /\ Inputs'[Len(Inputs) + 1] = [posts |-> batch, fate |-> "queued"]
  <1>1. [posts |-> batch, fate |-> "queued"] \in Promise!Input
    BY DEF Promise!Input, Promise!Fates
  <1>2. QED
    BY <1>1 DEF Promise!TypeOK, Promise!Enqueue

(* Changing fates leaves the batches as they are.                           *)
LEMMA PromiseSettled ==
    ASSUME Promise!TypeOK, NEW S \in SUBSET Promise!Queued, NEW fate \in Promise!Fates, Promise!Settle(S, fate)
    PROVE  /\ Promise!TypeOK'
           /\ DOMAIN Inputs' = DOMAIN Inputs
           /\ \A i \in DOMAIN Inputs : Inputs'[i].posts = Inputs[i].posts
           /\ \A i \in DOMAIN Inputs : Inputs[i].fate = "returned" => Inputs'[i].fate = "returned"
  <1>1. \A i \in DOMAIN Inputs : Inputs[i] \in Promise!Input
    BY DEF Promise!TypeOK
  <1>2. Inputs' \in [1 .. Len(Inputs) -> Promise!Input]
    <2>1. \A x \in Promise!Input : [x EXCEPT !.fate = fate] \in Promise!Input
      BY DEF Promise!Input
    <2>2. DOMAIN Inputs = 1 .. Len(Inputs)
      BY DEF Promise!TypeOK
    <2> QED BY <1>1, <2>1, <2>2 DEF Promise!Settle
  <1>3. Promise!TypeOK'
    BY <1>2 DEF Promise!TypeOK
  <1>4. \A i \in DOMAIN Inputs : Inputs'[i].posts = Inputs[i].posts
    BY <1>1 DEF Promise!Settle, Promise!Input
  <1>5. \A i \in DOMAIN Inputs : Inputs[i].fate = "returned" => Inputs'[i].fate = "returned"
    BY <1>1 DEF Promise!Settle, Promise!Input, Promise!Queued
  <1>6. QED
    BY <1>3, <1>4, <1>5 DEF Promise!Settle

(* Accepting, taking again and settling preserve the invariant.             *)
LEMMA PromiseInvNext == IntakeInv /\ [Promise!Next]_Inputs => IntakeInv'
<1> SUFFICES ASSUME IntakeInv, [Promise!Next]_Inputs
             PROVE  IntakeInv'
  OBVIOUS
<1> USE DEF IntakeInv
<1>1. ASSUME NEW batch \in SUBSET Posts, Promise!Accept(batch)
      PROVE  IntakeInv'
  <2>0. /\ Promise!TypeOK'
        /\ DOMAIN Inputs = 1 .. Len(Inputs) /\ Len(Inputs) \in Nat
        /\ DOMAIN Inputs' = 1 .. Len(Inputs) + 1
        /\ \A i \in DOMAIN Inputs : Inputs'[i] = Inputs[i]
        /\ Inputs'[Len(Inputs) + 1] = [posts |-> batch, fate |-> "queued"]
    BY <1>1, PromiseEnqueued DEF Promise!Accept
  <2>1. \A i, j \in DOMAIN Inputs' : i < j /\ Promise!Share(i, j)' => Inputs'[i].fate = "returned"
    <3> SUFFICES ASSUME NEW i \in DOMAIN Inputs', NEW j \in DOMAIN Inputs', i < j, Promise!Share(i, j)'
                 PROVE  Inputs'[i].fate = "returned"
      OBVIOUS
    <3>1. i \in DOMAIN Inputs /\ Inputs'[i] = Inputs[i]
      BY <2>0
    <3>2. CASE j \in DOMAIN Inputs
      BY <2>0, <3>1, <3>2 DEF Promise!Superseded, Promise!Share
    <3>3. CASE j = Len(Inputs) + 1
      BY <1>1, <2>0, <3>1, <3>3 DEF Promise!Accept, Promise!Share
    <3>4. QED
      BY <2>0, <3>2, <3>3
  <2>2. QED
    BY <2>0, <2>1 DEF Promise!Superseded
<1>2. ASSUME NEW k \in DOMAIN Inputs, Promise!Retake(k)
      PROVE  IntakeInv'
  <2>a. Inputs[k] \in Promise!Input
    BY DEF Promise!TypeOK
  <2>1. Inputs[k].posts \in SUBSET Posts
    BY <2>a DEF Promise!Input
  <2>0. /\ Promise!TypeOK'
        /\ DOMAIN Inputs = 1 .. Len(Inputs) /\ Len(Inputs) \in Nat
        /\ DOMAIN Inputs' = 1 .. Len(Inputs) + 1
        /\ \A i \in DOMAIN Inputs : Inputs'[i] = Inputs[i]
        /\ Inputs'[Len(Inputs) + 1] = [posts |-> Inputs[k].posts, fate |-> "queued"]
    BY <1>2, <2>1, PromiseEnqueued DEF Promise!Retake
  <2>2. \A i, j \in DOMAIN Inputs' : i < j /\ Promise!Share(i, j)' => Inputs'[i].fate = "returned"
    <3> SUFFICES ASSUME NEW i \in DOMAIN Inputs', NEW j \in DOMAIN Inputs', i < j, Promise!Share(i, j)'
                 PROVE  Inputs'[i].fate = "returned"
      OBVIOUS
    <3>1. i \in DOMAIN Inputs /\ Inputs'[i] = Inputs[i]
      BY <2>0
    <3>2. CASE j \in DOMAIN Inputs
      BY <2>0, <3>1, <3>2 DEF Promise!Superseded, Promise!Share
    <3>3. CASE j = Len(Inputs) + 1
      <4>1. Promise!Share(i, k)
        BY <2>0, <3>1, <3>3 DEF Promise!Share
      <4>2. ~(k < i)
        BY <1>2, <3>1, <4>1 DEF Promise!Retake, Promise!Share
      <4>3. i < k \/ i = k
        BY <2>0, <3>1, <4>2
      <4>4. QED
        BY <1>2, <3>1, <4>1, <4>3 DEF Promise!Retake, Promise!Superseded
    <3>4. QED
      BY <2>0, <3>2, <3>3
  <2>3. QED
    BY <2>0, <2>2 DEF Promise!Superseded
<1>3. ASSUME NEW S \in SUBSET Promise!Queued, NEW fate \in Promise!Fates, Promise!Settle(S, fate)
      PROVE  IntakeInv'
  BY <1>3, PromiseSettled DEF Promise!Superseded, Promise!Share
<1>4. CASE UNCHANGED Inputs
  BY <1>4 DEF Promise!TypeOK, Promise!Superseded, Promise!Share
<1>5. QED
  BY <1>1, <1>2, <1>3, <1>4 DEF Promise!Next, Promise!Hand, Promise!Return, Promise!Fates

(* The invariant holds throughout.                                          *)
THEOREM PromiseInvariance == Promise!Spec => []IntakeInv
<1>1. Promise!Init => IntakeInv
  BY DEF Promise!Init, IntakeInv, Promise!TypeOK, Promise!Superseded
<1>2. QED
  BY <1>1, PromiseInvNext, PTL DEF Promise!Spec

(* No post is handed to an agent twice: of two inputs that share a post, the
   earlier one came back.                                                   *)
THEOREM HandsOnce == Promise!Spec => []Promise!HandedOnce
<1>1. IntakeInv => Promise!HandedOnce
  <2> SUFFICES ASSUME IntakeInv, NEW i \in DOMAIN Inputs, NEW j \in DOMAIN Inputs, i # j,
                      Inputs[i].fate = "handed", Inputs[j].fate = "handed"
               PROVE  ~Promise!Share(i, j)
    BY DEF Promise!HandedOnce
  <2>1. DOMAIN Inputs \subseteq Nat
    BY DEF IntakeInv, Promise!TypeOK
  <2>2. CASE i < j
    BY <2>2 DEF IntakeInv, Promise!Superseded
  <2>3. CASE j < i
    BY <2>3 DEF IntakeInv, Promise!Superseded, Promise!Share
  <2>4. QED
    BY <2>1, <2>2, <2>3
<1>2. QED
  BY <1>1, PromiseInvariance, PTL

(* No post of the thread is handed to an agent twice.                       *)
THEOREM PostsHandedOnce ==
    ASSUME Timely
    PROVE  Spec => []Promise!HandedOnce
BY PromiseKept, HandsOnce, PTL DEF KeepsPromise

-----------------------------------------------------------------------------
(* The quota of attachments: an input in hand still has room in its run.    *)

FileMessages(r) ==
    {i \in DOMAIN msgs : /\ msgs[i].run = r /\ IsClarification(msgs[i].env)
                         /\ HasFiles(msgs[i].env)}
QuotaInv ==
    /\ \A r \in Nat : Cardinality(FileMessages(r)) <= MaxAttach
    /\ \A e \in InHand : Settled(e) \/
          (IsClarification(e) /\ HasFiles(e) => Cardinality(FileMessages(e.run)) < MaxAttach)

LEMMA FileMessagesFinite ==
    ASSUME IInv
    PROVE  \A r : IsFiniteSet(FileMessages(r)) /\ Cardinality(FileMessages(r)) \in Nat
<1> TAKE r
<1>1. FileMessages(r) \subseteq 1..Len(msgs) /\ Len(msgs) \in Nat
  BY Elements DEF FileMessages, IInv, TypeOK
<1>2. IsFiniteSet(1..Len(msgs))
  BY <1>1, FS_Interval
<1> QED BY <1>1, <1>2, FS_Subset, FS_CardinalityType

LEMMA QuotaConsecution == IInv /\ OnceInv /\ QuotaInv /\ [Next]_vars => QuotaInv'
<1> SUFFICES ASSUME IInv, OnceInv, QuotaInv, [Next]_vars PROVE QuotaInv'
  OBVIOUS
<1>1. Forward /\ (UNCHANGED msgs \/ \E e \in InHand : Adds(e))
  BY OrpheusStep DEF SessionLost
<1>2. \A f \in InHand : Settled(f) => Settled(f)'
  BY StillUnique
<1>3. CASE UNCHANGED msgs
  <2>1. \A r : FileMessages(r)' = FileMessages(r)
    BY <1>3 DEF FileMessages, IsClarification, HasFiles, Trig
  <2>2. CASE ~Freeze
    <3>1. InHand' \subseteq InHand
      BY <2>2, HandStep
    <3> QED BY <1>2, <2>1, <3>1 DEF QuotaInv, IsClarification, HasFiles, Trig
  <2>3. CASE Freeze
    <3>1. PICK e \in Offer : frozen' = {e} /\ ~Deferred(e)
      BY <2>3, FreezeIs
    <3>2. snap.hist = DOMAIN msgs /\ late' = late /\ ~Closed
      BY <2>3, FreezeIs
    <3>3. e.run = Run
      BY <3>1, <3>2, OfferOK
    <3>4. FileClarifications(Run) = FileMessages(Run)
      BY <3>2 DEF FileClarifications, FileMessages
    <3>5. Cardinality(FileMessages(Run)) \in Nat /\ MaxAttach \in Nat
      BY FileMessagesFinite, BoundsAssumption
    <3>6. IsClarification(e) /\ HasFiles(e) => Cardinality(FileMessages(e.run)) < MaxAttach
      BY <3>1, <3>3, <3>4, <3>5 DEF Deferred
    <3>7. InHand' \subseteq InHand \cup {e}
      BY <3>1, <3>2 DEF InHand
    <3> QED BY <1>2, <2>1, <3>6, <3>7 DEF QuotaInv, IsClarification, HasFiles, Trig
  <2> QED BY <2>2, <2>3
<1>4. ASSUME NEW e \in InHand, Adds(e)
      PROVE  QuotaInv'
  <2>1. /\ DOMAIN msgs' = DOMAIN msgs \cup {New} /\ msgs'[New].env = e /\ New \notin DOMAIN msgs
        /\ \A i \in DOMAIN msgs : msgs'[i] = msgs[i]
    BY <1>1, <1>4, Elements DEF Adds, Added, Forward, New, IInv, TypeOK
  <2>2. ~Settled(e)
    BY <1>4 DEF Adds, Added
  <2>3. \A f \in InHand : Settled(f)'
    <3> TAKE f \in InHand
    <3>1. CASE Settled(f)
      BY <1>2, <3>1
    <3>2. CASE ~Settled(f)
      <4>1. f = e
        BY <2>2, <3>2 DEF OnceInv, Hands
      <4> QED BY <2>1, <4>1 DEF Settled, Known
    <3> QED BY <3>1, <3>2
  <2>4. \A f \in InHand' : Settled(f)'
    <3>1. InHand' \subseteq InHand
      BY <1>4 DEF Adds, InHand
    <3> QED BY <2>3, <3>1
  <2>5. ASSUME NEW r \in Nat
        PROVE  Cardinality(FileMessages(r)') <= MaxAttach
    <3>1. CASE msgs'[New].run = r /\ IsClarification(e) /\ HasFiles(e)
      <4>1. r = e.run
        BY <1>4, <3>1 DEF Adds, Added, IsClarification
      <4>2. FileMessages(r)' = FileMessages(r) \cup {New}
        BY <2>1, <3>1 DEF FileMessages, IsClarification, HasFiles, Trig
      <4>3. Cardinality(FileMessages(r)) < MaxAttach
        BY <2>2, <3>1, <4>1 DEF QuotaInv
      <4>4. New \notin FileMessages(r) /\ IsFiniteSet(FileMessages(r))
            /\ Cardinality(FileMessages(r)) \in Nat
        BY <2>1, FileMessagesFinite DEF FileMessages
      <4>5. Cardinality(FileMessages(r) \cup {New}) = Cardinality(FileMessages(r)) + 1
        BY <4>4, FS_AddElement
      <4> QED BY <4>2, <4>3, <4>4, <4>5, BoundsAssumption
    <3>2. CASE ~(msgs'[New].run = r /\ IsClarification(e) /\ HasFiles(e))
      <4>1. FileMessages(r)' = FileMessages(r)
        BY <2>1, <3>2 DEF FileMessages, IsClarification, HasFiles, Trig
      <4> QED BY <4>1 DEF QuotaInv
    <3> QED BY <3>1, <3>2
  <2> QED BY <2>4, <2>5 DEF QuotaInv
<1> QED BY <1>1, <1>3, <1>4

LEMMA QuotaInitiation == Init => QuotaInv
<1> SUFFICES ASSUME Init PROVE QuotaInv
  OBVIOUS
<1>1. DOMAIN msgs = {} /\ InHand = {}
  BY DEF Init, InHand
<1>2. \A r : FileMessages(r) = {}
  BY <1>1 DEF FileMessages
<1>3. Cardinality({}) = 0
  BY FS_EmptySet
<1>4. 0 <= MaxAttach
  BY BoundsAssumption
<1> QED BY <1>1, <1>2, <1>3, <1>4 DEF QuotaInv

(* A run accepts at most MaxAttach clarifications with attachments, counted
   across crashes (Engine.admit counts those of the snapshot).              *)
THEOREM QuotaKept ==
    ASSUME Timely
    PROVE  Spec => []AttachmentQuota
<1>1. ASSUME IInv, QuotaInv
      PROVE  AttachmentQuota
  <2>1. DOMAIN runs \subseteq Nat
    BY <1>1, Elements DEF IInv, TypeOK
  <2> QED BY <1>1, <2>1 DEF QuotaInv, AttachmentQuota, FileMessages
<1>2. IInv /\ OnceInv /\ QuotaInv /\ [Next]_vars => QuotaInv'
  BY QuotaConsecution
<1> QED BY Initiation, Consecution, OnceHolds, QuotaInitiation, <1>1, <1>2, PTL DEF Spec

-----------------------------------------------------------------------------
(* Thread order.  A pass sees every trigger older than the ones it sees, and
   takes a prefix of them: so what precedes an accepted trigger is accepted,
   or was rejected at some version (Gapless).                               *)

Visible == PostsOf(thread) \cup PostsOf(seen.thread)
AllTrig == UNION {Trig(msgs[i].env) : i \in DOMAIN msgs}
Noticed(q) == \E r \in receipts : q \in PostsOf(r.vers)

Past(e) == \A p \in Trig(e) : p <= now
Gapless(e) ==
    e.link = 0 => \A p \in Trig(e), q \in Visible :
                     q < p => q \in Trig(e) \/ q \in AllTrig \/ Noticed(q)
Follows(e) ==
    e.link = 0 => \A i \in DOMAIN msgs : Direct(i) =>
                     \A p \in Trig(msgs[i].env), q \in Trig(e) : p < q \/ Noticed(q)

SeenWhole ==
    /\ \A p \in PostsOf(seen.thread), q \in PostsOf(thread) : q < p => q \in PostsOf(seen.thread)
    /\ seen.receipts \subseteq receipts
    /\ \A p \in Visible : p <= now

OrderInv ==
    /\ InOrder /\ SeenWhole
    /\ \A e \in InHand \cup Sent : Past(e)
    /\ \A e \in Sent : Gapless(e)
    /\ \A e \in InHand : Settled(e) \/ (Gapless(e) /\ Follows(e))

LEMMA PostsNat ==
    ASSUME IInv
    PROVE  /\ now \in Nat /\ PostsOf(thread) \subseteq Posts /\ PostsOf(seen.thread) \subseteq Posts
           /\ Posts \subseteq Nat /\ \A e \in InHand \cup Sent : e \in Envelopes /\ Trig(e) \subseteq Posts
<1>1. /\ thread \in SUBSET (Posts \X (0..MaxEdits))
      /\ seen.thread \in SUBSET (Posts \X (0..MaxEdits))
  BY DEF IInv, TypeOK, MattermostOK, ConnectorOK, Threads
<1>2. now \in Nat
  BY TimeAssumption DEF IInv, TypeOK, MattermostOK, Horizon
<1>3. \A e \in InHand \cup Sent : e \in Envelopes
  BY InHandRefs, Elements DEF Sent, IInv, TypeOK
<1> QED BY <1>1, <1>2, <1>3, TrigPosts DEF PostsOf, Posts

(* Every step of the system, seen from the thread.                          *)
LEMMA ViewStep ==
    ASSUME IInv, [Next]_vars
    PROVE  /\ receipts \subseteq receipts' /\ now' \in Nat /\ now <= now'
           /\ \A q \in PostsOf(thread') : q \in PostsOf(thread) \/ (q = now' /\ now < now')
           /\ \/ seen' = seen
              \/ seen'.thread = {} /\ seen'.receipts = {}
              \/ seen'.thread = thread /\ thread' = thread /\ seen'.receipts = receipts
<1>1. now \in Nat
  BY PostsNat
<1>2. CASE \E posted \in BOOLEAN : Tick(posted)
  <2>1. /\ now' = now + 1 /\ thread' \subseteq thread \cup {<<now', 0>>}
        /\ receipts' = receipts /\ seen' = seen
    BY <1>2 DEF Tick, pass
  <2>2. \A q \in PostsOf(thread') : q \in PostsOf(thread) \/ q = now'
    BY <2>1 DEF PostsOf
  <2> QED BY <1>1, <2>1, <2>2
<1>3. CASE \E v \in thread : Edit(v) \/ Delete(v)
  <2>1. PICK v \in thread : Edit(v) \/ Delete(v)
    BY <1>3
  <2>2. thread' \subseteq thread \cup {<<v[1], v[2] + 1>>} /\ UNCHANGED <<now, receipts, seen>>
    BY <2>1 DEF Edit, Delete, pass
  <2>3. \A q \in PostsOf(thread') : q \in PostsOf(thread)
    BY <2>2 DEF PostsOf
  <2> QED BY <1>1, <2>2, <2>3
<1>4. CASE /\ UNCHANGED <<now, thread>> /\ receipts \subseteq receipts'
           /\ \/ seen' = seen \/ seen' = NoThread
              \/ seen' = [thread |-> thread, receipts |-> receipts]
  BY <1>1, <1>4 DEF NoThread
<1>5. CASE Orpheus \/ UNCHANGED vars
  BY <1>4, <1>5 DEF Orpheus, Serve, ServeLate, Lifecycle, RunStart, RunFinalize, RunEnd, Deliver,
     SessionLost, vars, mattermost, pass
<1>6. CASE Connector
  BY <1>4, <1>6
  DEF Connector, StartPass, ReadRuns, ReadHistory, Revoke, Blocked, ReadThread, Publish, Refresh,
      Drain, Hold, Resend, Wait, RejectOversized, Freeze, Import, Confirm, Receive, RejectRefused,
      mattermost, pass, EndPass
<1>7. CASE Disturbance
  BY <1>4, <1>7 DEF Disturbance, Fail, Denied, Reload, Crash, Restart, mattermost, pass, EndPass
<1> QED BY <1>2, <1>3, <1>5, <1>6, <1>7 DEF Next, Users

LEMMA SeenWholeKept ==
    ASSUME IInv, [Next]_vars, SeenWhole
    PROVE  SeenWhole'
<1> DEFINE A == PostsOf(thread)
           B == PostsOf(seen.thread)
<1>1. now \in Nat /\ A \subseteq Nat /\ B \subseteq Nat
  BY PostsNat
<1>2. /\ receipts \subseteq receipts' /\ now' \in Nat /\ now <= now'
      /\ \A q \in A' : q \in A \/ (q = now' /\ now < now')
  BY ViewStep
<1>3. /\ \A p \in B, q \in A : q < p => q \in B
      /\ seen.receipts \subseteq receipts /\ \A p \in A \cup B : p <= now
  BY DEF SeenWhole, Visible
<1>4. \/ B' = B /\ seen'.receipts = seen.receipts
      \/ B' = {} /\ seen'.receipts = {}
      \/ B' = A /\ A' = A /\ seen'.receipts = receipts
  BY ViewStep DEF PostsOf
<1>5. SeenWhole' <=> /\ \A p \in B', q \in A' : q < p => q \in B'
                     /\ seen'.receipts \subseteq receipts' /\ \A p \in A' \cup B' : p <= now'
  BY DEF SeenWhole, Visible
<1> HIDE DEF A, B
<1>9. B' \subseteq A \cup B
  BY <1>4
<1>6. ASSUME NEW p \in A' \cup B'
      PROVE  p <= now'
  <2>1. CASE p \in A \cup B
    <3>1. p \in Nat /\ p <= now
      BY <1>1, <1>3, <2>1
    <3> QED BY <1>1, <1>2, <3>1
  <2>2. CASE p = now'
    BY <1>2, <2>2
  <2> QED BY <1>2, <1>9, <2>1, <2>2
<1>7. ASSUME NEW p \in B', NEW q \in A', q < p
      PROVE  q \in B'
  <2>1. p \in Nat /\ p <= now
    BY <1>1, <1>3, <1>9
  <2>2. q \in A
    BY <1>1, <1>2, <1>7, <2>1
  <2> QED BY <1>3, <1>4, <1>7, <2>2
<1>8. seen'.receipts \subseteq receipts'
  BY <1>2, <1>3, <1>4
<1> QED BY <1>5, <1>6, <1>7, <1>8

LEMMA GaplessStays ==
    ASSUME IInv, [Next]_vars, SeenWhole, NEW e \in InHand \cup Sent, Past(e)
    PROVE  Past(e)' /\ (Gapless(e) => Gapless(e)')
<1>1. Trig(e) \subseteq Nat /\ now \in Nat
  BY PostsNat
<1>2. now' \in Nat /\ now <= now' /\ \A q \in Visible' : q \in Visible \/ (q = now' /\ now < now')
  BY ViewStep DEF Visible, PostsOf
<1>3. \A q : Noticed(q) => Noticed(q)'
  BY ViewStep DEF Noticed
<1>4. AllTrig \subseteq AllTrig'
  BY OrpheusStep DEF Forward, AllTrig, Trig
<1>5. Trig(e)' = Trig(e)
  BY DEF Trig
<1>6. \A p \in Trig(e) : p <= now
  BY DEF Past
<1>7. Past(e)'
  BY <1>1, <1>2, <1>5, <1>6 DEF Past
<1>8. ASSUME Gapless(e), e.link = 0, NEW p \in Trig(e), NEW q \in Visible', q < p
      PROVE  q \in Trig(e) \/ q \in AllTrig' \/ Noticed(q)'
  <2>1. p \in Nat /\ p <= now
    BY <1>1, <1>6, <1>8
  <2>2. q \in Visible
    BY <1>1, <1>2, <1>8, <2>1
  <2> QED BY <1>3, <1>4, <1>8, <2>2 DEF Gapless
<1> QED BY <1>5, <1>7, <1>8 DEF Gapless

LEMMA SentStep ==
    ASSUME IInv, [Next]_vars
    PROVE  \/ UNCHANGED msgs /\ Sent' = Sent
           \/ \E e \in InHand : Adds(e) /\ Sent' = Sent \cup {e}
<1>1. Forward /\ (UNCHANGED msgs \/ \E e \in InHand : Adds(e))
  BY OrpheusStep DEF SessionLost
<1>2. CASE UNCHANGED msgs
  BY <1>2 DEF Sent
<1>3. ASSUME NEW e \in InHand, Adds(e)
      PROVE  Sent' = Sent \cup {e}
  BY <1>1, <1>3 DEF Adds, Added, Forward, Sent
<1> QED BY <1>1, <1>2, <1>3

LEMMA FollowsStays ==
    ASSUME IInv, [Next]_vars, UNCHANGED msgs, NEW e, Follows(e)
    PROVE  Follows(e)'
<1>1. \A q : Noticed(q) => Noticed(q)'
  BY ViewStep DEF Noticed
<1> QED BY <1>1 DEF Follows, Direct, Trig

(* The next batch leaves no gap and follows what was accepted.              *)
LEMMA FreshInOrder ==
    ASSUME IInv, OrderInv, snap.hist = DOMAIN msgs, Candidates # {}, Unique(Fresh)
    PROVE  Past(Fresh) /\ Gapless(Fresh) /\ Follows(Fresh)
<1>1. Fresh.vers = Batch /\ Fresh.link = 0
  BY FreshIs
<1>2. /\ Batch \subseteq Candidates /\ Candidates \subseteq seen.thread
      /\ \A v \in Batch, w \in Candidates : w[1] < v[1] => w \in Batch
  BY BatchPrefix DEF Candidates
<1>3. Trig(Fresh) = PostsOf(Batch) /\ Trig(Fresh) \subseteq PostsOf(seen.thread)
  BY <1>1, <1>2 DEF Trig, PostsOf
<1>4. /\ PostsOf(seen.thread) \subseteq Nat /\ PostsOf(thread) \subseteq Nat
      /\ \A i \in DOMAIN msgs : Trig(msgs[i].env) \subseteq Nat
  BY PostsNat DEF Sent
<1>5. Past(Fresh)
  BY <1>3 DEF OrderInv, SeenWhole, Visible, Past
<1>6. ASSUME NEW p \in Trig(Fresh), NEW q \in Visible, q < p
      PROVE  q \in Trig(Fresh) \/ q \in AllTrig \/ Noticed(q)
  <2>1. q \in PostsOf(seen.thread)
    BY <1>3, <1>6 DEF OrderInv, SeenWhole, Visible
  <2>2. PICK w \in seen.thread : w[1] = q
    BY <2>1 DEF PostsOf
  <2>3. PICK v \in Batch : v[1] = p
    BY <1>3 DEF PostsOf
  <2>4. CASE w \in Candidates
    <3>1. w \in Batch
      BY <1>2, <1>6, <2>2, <2>3, <2>4
    <3> QED BY <1>3, <2>2, <3>1 DEF PostsOf
  <2>5. CASE w[1] \in KnownTriggers
    BY <2>2, <2>5, SnapParts DEF KnownTriggers, AllTrig
  <2>6. CASE w \in RejectedVersions
    <3>1. PICK r \in seen.receipts : w \in r.vers
      BY <2>6 DEF RejectedVersions
    <3>2. r \in receipts
      BY <3>1 DEF OrderInv, SeenWhole
    <3> QED BY <2>2, <3>1, <3>2 DEF Noticed, PostsOf
  <2> QED BY <2>4, <2>5, <2>6 DEF Candidates
<1>7. Gapless(Fresh)
  BY <1>6 DEF Gapless
<1>8. ASSUME NEW i \in DOMAIN msgs, Direct(i), NEW p \in Trig(msgs[i].env), NEW q \in Trig(Fresh)
      PROVE  p < q \/ Noticed(q)
  <2>1. p \in Nat /\ q \in Nat /\ q \in Visible
    BY <1>3, <1>4 DEF Visible
  <2>2. \A j \in DOMAIN msgs : q \notin Trig(msgs[j].env)
    BY <1>1 DEF Unique
  <2>3. q \notin AllTrig /\ p # q
    BY <2>2 DEF AllTrig
  <2>4. Gapless(msgs[i].env)
    BY DEF OrderInv, Sent
  <2>5. q < p => Noticed(q)
    BY <1>8, <2>1, <2>2, <2>3, <2>4 DEF Gapless, Direct
  <2> QED BY <2>1, <2>3, <2>5
<1>9. Follows(Fresh)
  BY <1>8 DEF Follows
<1> QED BY <1>5, <1>7, <1>9

LEMMA InOrderKept ==
    ASSUME IInv, OrderInv, [Next]_vars
    PROVE  InOrder'
<1>1. Forward /\ (UNCHANGED msgs \/ \E e \in InHand : Adds(e))
  BY OrpheusStep DEF SessionLost
<1>2. \A q : Noticed(q) => Noticed(q)'
  BY ViewStep DEF Noticed
<1>3. InOrder <=> \A i, j \in DOMAIN msgs : i < j /\ Direct(i) /\ Direct(j) =>
                     \A p \in Trig(msgs[i].env), q \in Trig(msgs[j].env) : p < q \/ Noticed(q)
  BY DEF InOrder, Noticed
<1>4. InOrder' <=> \A i, j \in DOMAIN msgs' : i < j /\ msgs'[i].env.link = 0 /\ msgs'[j].env.link = 0 =>
                     \A p \in Trig(msgs'[i].env), q \in Trig(msgs'[j].env) : p < q \/ Noticed(q)'
  BY DEF InOrder, Noticed, Direct, Trig
<1>5. CASE UNCHANGED msgs
  BY <1>2, <1>3, <1>4, <1>5 DEF OrderInv, Direct
<1>6. ASSUME NEW e \in InHand, Adds(e)
      PROVE  InOrder'
  <2>1. /\ DOMAIN msgs' = DOMAIN msgs \cup {New} /\ msgs'[New].env = e
        /\ \A i \in DOMAIN msgs : msgs'[i] = msgs[i]
    BY <1>1, <1>6 DEF Adds, Added, Forward
  <2>2. Follows(e)
    BY <1>6 DEF OrderInv, Adds, Added
  <2>3. DOMAIN msgs = 1..Len(msgs) /\ Len(msgs) \in Nat /\ New = Len(msgs) + 1
    BY Elements DEF IInv, TypeOK, New
  <2>4. ASSUME NEW i \in DOMAIN msgs', NEW j \in DOMAIN msgs', i < j,
               msgs'[i].env.link = 0, msgs'[j].env.link = 0,
               NEW p \in Trig(msgs'[i].env), NEW q \in Trig(msgs'[j].env)
        PROVE  p < q \/ Noticed(q)'
    <3>1. i \in DOMAIN msgs
      BY <2>1, <2>3, <2>4
    <3>2. CASE j \in DOMAIN msgs
      BY <1>2, <1>3, <2>1, <2>4, <3>1, <3>2 DEF OrderInv, Direct
    <3>3. CASE j = New
      BY <1>2, <2>1, <2>2, <2>4, <3>1, <3>3 DEF Follows, Direct
    <3> QED BY <2>1, <3>2, <3>3
  <2> QED BY <1>4, <2>4
<1> QED BY <1>1, <1>5, <1>6

LEMMA OrderConsecution == IInv /\ OnceInv /\ PromiseInv /\ OrderInv /\ [Next]_vars => OrderInv'
<1> SUFFICES ASSUME IInv, OnceInv, PromiseInv, OrderInv, [Next]_vars PROVE OrderInv'
  OBVIOUS
<1>1. InOrder' /\ SeenWhole'
  BY InOrderKept, SeenWholeKept DEF OrderInv
<1>2. \A e \in InHand \cup Sent : Past(e)' /\ (Gapless(e) => Gapless(e)')
  BY GaplessStays DEF OrderInv
<1>3. \A f \in InHand : Settled(f) => Settled(f)'
  BY StillUnique
<1>4. Sent' \subseteq InHand \cup Sent
  BY SentStep
<1>5. \A e \in Sent' : Gapless(e)'
  <2>1. \A e \in Sent : Gapless(e)'
    BY <1>2 DEF OrderInv
  <2>2. ASSUME NEW e \in InHand, Adds(e)
        PROVE  Gapless(e)'
    BY <1>2, <2>2 DEF OrderInv, Adds, Added
  <2> QED BY <2>1, <2>2, SentStep
<1>6. \A f \in InHand : Settled(f)' \/ (Gapless(f)' /\ Follows(f)')
  <2> SUFFICES ASSUME NEW f \in InHand, ~Settled(f)
               PROVE  Settled(f)' \/ (Gapless(f)' /\ Follows(f)')
    BY <1>3
  <2>1. Gapless(f)' /\ Follows(f)
    BY <1>2 DEF OrderInv
  <2>2. CASE UNCHANGED msgs
    BY <2>1, <2>2, FollowsStays
  <2>3. ASSUME NEW e \in InHand, Adds(e)
        PROVE  Settled(f)'
    <3>1. f = e
      BY <2>3 DEF OnceInv, Hands, Adds, Added
    <3> QED BY <2>3, <3>1 DEF Known, Settled, Adds, Added
  <2> QED BY <2>1, <2>2, <2>3, SentStep
<1>7. CASE ~Freeze
  <2>1. InHand' \subseteq InHand
    BY <1>7, HandStep
  <2>2. \A e \in InHand' \cup Sent' : Past(e)'
    BY <1>2, <1>4, <2>1
  <2>3. \A f \in InHand' : Settled(f)' \/ (Gapless(f)' /\ Follows(f)')
    BY <1>6, <2>1
  <2> QED BY <1>1, <1>5, <2>2, <2>3 DEF OrderInv
<1>8. CASE Freeze
  <2>1. PICK e \in Offer : frozen' = {e}
    BY <1>8, FreezeIs
  <2>2. /\ late' = late /\ UNCHANGED <<mattermost, orpheus, pass>> /\ snap.hist = DOMAIN msgs
        /\ Unique(e)
    BY <1>8, FreezeIs, OfferUnique
  <2>3. Past(e) /\ Gapless(e) /\ Follows(e)
    <3>1. CASE Due /\ e = Fresh
      BY <2>2, <3>1, FreshInOrder DEF Due
    <3>2. CASE Transferable # {} /\ e = Transfer
      <4>1. /\ e.link = FirstTransferable /\ e.vers = msgs[FirstTransferable].env.vers
            /\ FirstTransferable \in DOMAIN msgs /\ e.link # 0
        BY <3>2, TransferIs, TransferableOne, Elements DEF IInv, TypeOK
      <4>2. Past(msgs[FirstTransferable].env)
        BY <4>1 DEF OrderInv, Sent
      <4> QED BY <4>1, <4>2 DEF Past, Trig, Gapless, Follows
    <3> QED BY <3>1, <3>2 DEF Offer
  <2>4. Past(e)' /\ Gapless(e)' /\ Follows(e)'
    BY <2>2, <2>3 DEF Past, Gapless, Follows, Visible, AllTrig, Noticed, Direct, Trig,
       mattermost, orpheus, pass
  <2>5. InHand' \subseteq InHand \cup {e}
    BY <2>1, <2>2 DEF InHand
  <2>6. \A f \in InHand' \cup Sent' : Past(f)'
    BY <1>2, <1>4, <2>4, <2>5
  <2>7. \A f \in InHand' : Settled(f)' \/ (Gapless(f)' /\ Follows(f)')
    BY <1>6, <2>4, <2>5
  <2> QED BY <1>1, <1>5, <2>6, <2>7 DEF OrderInv
<1> QED BY <1>7, <1>8

LEMMA OrderInitiation == Init => OrderInv
<1> SUFFICES ASSUME Init PROVE OrderInv
  OBVIOUS
<1>1. /\ DOMAIN msgs = {} /\ InHand = {} /\ Sent = {} /\ PostsOf(thread) = {}
      /\ PostsOf(seen.thread) = {} /\ seen.receipts = {}
  BY DEF Init, InHand, Sent, NoThread, PostsOf
<1> QED BY <1>1 DEF OrderInv, InOrder, SeenWhole, Visible

(* Triggers are accepted in thread order, except those that were rejected at
   an earlier version (Engine.admit takes a prefix of the candidates).      *)
THEOREM OrderKept ==
    ASSUME Timely
    PROVE  Spec => []InOrder
<1>1. OrderInv => InOrder
  BY DEF OrderInv
<1>2. IInv /\ OnceInv /\ PromiseInv /\ OrderInv /\ [Next]_vars => OrderInv'
  BY OrderConsecution
<1> QED
  BY Initiation, Consecution, OnceHolds, PromiseHolds, OrderInitiation, <1>1, <1>2, PTL DEF Spec

-----------------------------------------------------------------------------
(* One run at a time, where no request arrives after the connector stopped
   waiting for it.  Nothing is then accepted while a pass reads, so a snapshot
   misses nothing (Whole), and a new run is asked for only when no run is
   active and nothing is owed (Alone).                                      *)

Resting == \A r \in DOMAIN runs : ~Live(r)
Lone == \A q, r \in DOMAIN runs : Live(q) /\ Live(r) => q = r
Alone(e) == e.run = 0 => Resting /\ (e.link = 0 => \A k \in DOMAIN msgs : ~Owed(k))
Whole ==
    /\ snap.n = Len(sessions)
    /\ \A r \in DOMAIN runs : RunsRead(runs[r].sess) => r \in DOMAIN snap.st
    /\ \A i \in DOMAIN msgs : HistoryRead(msgs[i].sess) <=> i \in snap.hist
    /\ \A i \in rejected \cap snap.hist :
          msgs[i].run \in DOMAIN snap.st /\ snap.st[msgs[i].run] \in Terminal => i \in snap.rejected
AloneInv ==
    /\ Lone
    /\ pc \in Reading \cup HasRead => Whole
    /\ \A e \in frozen : Settled(e) \/ Alone(e)

(* Runs, sessions and messages are added only while a request is under way. *)
LEMMA CalmStep ==
    ASSUME IInv, [Next]_vars
    PROVE  \/ UNCHANGED msgs /\ DOMAIN runs' = DOMAIN runs /\ Len(sessions') = Len(sessions)
           \/ \E e \in InHand : Adds(e) /\ (pc = "await" \/ e \in late)
<1> DEFINE Calm == UNCHANGED msgs /\ DOMAIN runs' = DOMAIN runs /\ Len(sessions') = Len(sessions)
<1>1. CASE Serve
  <2>1. PICK e \in frozen, answer \in {"ok", "conflict", "closed", "error", "refused"} :
           Process(e, answer)
    BY <1>1 DEF Serve
  <2>2. e \in InHand /\ UNCHANGED frozen /\ late' \subseteq late /\ pc = "await"
    BY <1>1 DEF Serve, InHand
  <2> QED BY <2>1, <2>2, InHandRefs, ProcessEffect DEF Adds
<1>2. CASE \E e \in late : ServeLate(e)
  <2>1. PICK e \in late, answer \in {"ok", "conflict", "closed", "error", "refused"} :
           ServeLate(e) /\ Process(e, answer)
    BY <1>2 DEF ServeLate
  <2>2. e \in InHand /\ UNCHANGED frozen /\ late' \subseteq late
    BY <2>1 DEF ServeLate, InHand
  <2> QED BY <2>1, <2>2, InHandRefs, ProcessEffect DEF Adds
<1>3. CASE Lifecycle
  <2>1. ASSUME NEW s \in DOMAIN sessions, SessionLost(s)
        PROVE  Calm
    <3>1. sessions' = [sessions EXCEPT ![s].usable = FALSE] /\ UNCHANGED <<runs, msgs>>
      BY <2>1 DEF SessionLost
    <3>2. \E S : sessions \in Seq(S)
      BY DEF IInv, TypeOK, OrpheusOK
    <3>3. Len(sessions') = Len(sessions)
      BY <3>1, <3>2
    <3> QED BY <3>1, <3>3
  <2>2. CASE ~(\E s \in DOMAIN sessions : SessionLost(s))
    BY <1>3, <2>2 DEF Lifecycle, RunStart, RunFinalize, RunEnd, End, Deliver
  <2> QED BY <2>1, <2>2
<1>4. CASE Revoke \/ (\E status \in Denials : Denied(status))
  BY <1>4 DEF Revoke, Denied, Cancel, End
<1>5. CASE Users \/ UNCHANGED vars
  BY <1>5 DEF Users, Tick, Edit, Delete, vars, orpheus
<1>6. CASE Connector /\ ~Revoke
  BY <1>6
  DEF Connector, StartPass, ReadRuns, ReadHistory, Blocked, ReadThread, Publish, Refresh, Drain,
      Hold, Resend, Wait, RejectOversized, Freeze, Import, Confirm, Receive, RejectRefused, orpheus
<1>7. CASE Disturbance /\ ~(\E status \in Denials : Denied(status))
  BY <1>7 DEF Disturbance, Fail, Reload, Crash, Restart, orpheus
<1> QED BY <1>1, <1>2, <1>3, <1>4, <1>5, <1>6, <1>7 DEF Next, Orpheus

LEMMA LoneKept ==
    ASSUME IInv, OnceInv, AloneInv, ~LateRequests, [Next]_vars
    PROVE  Lone'
<1>1. Forward
  BY OrpheusStep
<1>2. \A r \in DOMAIN runs : Live(r)' => Live(r)
  BY <1>1 DEF Forward, Live
<1>3. CASE DOMAIN runs' = DOMAIN runs
  BY <1>2, <1>3 DEF AloneInv, Lone
<1>4. ASSUME NEW e \in InHand, Adds(e), e.run = 0
      PROVE  Lone'
  <2>1. Resting
    BY <1>4 DEF InHand, OnceInv, Hands, AloneInv, Alone, Adds, Added
  <2>2. DOMAIN runs' = DOMAIN runs \cup {NewR}
    BY <1>4 DEF Adds, Added
  <2> QED BY <1>2, <2>1, <2>2 DEF Resting, Lone
<1>5. ASSUME NEW e \in InHand, Adds(e), e.run # 0
      PROVE  DOMAIN runs' = DOMAIN runs
  BY <1>5 DEF Adds, Added
<1> QED BY <1>3, <1>4, <1>5, CalmStep

(* In a pass, only the two reads of a session add to what is read.          *)
LEMMA WholeStands ==
    ASSUME IInv, OnceInv, AloneInv, ~LateRequests, [Next]_vars, pc \in Reading \cup HasRead,
           snap' = snap, at' = at, pc' = pc \/ (pc \in HasRead /\ pc' \in HasRead)
    PROVE  Whole'
<1>1. Forward
  BY OrpheusStep
<1>2. UNCHANGED msgs /\ DOMAIN runs' = DOMAIN runs /\ Len(sessions') = Len(sessions)
  BY CalmStep DEF OnceInv, Hands, Reading, HasRead
<1>3. Whole /\ Sound
  BY DEF AloneInv, OnceInv, SnapTrue
<1>4. \A s : (RunsRead(s)' <=> RunsRead(s)) /\ (HistoryRead(s)' <=> HistoryRead(s))
  BY DEF RunsRead, HistoryRead, HasRead
<1>5. \A r \in DOMAIN runs : runs'[r].sess = runs[r].sess
  BY <1>1 DEF Forward
<1>6. ASSUME NEW i \in rejected' \cap snap.hist, msgs[i].run \in DOMAIN snap.st,
             snap.st[msgs[i].run] \in Terminal
      PROVE  i \in rejected
  <2>1. ~Live(msgs[i].run)
    BY <1>3, <1>6 DEF Sound, Live
  <2> QED BY <1>6, <2>1, FateStep DEF Ends, Takes, MessagesOf
<1>7. \A r \in DOMAIN runs' : RunsRead(runs[r].sess)' => r \in DOMAIN snap.st
  <2> TAKE r \in DOMAIN runs'
  <2>1. r \in DOMAIN runs /\ runs'[r].sess = runs[r].sess
    BY <1>2, <1>5
  <2> QED BY <1>3, <1>4, <2>1 DEF Whole, RunsRead
<1>8. \A i \in DOMAIN msgs : HistoryRead(msgs[i].sess)' <=> i \in snap.hist
  BY <1>2, <1>3, <1>4 DEF Whole
<1> QED BY <1>2, <1>3, <1>6, <1>7, <1>8 DEF Whole

LEMMA WholeStarts ==
    ASSUME IInv, StartPass
    PROVE  Whole'
<1>1. /\ snap'.n = Len(sessions) /\ DOMAIN snap'.st = {} /\ snap'.hist = {}
      /\ UNCHANGED <<sessions, runs, msgs>>
  BY DEF StartPass, SnapOf, orpheus
<1>2. \A s \in DOMAIN sessions : ~RunsRead(s)' /\ ~HistoryRead(s)'
  <2> TAKE s \in DOMAIN sessions
  <2>1. s \in 1..Len(sessions) /\ Len(sessions) \in Nat
    BY SessionsOf
  <2>2. at' = 1 /\ pc' = "runs"
    BY <2>1 DEF StartPass
  <2> QED BY <1>1, <2>1, <2>2 DEF RunsRead, HistoryRead, HasRead
<1> QED BY <1>1, <1>2, SessionsOf DEF Whole
LEMMA WholeRuns ==
    ASSUME IInv, AloneInv, ReadRuns
    PROVE  Whole'
<1>1. /\ pc = "runs" /\ pc' = "history" /\ at' = at
      /\ UNCHANGED <<sessions, runs, msgs, rejected>>
  BY DEF ReadRuns, orpheus
<1>2. Whole
  BY <1>1 DEF AloneInv, Reading
<1> DEFINE st == [r \in DOMAIN snap.st \cup RunsOf(at) |->
                     IF r \in RunsOf(at) THEN runs[r].st ELSE snap.st[r]]
<1>3. snap' = [snap EXCEPT !.st = st]
  BY DEF ReadRuns
<1>4. /\ DOMAIN st = DOMAIN snap.st \cup RunsOf(at)
      /\ \A r \in DOMAIN snap.st \ RunsOf(at) : st[r] = snap.st[r]
  OBVIOUS
<1> HIDE DEF st
<1>5. /\ snap'.n = snap.n /\ snap'.hist = snap.hist /\ snap'.rejected = snap.rejected
      /\ snap'.st = st
  BY <1>3, SnapParts
<1>6. \A s : (RunsRead(s)' => RunsRead(s) \/ s = at) /\ (HistoryRead(s)' <=> HistoryRead(s))
  BY <1>1, <1>5 DEF RunsRead, HistoryRead, HasRead
<1>7. \A r \in DOMAIN runs : RunsRead(runs[r].sess)' => r \in DOMAIN st
  BY <1>1, <1>2, <1>4, <1>6 DEF Whole, RunsOf
<1>8. \A i \in DOMAIN msgs : HistoryRead(msgs[i].sess)' <=> i \in snap.hist
  BY <1>1, <1>2, <1>6 DEF Whole
<1>9. ASSUME NEW i \in rejected \cap snap.hist, msgs[i].run \in DOMAIN st,
             st[msgs[i].run] \in Terminal
      PROVE  i \in snap.rejected
  <2>1. i \in DOMAIN msgs /\ HistoryRead(msgs[i].sess)
    BY <1>2, SnapParts DEF Whole
  <2>2. msgs[i].sess # at
    <3>1. ~HistoryRead(at)
      BY <1>1, SnapParts DEF HistoryRead, HasRead
    <3> QED BY <2>1, <3>1
  <2>3. msgs[i].run \notin RunsOf(at)
    BY <2>1, <2>2 DEF RunsOf, IInv, Refs
  <2> QED BY <1>2, <1>4, <1>9, <2>3 DEF Whole
<1> QED BY <1>1, <1>2, <1>5, <1>7, <1>8, <1>9 DEF Whole

LEMMA WholeHistory ==
    ASSUME IInv, AloneInv, ReadHistory
    PROVE  Whole'
<1>1. pc = "history" /\ UNCHANGED <<sessions, runs, msgs, rejected>>
  BY DEF ReadHistory, orpheus
<1>2. Whole
  BY <1>1 DEF AloneInv, Reading
<1>3. /\ snap'.n = snap.n /\ snap'.st = snap.st /\ snap'.hist = snap.hist \cup MsgsOf(at)
      /\ snap'.rejected = snap.rejected \cup (MsgsOf(at) \cap rejected)
  BY SnapParts DEF ReadHistory
<1>4. at \in Nat /\ at <= snap.n /\ snap.n \in Nat
  BY SnapParts
<1>5. ASSUME NEW s \in 1..snap.n
      PROVE  (RunsRead(s)' => RunsRead(s)) /\ (HistoryRead(s)' <=> HistoryRead(s) \/ s = at)
  <2>1. CASE at = snap.n
    BY <1>1, <1>3, <1>4, <2>1 DEF ReadHistory, RunsRead, HistoryRead, HasRead
  <2>2. CASE at # snap.n
    <3>1. at' = at + 1 /\ pc' = "runs"
      BY <2>2 DEF ReadHistory
    <3> QED BY <1>1, <1>3, <1>4, <3>1 DEF RunsRead, HistoryRead, HasRead
  <2> QED BY <2>1, <2>2
<1>6. /\ \A r \in DOMAIN runs : runs[r].sess \in 1..snap.n
      /\ \A i \in DOMAIN msgs : msgs[i].sess \in 1..snap.n
  BY <1>2, SessionsOf DEF Whole
<1>7. \A r \in DOMAIN runs : RunsRead(runs[r].sess)' => r \in DOMAIN snap.st
  BY <1>1, <1>2, <1>5, <1>6 DEF Whole
<1>8. \A i \in DOMAIN msgs : HistoryRead(msgs[i].sess)' <=> i \in snap.hist \cup MsgsOf(at)
  BY <1>1, <1>2, <1>5, <1>6 DEF Whole, MsgsOf
<1>9. ASSUME NEW i \in rejected \cap (snap.hist \cup MsgsOf(at)), msgs[i].run \in DOMAIN snap.st,
             snap.st[msgs[i].run] \in Terminal
      PROVE  i \in snap.rejected \cup (MsgsOf(at) \cap rejected)
  BY <1>2, <1>9 DEF Whole
<1> QED BY <1>1, <1>2, <1>3, <1>7, <1>8, <1>9 DEF Whole

LEMMA WholeKept ==
    ASSUME IInv, OnceInv, AloneInv, ~LateRequests, [Next]_vars, pc' \in Reading \cup HasRead
    PROVE  Whole'
<1> DEFINE Stands == /\ snap' = snap /\ at' = at
                     /\ pc' = pc \/ (pc \in HasRead /\ pc' \in HasRead)
<1>1. CASE Stands
  <2>1. pc \in Reading \cup HasRead
    BY <1>1
  <2> QED BY <1>1, <2>1, WholeStands
<1>2. CASE StartPass \/ ReadRuns \/ ReadHistory
  BY <1>2, WholeStarts, WholeRuns, WholeHistory
<1>3. CASE Users \/ Lifecycle \/ (\E e \in late : ServeLate(e)) \/ UNCHANGED vars
  <2>1. snap' = snap /\ at' = at /\ pc' = pc
    BY <1>3 DEF Users, Tick, Edit, Delete, Lifecycle, RunStart, RunFinalize, RunEnd, Deliver,
                SessionLost, ServeLate, vars, pass
  <2> QED BY <1>1, <2>1
<1>4. CASE ReadThread \/ (\E created \in BOOLEAN : Publish(created)) \/ Refresh
  <2>1. snap' = snap /\ at' = at /\ pc \in HasRead /\ pc' \in HasRead
    BY <1>4 DEF ReadThread, Publish, Refresh, pass, HasRead
  <2> QED BY <1>1, <2>1
<1>5. CASE Serve \/ Import \/ Confirm \/ Resend \/ Freeze
  <2>1. pc' \in {"reply", "import", "confirm", "await", "idle"}
    BY <1>5 DEF Serve, Import, Confirm, Resend, Freeze, Submitting, EndPass
  <2> QED BY <2>1 DEF Reading, HasRead
<1>6. CASE \/ Revoke \/ Blocked \/ Drain \/ Hold \/ Wait \/ RejectOversized \/ Receive \/ RejectRefused
           \/ Disturbance
  <2>1. pc' \in {"idle", "down"}
    BY <1>6 DEF Revoke, Blocked, Drain, Hold, Wait, RejectOversized, Receive, RejectRefused,
                Disturbance, Fail, Denied, Reload, Crash, Restart, EndPass
  <2> QED BY <2>1 DEF Reading, HasRead
<1> QED
  BY <1>2, <1>3, <1>4, <1>5, <1>6 DEF Next, Orpheus, Connector

(* A new run is asked for only when no run is active and nothing is owed.   *)
LEMMA AloneOffered ==
    ASSUME IInv, OnceInv, AloneInv, Freeze, NEW e \in Offer
    PROVE  Alone(e)
<1>1. /\ pc = "decide" /\ snap.hist = DOMAIN msgs /\ Cardinality(Active) <= 1
      /\ UNCHANGED orpheus
  BY FreezeIs DEF Freeze, Deciding, OnceInv, OneActive
<1>2. Whole /\ Sound
  BY <1>1 DEF AloneInv, OnceInv, SnapTrue, HasRead
<1>3. \A r \in DOMAIN runs : r \in DOMAIN snap.st
  <2> TAKE r \in DOMAIN runs
  <2>1. runs[r].sess <= snap.n
    <3>1. runs[r].sess \in 1..Len(sessions) /\ Len(sessions) \in Nat
      BY SessionsOf
    <3>2. snap.n = Len(sessions)
      BY <1>2 DEF Whole
    <3> QED BY <3>1, <3>2
  <2> QED BY <1>1, <1>2, <2>1 DEF Whole, RunsRead, HasRead
<1> SUFFICES ASSUME e.run = 0 PROVE Resting /\ (e.link = 0 => \A k \in DOMAIN msgs : ~Owed(k))
  BY DEF Alone
<1>4. Run = 0
  BY FreshIs, TransferIs DEF Offer, Due
<1>5. \A r \in DOMAIN runs : snap.st[r] \in Terminal /\ runs[r].st = snap.st[r]
  <2> TAKE r \in DOMAIN runs
  <2>1. r # 0
    BY Elements DEF IInv, TypeOK
  <2>2. r \notin Active
    BY <1>1, <1>4, <2>1, OnlyRun
  <2> QED BY <1>2, <1>3, <2>2 DEF Active, Sound
<1>6. Resting
  BY <1>5 DEF Resting, Live
<1>7. ASSUME e.link = 0, NEW k \in DOMAIN msgs, Owed(k)
      PROVE  FALSE
  <2>1. Transferable = {}
    <3>1. SUFFICES ASSUME Transferable # {} PROVE FALSE
      OBVIOUS
    <3>2. e.link = FirstTransferable
      BY <1>4, <3>1, TransferIs DEF Offer
    <3> QED BY <1>7, <3>1, <3>2, TransferableOne, Elements DEF IInv, TypeOK
  <2>2. msgs[k].run \in DOMAIN runs
    BY DEF IInv, Refs
  <2>3. k \in snap.rejected
    BY <1>1, <1>2, <1>3, <1>5, <1>7, <2>2 DEF Whole, Owed
  <2>4. k \in Transferable
    BY <1>1, <1>3, <1>5, <1>7, <2>2, <2>3 DEF Transferable, Owed
  <2> QED BY <2>1, <2>4
<1> QED BY <1>6, <1>7
LEMMA OwedStays ==
    ASSUME IInv, [Next]_vars, Resting, UNCHANGED msgs, NEW k \in DOMAIN msgs, Owed(k)'
    PROVE  Owed(k)
<1>1. rejected' = rejected
  BY FateStep DEF Resting, Ends, Takes, Adds, Added
<1>2. k \in rejected /\ IsClarification(msgs[k].env) /\ \A j \in DOMAIN msgs : msgs[j].env.link # k
  BY <1>1 DEF Owed
<1>3. msgs[k].run \in DOMAIN runs
  BY DEF IInv, Refs
<1>4. runs'[msgs[k].run].st = runs[msgs[k].run].st
  BY <1>3, OrpheusStep DEF Resting, Forward
<1>5. runs'[msgs[k].run].st = "completed"
  BY DEF Owed
<1> QED BY <1>2, <1>4, <1>5 DEF Owed

LEMMA AloneKept ==
    ASSUME IInv, OnceInv, AloneInv, ~LateRequests, [Next]_vars
    PROVE  \A e \in frozen' : Settled(e)' \/ Alone(e)'
<1>1. CASE Freeze
  <2>1. PICK e \in Offer : frozen' = {e}
    BY <1>1, FreezeIs
  <2>2. Alone(e) /\ UNCHANGED <<runs, msgs, rejected>>
    BY <1>1, AloneOffered, FreezeIs DEF orpheus
  <2>3. Alone(e)'
    BY <2>2 DEF Alone, Resting, Live, Owed
  <2> QED BY <2>1, <2>3
<1>2. CASE ~Freeze
  <2> SUFFICES ASSUME NEW e \in frozen', ~Settled(e)' PROVE Alone(e)'
    OBVIOUS
  <2>1. Forward /\ Started
    BY OrpheusStep DEF OnceInv, Accepts
  <2>2. e \in frozen /\ e \in InHand
    BY <1>2, HandStep DEF InHand
  <2>3. ~Settled(e)
    BY <2>1, <2>2, InHandRefs, SettledStays
  <2>4. Alone(e)
    BY <2>2, <2>3 DEF AloneInv
  <2>5. UNCHANGED msgs /\ DOMAIN runs' = DOMAIN runs
    <3>1. ASSUME NEW f \in InHand, Adds(f)
          PROVE  FALSE
      <4>1. f = e
        BY <2>2, <2>3, <3>1 DEF OnceInv, Hands, Adds, Added
      <4>2. Known(e)'
        BY <3>1, <4>1 DEF Adds, Added, Known
      <4> QED BY <4>2 DEF Settled
    <3> QED BY <3>1, CalmStep
  <2> SUFFICES ASSUME e.run = 0
               PROVE  Resting' /\ (e.link = 0 => \A k \in DOMAIN msgs' : ~Owed(k)')
    BY DEF Alone
  <2>6. Resting /\ (e.link = 0 => \A k \in DOMAIN msgs : ~Owed(k))
    BY <2>4 DEF Alone
  <2>7. Resting'
    BY <2>1, <2>5, <2>6 DEF Resting, Forward, Live
  <2> QED BY <2>5, <2>6, <2>7, OwedStays
<1> QED BY <1>1, <1>2

LEMMA AloneInitiation == Init => AloneInv
<1> SUFFICES ASSUME Init PROVE AloneInv
  OBVIOUS
<1>1. DOMAIN runs = {} /\ frozen = {} /\ pc = "idle"
  BY DEF Init
<1> QED BY <1>1 DEF AloneInv, Lone, Reading, HasRead

LEMMA AloneHolds ==
    ASSUME ~LateRequests
    PROVE  Spec => [](IInv /\ OnceInv /\ AloneInv)
<1>1. IInv /\ OnceInv /\ AloneInv /\ [Next]_vars => AloneInv'
  BY LoneKept, WholeKept, AloneKept DEF AloneInv
<1>2. Timely
  BY DEF Timely
<1> QED BY <1>1, <1>2, Initiation, Consecution, OnceHolds, AloneInitiation, PTL DEF Spec

(* The thread never has two runs at once, where no request arrives after the
   connector stopped waiting for it (Engine.admit, Engine.retry).           *)
THEOREM OneRunAtATime ==
    ASSUME ~LateRequests
    PROVE  Spec => []SingleActive
<1>1. ASSUME IInv, AloneInv
      PROVE  SingleActive
  <2> DEFINE L == {r \in DOMAIN runs : Live(r)}
  <2>1. CASE L = {}
    BY <2>1, FS_EmptySet DEF SingleActive
  <2>2. CASE L # {}
    <3>1. PICK r : r \in L
      BY <2>2
    <3>2. L = {r}
      BY <1>1, <3>1 DEF AloneInv, Lone
    <3> HIDE DEF L
    <3>3. Cardinality(L) = 1
      BY <3>2, FS_Singleton
    <3> QED BY <3>3 DEF SingleActive, L
  <2> QED BY <2>1, <2>2
<1> QED BY <1>1, AloneHolds, PTL

(* While a clarification is owed, no other request starts a run
   (Engine.admit offers the transfer first).                                *)
THEOREM TransfersFirst ==
    ASSUME ~LateRequests
    PROVE  Spec => TransferFirst
<1> DEFINE First == \A i \in DOMAIN msgs' \ DOMAIN msgs :
                       msgs'[i].env.link = 0 /\ msgs'[i].env.run = 0 => \A k \in DOMAIN msgs : ~Owed(k)
<1>1. ASSUME IInv, OnceInv, AloneInv, [Next]_vars
      PROVE  First
  <2>1. CASE UNCHANGED msgs
    BY <2>1
  <2>2. ASSUME NEW e \in InHand, Adds(e)
        PROVE  First
    <3>1. ~Settled(e) /\ e \in frozen
      BY <1>1, <2>2 DEF InHand, OnceInv, Hands, Adds, Added
    <3>2. Alone(e)
      BY <1>1, <3>1 DEF AloneInv
    <3>3. \A i \in DOMAIN msgs' \ DOMAIN msgs : msgs'[i].env = e
      BY <2>2 DEF Adds, Added
    <3> QED BY <3>2, <3>3 DEF Alone
  <2> QED BY <1>1, <2>1, <2>2, CalmStep
<1>2. Spec => [][First]_vars
  BY <1>1, AloneHolds, PTL DEF Spec
<1> QED BY <1>2 DEF TransferFirst
===============================================================================
