--------------------------- MODULE DeliveryProofs ---------------------------
(***************************************************************************)
(* Reviews of a pull request, for any deliveries, polls, pushes, retries   *)
(* and limits: one open review of a commit, bounded recovery.  Plans fanned*)
(* out and in, for any plans without cycles, machines, capacities and      *)
(* numbers of open transactions: slots respected, the last callback closes *)
(* the run, no circle of waiting transactions.                             *)
(***************************************************************************)
EXTENDS Reviews, Fanout, FiniteSetTheorems, SequenceTheorems, WellFoundedInduction, TLAPS

-----------------------------------------------------------------------------
(* Reviews and their recovery. *)

\* Natural numbers up to a bound have a greatest.
LEMMA Greatest ==
    ASSUME NEW n \in Nat, NEW T \in SUBSET (1 .. n), T # {}
    PROVE  Max(T) \in T /\ \A y \in T : Max(T) >= y
  <1>. DEFINE R == OpToRel(<, Nat)
              D == {k \in Nat : \E x \in T : k = n - x}
  <1>1. IsWellFoundedOn(R, Nat)
    BY NatLessThanWellFounded
  <1>2. D \subseteq Nat /\ D # {}
    <2>1. PICK x \in T : x \in 1 .. n
      OBVIOUS
    <2>2. n - x \in D
      BY <2>1
    <2>. QED  BY <2>2
  <1>3. \A j, k \in Nat : j < k => <<j, k>> \in R
    BY DEF OpToRel
  <1>. HIDE DEF R
  <1>4. PICK k \in D : \A j \in D : <<j, k>> \notin R
    BY <1>1, <1>2, WFMin
  <1>5. PICK x \in T : k = n - x
    OBVIOUS
  <1>6. \A y \in T : x >= y
    <2>. SUFFICES ASSUME NEW y \in T, y > x PROVE FALSE
      OBVIOUS
    <2>1. n - y \in D /\ n - y < k
      BY <1>5
    <2>. QED  BY <1>2, <1>3, <1>4, <2>1
  <1>. QED  BY <1>6 DEF Max

(* The reviews of a pull request. *)

CallStates == {"none", "open", "accepted", "rejected"}
OpenStates == {"queued", "running"}
ReviewRow == [head : Nat, kind : {"webhook", "stranded", "lease", "retry"}, root : Nat,
              status : OpenStates \cup {"completed", "failed", "cancelled"}, attempts : Nat,
              left : Nat \cup {NoLease}, call : [1 .. MaxClaims -> CallStates]]
HookRow == [pc : {"idle", "lookup", "supersede", "recover", "insert", "done"}, head : Nat, seen : Nat,
            drops : SUBSET Nat]
PollRow == [pc : {"idle", "ask", "fail", "retire", "recover", "done"}, id : Nat]

\* Reviews, deliveries and polls have their types; who is to lock a review names one.
ReviewsTypeOK ==
    /\ pull \in [head : Nat, last : Nat, open : BOOLEAN] /\ retries \in Nat
    /\ review \in Seq(ReviewRow)
    /\ hook \in [Hooks -> HookRow] /\ \A w \in Hooks : hook[w].pc = "recover" => hook[w].seen \in Reviews
    /\ poll \in [Pollers -> PollRow] /\ \A p \in Pollers : poll[p].pc \notin {"idle", "done"} => poll[p].id \in Reviews

\* What a transaction has superseded is queued, and nobody else's.
DropsHeld ==
    \A w \in Hooks : \A i \in hook[w].drops :
        /\ i \in Reviews /\ review[i].status = "queued"
        /\ \A v \in Hooks \ {w} : i \notin hook[v].drops

\* How one review may change: it keeps its commit and its line, never opens again, counts
\* its claims, asks no model once it is closed, and ends under a live lease by a result.
Evolved(old, new) ==
    /\ new \in ReviewRow /\ new.head = old.head /\ new.kind = old.kind /\ new.root = old.root
    /\ new.status \in OpenStates => old.status \in OpenStates
    /\ new.status = "queued" => old.status = "queued"
    /\ new.attempts >= old.attempts
    /\ old.status = "queued" /\ new.status = "running" => new.attempts >= old.attempts + 1
    /\ old.status \notin OpenStates => \A r \in 1 .. MaxClaims : new.call[r] = "open" => old.call[r] = "open"
    /\ (old.status = "running" /\ old.left > 0) => new.status \in {"running", "completed", "failed"}
                                                   /\ new.left # NoLease

\* How a review is born: asked for by a delivery or an operator, or in place of one that
\* nobody took or whose reviewer vanished, which ends.
Asked(x, n) ==
    /\ x.root = n /\ x.attempts = 0 /\ x.kind \in {"webhook", "retry"}
    /\ x.kind = "webhook" => Derived(x.head) = {}
Replaces(x, i) ==
    /\ i \in Reviews /\ x.root = review[i].root /\ x.head = review[i].head
    /\ review'[i].status \notin OpenStates
    /\ \/ x.kind = "stranded" /\ x.attempts = 0 /\ review[i].status = "queued" /\ review[i].attempts = 0
       \/ /\ x.kind = "lease" /\ review[i].status = "running"
          /\ x.attempts = review[i].attempts /\ review[i].attempts < RecoveryLimit
          /\ \A r \in 1 .. MaxClaims : review'[i].call[r] # "open"

\* A step on the reviews.
ReviewStep ==
    /\ review' \in Seq(ReviewRow) /\ Len(review') \in {Len(review), Len(review) + 1}
    /\ \A i \in Reviews : Evolved(review[i], review'[i])
    /\ Len(review') = Len(review) + 1 =>
          LET n == Len(review) + 1
          IN  review'[n].status = "queued" /\ (Asked(review'[n], n) \/ \E i \in Reviews : Replaces(review'[n], i))

\* A review that stays as it is, or new fields of one.
LEMMA SameReview == \A old \in ReviewRow : Evolved(old, old)
  BY DEF Evolved, ReviewRow, NoLease

\* The new sequence of reviews, row by row.
LEMMA RowByRow ==
    ASSUME review \in Seq(ReviewRow), NEW base \in [1 .. Len(review) -> ReviewRow],
           NEW x \in ReviewRow, review' \in {base, Append(base, x)}
    PROVE  /\ review' \in Seq(ReviewRow) /\ \A i \in Reviews : review'[i] = base[i]
           /\ review' = base => Len(review') = Len(review)
           /\ review' = Append(base, x) => Len(review') = Len(review) + 1 /\ review'[Len(review) + 1] = x
  <1>1. Len(review) \in Nat /\ Reviews = 1 .. Len(review)
    BY DEF Reviews
  <1>2. base \in Seq(ReviewRow) /\ Len(base) = Len(review)
    BY <1>1
  <1>. QED  BY <1>1, <1>2

\* One review changes, no other is added.
LEMMA OneChanges ==
    ASSUME review \in Seq(ReviewRow), NEW i \in Reviews, NEW r, Evolved(review[i], r),
           review' = [review EXCEPT ![i] = r]
    PROVE  ReviewStep
  <1>0. Len(review) \in Nat /\ Reviews = 1 .. Len(review) /\ r \in ReviewRow
    BY DEF Reviews, Evolved
  <1>1. review' \in Seq(ReviewRow) /\ Len(review') = Len(review)
    BY <1>0
  <1>2. \A j \in Reviews : Evolved(review[j], review'[j])
    BY <1>0, SameReview
  <1>3. Len(review') # Len(review) + 1 /\ Len(review') \in {Len(review), Len(review) + 1}
    <2>1. \A n \in Nat : n # n + 1
      OBVIOUS
    <2>. QED  BY <1>0, <1>1, <2>1, Zenon
  <1>. QED  BY <1>1, <1>2, <1>3, Zenon DEF ReviewStep

\* None changes.
LEMMA NoneChanges ==
    ASSUME review \in Seq(ReviewRow), review' = review
    PROVE  ReviewStep
  <1>0. Len(review) \in Nat /\ Reviews = 1 .. Len(review)
    BY DEF Reviews
  <1>. QED  BY <1>0, SameReview DEF ReviewStep

\* A review is closed without a result: only one whose lease is not live.
LEMMA ClosedEvolves ==
    ASSUME NEW old \in ReviewRow, NEW status \in {"failed", "cancelled"},
           old.status = "queued" \/ (old.status = "running" /\ old.left = 0)
    PROVE  LET new == [old EXCEPT !.status = status, !.left = NoLease]
           IN  Evolved(old, new) /\ new.status = status /\ new.call = old.call
  <1>. DEFINE new == [old EXCEPT !.status = status, !.left = NoLease]
  <1>1. /\ new \in ReviewRow /\ new.head = old.head /\ new.kind = old.kind /\ new.root = old.root
        /\ new.status = status /\ new.attempts = old.attempts /\ new.call = old.call
    BY DEF ReviewRow
  <1>. HIDE DEF new
  <1>2. old.attempts \in Nat
    BY DEF ReviewRow
  <1>3. Evolved(old, new)
    BY <1>1, <1>2 DEF Evolved, OpenStates
  <1>. QED  BY <1>1, <1>3 DEF new

\* A recovery closes the review it found stranded or lost and puts another in its place.
LEMMA RecoverySteps ==
    ASSUME ReviewsTypeOK, NEW i \in Reviews, RecoverStranded(i)
    PROVE  ReviewStep /\ Unlocked(i) /\ \A j \in Reviews \ {i} : review'[j] = review[j]
  <1>0. /\ review \in Seq(ReviewRow) /\ Len(review) \in Nat /\ Reviews = 1 .. Len(review)
        /\ review[i] \in ReviewRow
    BY DEF ReviewsTypeOK, Reviews
  <1>1. review[i].head \in Nat /\ review[i].root \in Nat /\ review[i].attempts \in Nat
    BY <1>0 DEF ReviewRow
  <1>2. Unlocked(i)
    BY DEF RecoverStranded
  <1>3. ASSUME NEW status \in {"failed", "cancelled"}, NEW kind \in {"stranded", "lease"}, NEW n \in Nat,
               review' = Append(ClosedReview(i, status), NewReview(review[i].head, kind, review[i].root, n)),
               review[i].status = "queued" \/ (review[i].status = "running" /\ review[i].left = 0),
               \/ kind = "stranded" /\ n = 0 /\ review[i].status = "queued" /\ review[i].attempts = 0
               \/ /\ kind = "lease" /\ review[i].status = "running" /\ n = review[i].attempts
                  /\ review[i].attempts < RecoveryLimit /\ \A r \in 1 .. MaxClaims : review[i].call[r] # "open"
        PROVE  ReviewStep /\ \A j \in Reviews \ {i} : review'[j] = review[j]
    <2>. DEFINE new == [review[i] EXCEPT !.status = status, !.left = NoLease]
                base == [review EXCEPT ![i] = new]
                x == NewReview(review[i].head, kind, review[i].root, n)
    <2>1. Evolved(review[i], new) /\ new.status = status /\ new.call = review[i].call
      BY <1>0, <1>3, ClosedEvolves
    <2>2. ClosedReview(i, status) = base
      BY <1>0 DEF ClosedReview
    <2>3. /\ x \in ReviewRow /\ x.head = review[i].head /\ x.kind = kind /\ x.root = review[i].root
          /\ x.attempts = n /\ x.status = "queued"
      <3>1. kind \in {"webhook", "stranded", "lease", "retry"}
        OBVIOUS
      <3>. QED  BY <1>1, <3>1, ReviewsAssumption DEF NewReview, ReviewRow, OpenStates, CallStates
    <2>4. new \in ReviewRow
      BY <2>1 DEF Evolved
    <2>. HIDE DEF new, x
    <2>5. base \in [1 .. Len(review) -> ReviewRow] /\ base[i] = new /\ \A j \in Reviews \ {i} : base[j] = review[j]
      BY <1>0, <2>4
    <2>6. review' = Append(base, x)
      BY <1>3, <2>2 DEF x
    <2>. HIDE DEF base
    <2>7. /\ review' \in Seq(ReviewRow) /\ \A j \in Reviews : review'[j] = base[j]
          /\ Len(review') = Len(review) + 1 /\ review'[Len(review) + 1] = x
      BY <1>0, <2>3, <2>5, <2>6, RowByRow
    <2>8. \A j \in Reviews : Evolved(review[j], review'[j])
      BY <1>0, <2>1, <2>5, <2>7, SameReview
    <2>9. review'[i].status = status /\ review'[i].call = review[i].call
      BY <2>1, <2>5, <2>7
    <2>10. Replaces(x, i)
      BY <1>3, <2>3, <2>9 DEF Replaces, OpenStates
    <2>11. x.status = "queued" /\ \E j \in Reviews : Replaces(x, j)
      BY <2>3, <2>10
    <2>. QED  BY <2>5, <2>7, <2>8, <2>11 DEF ReviewStep
  <1>4. CASE Stranded(i)
    <2>1. review' = Append(ClosedReview(i, "cancelled"), NewReview(review[i].head, "stranded", review[i].root, 0))
      BY <1>4 DEF RecoverStranded
    <2>. QED  BY <1>2, <1>3, <1>4, <2>1 DEF Stranded
  <1>5. CASE ~Stranded(i) /\ LeaseLost(i) /\ ~Unresolved(i)
    <2>1. review' = Append(ClosedReview(i, "failed"),
                           NewReview(review[i].head, "lease", review[i].root, review[i].attempts))
      BY <1>5 DEF RecoverStranded, CarriedAttempts
    <2>. QED  BY <1>1, <1>2, <1>3, <1>5, <2>1 DEF LeaseLost, Expired, Unresolved
  <1>6. CASE review' = review
    BY <1>0, <1>2, <1>6, NoneChanges
  <1>. QED  BY <1>4, <1>5, <1>6 DEF RecoverStranded

\* A delivery cancels what it superseded, and asks for the review of its commit unless
\* another delivery has.
LEMMA InsertSteps ==
    ASSUME ReviewsTypeOK, DropsHeld, NEW w \in Hooks, HookInsert(w)
    PROVE  ReviewStep /\ \A j \in Reviews \ hook[w].drops : review'[j] = review[j]
  <1>. DEFINE h == hook[w].head
              base == [i \in Reviews |-> IF i \in hook[w].drops
                                         THEN [review[i] EXCEPT !.status = "cancelled", !.left = NoLease]
                                         ELSE review[i]]
              n == Len(review) + 1
              x == NewReview(h, "webhook", n, 0)
  <1>0. /\ review \in Seq(ReviewRow) /\ Len(review) \in Nat /\ Reviews = 1 .. Len(review) /\ n \in Nat
        /\ h \in Nat /\ \A i \in Reviews : review[i] \in ReviewRow
    BY DEF ReviewsTypeOK, Reviews, HookRow
  <1>1. \A i \in Reviews : Evolved(review[i], base[i])
    <2>. SUFFICES ASSUME NEW i \in Reviews PROVE Evolved(review[i], base[i])
      OBVIOUS
    <2>1. CASE i \in hook[w].drops
      <3>1. review[i].status = "queued" /\ base[i] = [review[i] EXCEPT !.status = "cancelled", !.left = NoLease]
        BY <2>1 DEF DropsHeld
      <3>. QED  BY <1>0, <3>1, ClosedEvolves
    <2>2. CASE i \notin hook[w].drops
      BY <1>0, <2>2, SameReview
    <2>. QED  BY <2>1, <2>2
  <1>2. base \in [1 .. Len(review) -> ReviewRow] /\ \A j \in Reviews \ hook[w].drops : base[j] = review[j]
    <2>1. \A i \in Reviews : base[i] \in ReviewRow
      BY <1>1 DEF Evolved
    <2>. QED  BY <1>0, <2>1
  <1>3. \/ review' = base
        \/ Derived(h) = {} /\ review' = Append(base, x)
    BY DEF HookInsert
  <1>4. x \in ReviewRow /\ x.head = h /\ x.kind = "webhook" /\ x.root = n /\ x.attempts = 0 /\ x.status = "queued"
    <2>. HIDE DEF h, n
    <2>1. 0 \in Nat
      OBVIOUS
    <2>. QED  BY <1>0, <2>1, ReviewsAssumption DEF NewReview, ReviewRow, OpenStates, CallStates
  <1>. HIDE DEF base, x, h, n
  <1>5. review' \in Seq(ReviewRow) /\ \A i \in Reviews : review'[i] = base[i]
    BY <1>0, <1>2, <1>3, <1>4, RowByRow
  <1>6. /\ \A i \in Reviews : Evolved(review[i], review'[i])
        /\ \A j \in Reviews \ hook[w].drops : review'[j] = review[j]
    BY <1>1, <1>2, <1>5
  <1>7. CASE review' = base
    <2>1. Len(review') = Len(review)
      BY <1>0, <1>2, <1>4, <1>7, RowByRow
    <2>2. Len(review') # Len(review) + 1 /\ Len(review') \in {Len(review), Len(review) + 1}
      BY <1>0, <2>1
    <2>. QED  BY <1>5, <1>6, <2>2, Zenon DEF ReviewStep
  <1>8. CASE Derived(h) = {} /\ review' = Append(base, x)
    <2>1. Len(review') = n /\ review'[n] = x
      BY <1>0, <1>2, <1>4, <1>8, RowByRow DEF n
    <2>2. Asked(x, n)
      BY <1>4, <1>8 DEF Asked
    <2>. QED  BY <1>4, <1>5, <1>6, <2>1, <2>2 DEF ReviewStep, n
  <1>. QED  BY <1>3, <1>7, <1>8

\* Claims, renewals, calls and results change one review.
LEMMA ReviewerSteps ==
    ASSUME ReviewsTypeOK, NEW i \in Reviews
    PROVE  /\ ClaimReview(i) => ReviewStep /\ Unlocked(i) /\ \A j \in Reviews \ {i} : review'[j] = review[j]
           /\ RenewReview(i) \/ AskModel(i) \/ CompleteReview(i) \/ (\E r \in 1 .. MaxClaims : ModelAnswers(i, r)) =>
                 /\ ReviewStep /\ \A j \in Reviews \ {i} : review'[j] = review[j]
                 /\ review[i].status = "queued" => review'[i].status = "queued"
  <1>. DEFINE old == review[i]
  <1>0. /\ review \in Seq(ReviewRow) /\ Len(review) \in Nat /\ Reviews = 1 .. Len(review)
        /\ old \in ReviewRow /\ old.attempts \in Nat /\ old.call \in [1 .. MaxClaims -> CallStates]
        /\ old.left \in Nat \cup {NoLease} /\ ReviewLease \in Nat \ {0}
    <2>1. review \in Seq(ReviewRow) /\ Len(review) \in Nat /\ Reviews = 1 .. Len(review) /\ old \in ReviewRow
      BY DEF ReviewsTypeOK, Reviews
    <2>. HIDE DEF old
    <2>2. /\ old.attempts \in Nat /\ old.call \in [1 .. MaxClaims -> CallStates]
          /\ old.left \in Nat \cup {NoLease} /\ ReviewLease \in Nat \ {0}
      BY <2>1, ReviewsAssumption DEF ReviewRow
    <2>. QED  BY <2>1, <2>2
  <1>1. ASSUME NEW new, Evolved(old, new), review' = [review EXCEPT ![i] = new]
        PROVE  ReviewStep /\ review'[i] = new /\ \A j \in Reviews \ {i} : review'[j] = review[j]
    <2>1. ReviewStep
      BY <1>0, <1>1, OneChanges
    <2>2. review'[i] = new /\ \A j \in Reviews \ {i} : review'[j] = review[j]
      BY <1>0, <1>1
    <2>. QED  BY <2>1, <2>2
  <1>2. ASSUME NEW call \in [1 .. MaxClaims -> CallStates], review' = [review EXCEPT ![i] = [old EXCEPT !.call = call]],
               old.status \in OpenStates \/ \A r \in 1 .. MaxClaims : call[r] = "open" => old.call[r] = "open"
        PROVE  ReviewStep /\ review'[i].status = old.status /\ \A j \in Reviews \ {i} : review'[j] = review[j]
    <2>. DEFINE new == [old EXCEPT !.call = call]
    <2>1. /\ new \in ReviewRow /\ new.head = old.head /\ new.kind = old.kind /\ new.root = old.root
          /\ new.status = old.status /\ new.attempts = old.attempts /\ new.call = call /\ new.left = old.left
      BY <1>0 DEF ReviewRow
    <2>. HIDE DEF new
    <2>2. Evolved(old, new)
      BY <1>0, <1>2, <2>1 DEF Evolved, NoLease
    <2>3. review' = [review EXCEPT ![i] = new]
      BY <1>2 DEF new
    <2>. QED  BY <1>1, <2>1, <2>2, <2>3
  <1>3. ASSUME ClaimReview(i) PROVE ReviewStep /\ Unlocked(i) /\ \A j \in Reviews \ {i} : review'[j] = review[j]
    <2>. DEFINE n == old.attempts + 1
                new == [old EXCEPT !.status = "running", !.left = ReviewLease, !.attempts = n]
    <2>0. n \in Nat /\ n > old.attempts
      BY <1>0
    <2>. HIDE DEF n
    <2>1. /\ new \in ReviewRow /\ new.head = old.head /\ new.kind = old.kind /\ new.root = old.root
          /\ new.status = "running" /\ new.attempts = n /\ new.call = old.call /\ new.left = ReviewLease
      BY <1>0, <2>0 DEF ReviewRow, OpenStates
    <2>2. old.status = "queued" \/ (old.status = "running" /\ old.left = 0)
      BY <1>3 DEF ClaimReview, Expired
    <2>3. review' = [review EXCEPT ![i] = new]
      BY <1>0, <1>3 DEF ClaimReview, n
    <2>. HIDE DEF new
    <2>4. Evolved(old, new)
      BY <1>0, <2>0, <2>1, <2>2 DEF Evolved, OpenStates
    <2>. QED  BY <1>1, <1>3, <2>3, <2>4 DEF ClaimReview
  <1>. DEFINE Goal == /\ ReviewStep /\ \A j \in Reviews \ {i} : review'[j] = review[j]
                      /\ review[i].status = "queued" => review'[i].status = "queued"
  <1>4. ASSUME RenewReview(i) PROVE Goal
    <2>. DEFINE new == [old EXCEPT !.left = ReviewLease]
    <2>1. /\ new \in ReviewRow /\ new.head = old.head /\ new.kind = old.kind /\ new.root = old.root
          /\ new.status = old.status /\ new.attempts = old.attempts /\ new.call = old.call /\ new.left = ReviewLease
      BY <1>0 DEF ReviewRow
    <2>2. review' = [review EXCEPT ![i] = new] /\ old.status = "running"
      BY <1>4 DEF RenewReview
    <2>. HIDE DEF new
    <2>3. Evolved(old, new)
      BY <1>0, <2>1, <2>2 DEF Evolved, NoLease
    <2>. QED  BY <1>1, <2>2, <2>3
  <1>5. ASSUME AskModel(i) PROVE Goal
    <2>. DEFINE call == [old.call EXCEPT ![old.attempts] = "open"]
    <2>1. call \in [1 .. MaxClaims -> CallStates]
      BY <1>0 DEF CallStates
    <2>2. review' = [review EXCEPT ![i] = [old EXCEPT !.call = call]] /\ old.status = "running"
      BY <1>5 DEF AskModel
    <2>. HIDE DEF call
    <2>. QED  BY <1>2, <2>1, <2>2 DEF OpenStates
  <1>6. ASSUME NEW r \in 1 .. MaxClaims, ModelAnswers(i, r) PROVE Goal
    <2>1. PICK outcome \in {"accepted", "rejected"} : review' = [review EXCEPT ![i].call[r] = outcome]
      BY <1>6 DEF ModelAnswers
    <2>. DEFINE call == [old.call EXCEPT ![r] = outcome]
    <2>2. call \in [1 .. MaxClaims -> CallStates] /\ \A s \in 1 .. MaxClaims : call[s] = "open" => old.call[s] = "open"
      BY <1>0 DEF CallStates
    <2>3. review' = [review EXCEPT ![i] = [old EXCEPT !.call = call]]
      BY <2>1
    <2>. HIDE DEF call
    <2>. QED  BY <1>2, <2>2, <2>3
  <1>7. ASSUME CompleteReview(i) PROVE Goal
    <2>1. PICK status \in {"failed", "completed"} : review' = [review EXCEPT ![i].status = status]
      BY <1>7 DEF CompleteReview
    <2>. DEFINE new == [old EXCEPT !.status = status]
    <2>2. /\ new \in ReviewRow /\ new.head = old.head /\ new.kind = old.kind /\ new.root = old.root
          /\ new.status = status /\ new.attempts = old.attempts /\ new.call = old.call /\ new.left = old.left
      BY <1>0 DEF ReviewRow
    <2>3. review' = [review EXCEPT ![i] = new] /\ old.status = "running"
      BY <1>7, <2>1 DEF CompleteReview
    <2>. HIDE DEF new
    <2>4. Evolved(old, new)
      BY <1>0, <2>2, <2>3 DEF Evolved, OpenStates, NoLease
    <2>. QED  BY <1>1, <2>3, <2>4
  <1>. QED  BY <1>3, <1>4, <1>5, <1>6, <1>7

\* A retry adds a review.
LEMMA RetrySteps ==
    ASSUME ReviewsTypeOK, NEW i \in Reviews, RetryCodeReview(i)
    PROVE  ReviewStep /\ \A j \in Reviews : review'[j] = review[j]
  <1>. DEFINE n == Len(review) + 1
              h == review[i].head
              x == NewReview(h, "retry", n, 0)
  <1>0. /\ review \in Seq(ReviewRow) /\ review \in [1 .. Len(review) -> ReviewRow] /\ n \in Nat /\ h \in Nat
        /\ Reviews = 1 .. Len(review) /\ 0 \in Nat
    <2>1. /\ review \in Seq(ReviewRow) /\ review \in [1 .. Len(review) -> ReviewRow] /\ n \in Nat
          /\ Reviews = 1 .. Len(review) /\ 0 \in Nat /\ review[i] \in ReviewRow
      BY DEF ReviewsTypeOK, Reviews
    <2>2. h \in Nat
      BY <2>1 DEF ReviewRow
    <2>. QED  BY <2>1, <2>2
  <1>1. x \in ReviewRow /\ x.head = h /\ x.kind = "retry" /\ x.root = n /\ x.attempts = 0 /\ x.status = "queued"
    <2>. HIDE DEF h, n
    <2>. QED  BY <1>0, ReviewsAssumption DEF NewReview, ReviewRow, OpenStates, CallStates
  <1>2. review' = Append(review, x)
    BY DEF RetryCodeReview
  <1>. HIDE DEF x, h
  <1>3. /\ review' \in Seq(ReviewRow) /\ \A j \in Reviews : review'[j] = review[j]
        /\ Len(review') = n /\ review'[n] = x
    BY <1>0, <1>1, <1>2, RowByRow
  <1>4. \A j \in Reviews : Evolved(review[j], review'[j])
    BY <1>0, <1>3, SameReview
  <1>5. Asked(x, n)
    BY <1>1 DEF Asked
  <1>. QED  BY <1>1, <1>3, <1>4, <1>5 DEF ReviewStep

\* Time runs for open reviews, and ends no lease before its time.
LEMMA TickSteps ==
    ASSUME ReviewsTypeOK, ReviewsTick
    PROVE  ReviewStep /\ \A j \in Reviews : review'[j].status = review[j].status
  <1>0. /\ review \in Seq(ReviewRow) /\ Len(review) \in Nat /\ Reviews = 1 .. Len(review)
        /\ \A i \in Reviews : review[i] \in ReviewRow
    BY DEF ReviewsTypeOK, Reviews
  <1>1. ASSUME NEW i \in Reviews PROVE Evolved(review[i], review'[i]) /\ review'[i].status = review[i].status
    <2>. DEFINE old == review[i]
                left == IF old.left > 0 /\ i \in OpenReviews THEN old.left - 1 ELSE old.left
                new == [old EXCEPT !.left = left]
    <2>0. old \in ReviewRow /\ old.left \in Nat \cup {NoLease} /\ old.attempts \in Nat
      BY <1>0 DEF ReviewRow
    <2>1. review'[i] = new
      BY DEF ReviewsTick
    <2>2. left \in Nat \cup {NoLease} /\ (old.left > 0 => left # NoLease)
      BY <2>0 DEF NoLease
    <2>. HIDE DEF left
    <2>3. /\ new \in ReviewRow /\ new.head = old.head /\ new.kind = old.kind /\ new.root = old.root
          /\ new.status = old.status /\ new.attempts = old.attempts /\ new.call = old.call /\ new.left = left
      BY <2>0, <2>2 DEF ReviewRow
    <2>. HIDE DEF new
    <2>4. Evolved(old, new)
      BY <2>0, <2>2, <2>3 DEF Evolved
    <2>. QED  BY <2>1, <2>3, <2>4
  <1>2. review' \in [1 .. Len(review) -> ReviewRow]
    <2>1. DOMAIN review' = Reviews /\ review' = [i \in Reviews |-> review'[i]]
      BY DEF ReviewsTick
    <2>2. \A i \in Reviews : review'[i] \in ReviewRow
      BY <1>1 DEF Evolved
    <2>. QED  BY <1>0, <2>1, <2>2
  <1>3. review' \in Seq(ReviewRow) /\ Len(review') = Len(review)
    BY <1>0, <1>2
  <1>4. Len(review') # Len(review) + 1 /\ Len(review') \in {Len(review), Len(review) + 1}
    <2>1. \A n \in Nat : n # n + 1
      OBVIOUS
    <2>. QED  BY <1>0, <1>3, <2>1, Zenon
  <1>. QED  BY <1>1, <1>3, <1>4, Zenon DEF ReviewStep

\* Reviews are never removed.
LEMMA ReviewsGrow ==
    ASSUME review \in Seq(ReviewRow), ReviewStep
    PROVE  Reviews \subseteq Reviews' /\ Reviews = 1 .. Len(review) /\ Reviews' = 1 .. Len(review')
           /\ Len(review) \in Nat /\ Len(review') \in Nat
  BY DEF ReviewStep, Reviews

\* A delivery that found a review of its commit names the latest.
LEMMA LatestIsReview ==
    ASSUME review \in Seq(ReviewRow), NEW h, Derived(h) # {}
    PROVE  Latest(h) \in Reviews
  <1>1. Len(review) \in Nat /\ Reviews = 1 .. Len(review)
    BY DEF Reviews
  <1>2. ReviewsOf(h) \in SUBSET (1 .. Len(review)) /\ ReviewsOf(h) # {}
    BY <1>1 DEF ReviewsOf, Derived
  <1>3. Max(ReviewsOf(h)) \in ReviewsOf(h)
    BY <1>1, <1>2, Greatest
  <1>. QED  BY <1>3 DEF Latest, ReviewsOf

\* A step of a delivery that changes nothing else.
HookMoves(w, c) ==
    /\ c \in HookRow /\ hook' = [hook EXCEPT ![w] = c]
    /\ c.pc = "recover" => c.seen \in Reviews

\* Deliveries keep their types where the reviews only grow.
LEMMA HookTypes ==
    ASSUME ReviewsTypeOK, ReviewStep, NEW w \in Hooks, NEW c, HookMoves(w, c)
    PROVE  hook' \in [Hooks -> HookRow] /\ \A v \in Hooks : hook'[v].pc = "recover" => hook'[v].seen \in Reviews'
  <1>1. hook \in [Hooks -> HookRow] /\ review \in Seq(ReviewRow)
    BY DEF ReviewsTypeOK
  <1>2. Reviews \subseteq Reviews'
    BY <1>1, ReviewsGrow
  <1>3. hook'[w] = c /\ \A v \in Hooks \ {w} : hook'[v] = hook[v]
    BY <1>1 DEF HookMoves
  <1>. QED  BY <1>1, <1>2, <1>3 DEF HookMoves, ReviewsTypeOK

\* What a delivery reads, finds and holds.
LEMMA HookSteps ==
    ASSUME ReviewsTypeOK, NEW w \in Hooks
    PROVE  /\ HookRead(w) => \E c : HookMoves(w, c) /\ c.drops = {}
           /\ HookLookup(w) => \E c : HookMoves(w, c) /\ c.drops = hook[w].drops
           /\ HookSupersede(w) => \E c : HookMoves(w, c) /\ c.drops = Superseded(hook[w].head)
           /\ HookRecover(w) \/ HookInsert(w) \/ HookFails(w) => \E c : HookMoves(w, c) /\ c.drops = {}
  <1>0. /\ hook \in [Hooks -> HookRow] /\ hook[w] \in HookRow /\ review \in Seq(ReviewRow)
        /\ pull.head \in Nat
    BY DEF ReviewsTypeOK
  <1>1. ASSUME HookRead(w) PROVE \E c : HookMoves(w, c) /\ c.drops = {}
    <2>. DEFINE c == [IdleHook EXCEPT !.pc = "lookup", !.head = pull.head]
    <2>1. c \in HookRow /\ c.pc = "lookup" /\ c.drops = {}
      BY <1>0 DEF IdleHook, HookRow
    <2>2. hook' = [hook EXCEPT ![w] = c]
      BY <1>1 DEF HookRead
    <2>. HIDE DEF c
    <2>. QED  BY <2>1, <2>2 DEF HookMoves
  <1>2. ASSUME HookLookup(w) PROVE \E c : HookMoves(w, c) /\ c.drops = hook[w].drops
    <2>1. CASE Derived(hook[w].head) = {}
      <3>. DEFINE c == [hook[w] EXCEPT !.pc = "supersede"]
      <3>1. c \in HookRow /\ c.pc = "supersede" /\ c.drops = hook[w].drops
        BY <1>0 DEF HookRow
      <3>2. hook' = [hook EXCEPT ![w] = c]
        BY <1>2, <2>1 DEF HookLookup
      <3>. HIDE DEF c
      <3>. QED  BY <3>1, <3>2 DEF HookMoves
    <2>2. CASE Derived(hook[w].head) # {}
      <3>. DEFINE s == Latest(hook[w].head)
                  c == [hook[w] EXCEPT !.pc = "recover", !.seen = s]
      <3>0. s \in Reviews /\ s \in Nat
        <4>1. s \in Reviews
          BY <1>0, <2>2, LatestIsReview
        <4>. QED  BY <1>0, <4>1 DEF Reviews
      <3>1. hook' = [hook EXCEPT ![w] = c]
        BY <1>2, <2>2 DEF HookLookup
      <3>. HIDE DEF s
      <3>2. c \in HookRow /\ c.pc = "recover" /\ c.seen = s /\ c.drops = hook[w].drops
        BY <1>0, <3>0 DEF HookRow
      <3>. HIDE DEF c
      <3>. QED  BY <3>0, <3>1, <3>2 DEF HookMoves
    <2>. QED  BY <2>1, <2>2
  <1>3. ASSUME HookSupersede(w) PROVE \E c : HookMoves(w, c) /\ c.drops = Superseded(hook[w].head)
    <2>. DEFINE s == Superseded(hook[w].head)
                c == [hook[w] EXCEPT !.pc = "insert", !.drops = s]
    <2>0. s \in SUBSET Nat
      <3>1. Reviews \subseteq Nat
        BY <1>0 DEF Reviews
      <3>. QED  BY <3>1 DEF Superseded
    <2>1. hook' = [hook EXCEPT ![w] = c]
      BY <1>0, <1>3 DEF HookSupersede
    <2>. HIDE DEF s
    <2>2. c \in HookRow /\ c.pc = "insert" /\ c.drops = s
      BY <1>0, <2>0 DEF HookRow
    <2>. HIDE DEF c
    <2>. QED  BY <2>1, <2>2 DEF HookMoves, s
  <1>4. ASSUME HookRecover(w) \/ HookInsert(w) \/ HookFails(w) PROVE \E c : HookMoves(w, c) /\ c.drops = {}
    <2>1. DoneHook \in HookRow /\ DoneHook.pc = "done" /\ DoneHook.drops = {}
      BY DEF DoneHook, IdleHook, HookRow
    <2>2. hook' = [hook EXCEPT ![w] = DoneHook]
      BY <1>4 DEF HookRecover, HookInsert, HookFails
    <2>. QED  BY <2>1, <2>2 DEF HookMoves
  <1>. QED  BY <1>1, <1>2, <1>3, <1>4

\* Polls keep their types where the reviews only grow.
LEMMA PollTypes ==
    ASSUME ReviewsTypeOK, ReviewStep, NEW p \in Pollers, NEW c \in PollRow, poll' = [poll EXCEPT ![p] = c],
           c.pc \notin {"idle", "done"} => c.id \in Reviews
    PROVE  poll' \in [Pollers -> PollRow]
           /\ \A q \in Pollers : poll'[q].pc \notin {"idle", "done"} => poll'[q].id \in Reviews'
  <1>1. poll \in [Pollers -> PollRow] /\ review \in Seq(ReviewRow)
    BY DEF ReviewsTypeOK
  <1>2. Reviews \subseteq Reviews'
    BY <1>1, ReviewsGrow
  <1>3. poll'[p] = c /\ \A q \in Pollers \ {p} : poll'[q] = poll[q]
    BY <1>1
  <1>. QED  BY <1>1, <1>2, <1>3 DEF ReviewsTypeOK

\* What a poll picks, learns and does.
LEMMA PollSteps ==
    ASSUME ReviewsTypeOK, NEW p \in Pollers, PollPick(p) \/ PollAsk(p) \/ PollAct(p) \/ PollFails(p)
    PROVE  /\ \E c \in PollRow : poll' = [poll EXCEPT ![p] = c] /\ (c.pc \notin {"idle", "done"} => c.id \in Reviews)
           /\ ReviewStep
           /\ \A j \in Reviews : review'[j] = review[j] \/ Unlocked(j)
  <1>0. /\ poll \in [Pollers -> PollRow] /\ poll[p] \in PollRow /\ review \in Seq(ReviewRow)
        /\ Reviews \subseteq Nat /\ \A i \in Reviews : review[i] \in ReviewRow
    BY DEF ReviewsTypeOK, Reviews
  <1>1. ASSUME PollPick(p)
        PROVE  \E c \in PollRow : poll' = [poll EXCEPT ![p] = c] /\ (c.pc \notin {"idle", "done"} => c.id \in Reviews)
    <2>1. PICK i \in Reviews : \E pc \in {"fail", "ask"} : poll' = [poll EXCEPT ![p] = [pc |-> pc, id |-> i]]
      BY <1>1 DEF PollPick
    <2>2. PICK pc \in {"fail", "ask"} : poll' = [poll EXCEPT ![p] = [pc |-> pc, id |-> i]]
      BY <2>1
    <2>3. [pc |-> pc, id |-> i] \in PollRow
      BY <1>0 DEF PollRow
    <2>. QED  BY <2>2, <2>3
  <1>2. ASSUME PollAsk(p)
        PROVE  \E c \in PollRow : poll' = [poll EXCEPT ![p] = c] /\ (c.pc \notin {"idle", "done"} => c.id \in Reviews)
    <2>1. PICK pc \in {"recover", "retire"} : poll' = [poll EXCEPT ![p].pc = pc]
      BY <1>2 DEF PollAsk
    <2>. DEFINE c == [poll[p] EXCEPT !.pc = pc]
    <2>2. c \in PollRow /\ c.id = poll[p].id
      BY <1>0 DEF PollRow
    <2>3. poll[p].id \in Reviews
      BY <1>2 DEF PollAsk, ReviewsTypeOK
    <2>4. poll' = [poll EXCEPT ![p] = c]
      BY <2>1
    <2>. HIDE DEF c
    <2>. QED  BY <2>2, <2>3, <2>4
  <1>3. DonePoll \in PollRow /\ DonePoll.pc = "done"
    BY DEF DonePoll, IdlePoll, PollRow
  <1>4. ASSUME PollAct(p) PROVE ReviewStep /\ \A j \in Reviews : review'[j] = review[j] \/ Unlocked(j)
    <2>. DEFINE i == poll[p].id
    <2>0. i \in Reviews
      BY <1>4 DEF PollAct, ReviewsTypeOK
    <2>1. CASE RecoverStranded(i)
      BY <2>0, <2>1, RecoverySteps
    <2>2. CASE review' = review
      BY <1>0, <2>2, NoneChanges
    <2>3. ASSUME NEW status \in {"failed", "cancelled"}, Unlocked(i), Expired(i), review' = ClosedReview(i, status)
          PROVE  ReviewStep /\ \A j \in Reviews : review'[j] = review[j] \/ Unlocked(j)
      <3>. DEFINE new == [review[i] EXCEPT !.status = status, !.left = NoLease]
      <3>1. Evolved(review[i], new)
        BY <1>0, <2>0, <2>3, ClosedEvolves DEF Expired
      <3>2. review' = [review EXCEPT ![i] = new]
        BY <1>0, <2>0, <2>3 DEF ClosedReview
      <3>. HIDE DEF new
      <3>3. ReviewStep
        BY <1>0, <2>0, <3>1, <3>2, OneChanges
      <3>4. \A j \in Reviews \ {i} : review'[j] = review[j]
        BY <1>0, <3>2
      <3>. QED  BY <2>3, <3>3, <3>4
    <2>4. \/ RecoverStranded(i) \/ review' = review
          \/ \E status \in {"failed", "cancelled"} : Unlocked(i) /\ Expired(i) /\ review' = ClosedReview(i, status)
      BY <1>4 DEF PollAct, Exhausted, LeaseLost
    <2>. HIDE DEF i
    <2>. QED  BY <2>1, <2>2, <2>3, <2>4
  <1>5. ASSUME PollPick(p) \/ PollAsk(p) \/ PollFails(p)
        PROVE  ReviewStep /\ \A j \in Reviews : review'[j] = review[j] \/ Unlocked(j)
    <2>1. review' = review
      BY <1>5 DEF PollPick, PollAsk, PollFails
    <2>. QED  BY <1>0, <2>1, NoneChanges
  <1>6. ASSUME PollAct(p) \/ PollFails(p)
        PROVE  \E c \in PollRow : poll' = [poll EXCEPT ![p] = c] /\ (c.pc \notin {"idle", "done"} => c.id \in Reviews)
    <2>1. poll' = [poll EXCEPT ![p] = DonePoll]
      BY <1>6 DEF PollAct, PollFails
    <2>. QED  BY <1>3, <2>1
  <1>. QED  BY <1>1, <1>2, <1>4, <1>5, <1>6

\* Reviews that no delivery holds may change; those it holds stay queued.
LEMMA DropsKept ==
    ASSUME ReviewsTypeOK, DropsHeld, ReviewStep, hook' = hook,
           \A j \in Reviews : \/ review'[j].status = review[j].status \/ Unlocked(j)
                              \/ review[j].status = "queued" => review'[j].status = "queued"
    PROVE  DropsHeld'
  <1>0. hook \in [Hooks -> HookRow] /\ Reviews \subseteq Reviews'
    BY ReviewsGrow DEF ReviewsTypeOK
  <1>1. \A w \in Hooks : \A i \in hook[w].drops : ~Unlocked(i)
    BY <1>0 DEF Unlocked
  <1>. QED  BY <1>0, <1>1 DEF DropsHeld

\* The same for a step of a delivery, whose own drops are new or gone.
LEMMA DropsTaken ==
    ASSUME ReviewsTypeOK, DropsHeld, ReviewStep, NEW w \in Hooks, NEW c, HookMoves(w, c),
           \A i \in c.drops : i \in Reviews /\ review'[i].status = "queued" /\ \A v \in Hooks \ {w} : i \notin hook[v].drops,
           \A v \in Hooks \ {w} : \A i \in hook[v].drops : review'[i].status = review[i].status
    PROVE  DropsHeld'
  <1>0. hook \in [Hooks -> HookRow] /\ Reviews \subseteq Reviews'
    BY ReviewsGrow DEF ReviewsTypeOK
  <1>1. hook'[w] = c /\ \A v \in Hooks \ {w} : hook'[v] = hook[v]
    BY <1>0 DEF HookMoves
  <1>2. ASSUME NEW i \in hook'[w].drops
        PROVE  i \in Reviews' /\ review'[i].status = "queued" /\ \A v \in Hooks \ {w} : i \notin hook'[v].drops
    BY <1>0, <1>1, <1>2
  <1>3. ASSUME NEW v \in Hooks \ {w}, NEW i \in hook'[v].drops
        PROVE  i \in Reviews' /\ review'[i].status = "queued" /\ \A u \in Hooks \ {v} : i \notin hook'[u].drops
    <2>1. i \in Reviews /\ review[i].status = "queued" /\ \A u \in Hooks \ {v} : i \notin hook[u].drops
      BY <1>1, <1>3 DEF DropsHeld
    <2>2. review'[i].status = review[i].status
      BY <1>1, <1>3
    <2>3. i \notin c.drops
      BY <1>1, <1>3
    <2>. QED  BY <1>0, <1>1, <2>1, <2>2, <2>3
  <1>. QED  BY <1>2, <1>3 DEF DropsHeld

\* Every step is one on the reviews, keeps the types and what deliveries hold.
LEMMA ReviewsStepLemma ==
    ASSUME ReviewsTypeOK, DropsHeld, [ReviewsNext]_reviewVars
    PROVE  ReviewStep /\ ReviewsTypeOK' /\ DropsHeld'
  <1>. DEFINE Goal == ReviewStep /\ ReviewsTypeOK' /\ DropsHeld'
  <1>0. /\ DOMAIN hook = Hooks /\ DOMAIN poll = Pollers /\ hook \in [Hooks -> HookRow] /\ poll \in [Pollers -> PollRow]
        /\ review \in Seq(ReviewRow) /\ retries \in Nat /\ pull \in [head : Nat, last : Nat, open : BOOLEAN]
    BY DEF ReviewsTypeOK
  <1>1. ASSUME ReviewStep, hook' = hook, poll' = poll, retries' \in Nat,
               pull' \in [head : Nat, last : Nat, open : BOOLEAN],
               \A j \in Reviews : \/ review'[j].status = review[j].status \/ Unlocked(j)
                                  \/ review[j].status = "queued" => review'[j].status = "queued"
        PROVE  Goal
    <2>1. Reviews \subseteq Reviews'
      BY <1>0, <1>1, ReviewsGrow
    <2>2. ReviewsTypeOK'
      BY <1>0, <1>1, <2>1 DEF ReviewsTypeOK, ReviewStep
    <2>. QED  BY <1>1, <2>2, DropsKept
  <1>2. ASSUME UNCHANGED reviewVars PROVE Goal
    <2>1. review' = review /\ hook' = hook /\ poll' = poll /\ retries' = retries /\ pull' = pull
      BY <1>2 DEF reviewVars
    <2>. QED  BY <1>0, <1>1, <2>1, NoneChanges
  <1>3. ASSUME Push \/ ClosePull PROVE Goal
    <2>1. review' = review /\ hook' = hook /\ poll' = poll /\ retries' = retries
      BY <1>3 DEF Push, ClosePull
    <2>2. pull' \in [head : Nat, last : Nat, open : BOOLEAN]
      <3>1. pull.head + 1 \in Nat
        BY <1>0
      <3>. QED  BY <1>0, <1>3, <3>1 DEF Push, ClosePull
    <2>. QED  BY <1>0, <1>1, <2>1, <2>2, NoneChanges
  <1>4. ASSUME ReviewsTick PROVE Goal
    <2>1. hook' = hook /\ poll' = poll /\ retries' = retries /\ pull' = pull
      BY <1>4 DEF ReviewsTick
    <2>. QED  BY <1>0, <1>1, <1>4, <2>1, TickSteps
  <1>5. ASSUME NEW i \in Reviews, \/ ClaimReview(i) \/ RenewReview(i) \/ AskModel(i) \/ CompleteReview(i)
                                  \/ \E r \in 1 .. MaxClaims : ModelAnswers(i, r)
        PROVE  Goal
    <2>1. hook' = hook /\ poll' = poll /\ retries' = retries /\ pull' = pull
      BY <1>5 DEF ClaimReview, RenewReview, AskModel, CompleteReview, ModelAnswers
    <2>2. /\ ReviewStep /\ \A j \in Reviews \ {i} : review'[j] = review[j]
          /\ Unlocked(i) \/ (review[i].status = "queued" => review'[i].status = "queued")
      BY <1>5, ReviewerSteps
    <2>. QED  BY <1>0, <1>1, <2>1, <2>2
  <1>6. ASSUME NEW i \in Reviews, RetryCodeReview(i) PROVE Goal
    <2>1. hook' = hook /\ poll' = poll /\ retries' \in Nat /\ pull' = pull
      BY <1>0, <1>6 DEF RetryCodeReview
    <2>. QED  BY <1>0, <1>1, <1>6, <2>1, RetrySteps
  <1>7. ASSUME NEW p \in Pollers, PollPick(p) \/ PollAsk(p) \/ PollAct(p) \/ PollFails(p) PROVE Goal
    <2>1. hook' = hook /\ retries' = retries /\ pull' = pull
      BY <1>7 DEF PollPick, PollAsk, PollAct, PollFails
    <2>2. PICK c \in PollRow : poll' = [poll EXCEPT ![p] = c] /\ (c.pc \notin {"idle", "done"} => c.id \in Reviews)
      BY <1>7, PollSteps
    <2>3. ReviewStep /\ \A j \in Reviews : review'[j] = review[j] \/ Unlocked(j)
      BY <1>7, PollSteps
    <2>4. /\ poll' \in [Pollers -> PollRow]
          /\ \A q \in Pollers : poll'[q].pc \notin {"idle", "done"} => poll'[q].id \in Reviews'
      BY <2>2, <2>3, PollTypes
    <2>5. Reviews \subseteq Reviews'
      BY <1>0, <2>3, ReviewsGrow
    <2>6. ReviewsTypeOK'
      BY <1>0, <2>1, <2>3, <2>4, <2>5 DEF ReviewsTypeOK, ReviewStep
    <2>. QED  BY <2>1, <2>3, <2>6, DropsKept
  <1>8. ASSUME NEW w \in Hooks, NEW c, HookMoves(w, c), ReviewStep, poll' = poll, retries' = retries, pull' = pull,
               \A i \in c.drops : i \in Reviews /\ review'[i].status = "queued" /\ \A v \in Hooks \ {w} : i \notin hook[v].drops,
               \A v \in Hooks \ {w} : \A i \in hook[v].drops : review'[i].status = review[i].status
        PROVE  Goal
    <2>1. Reviews \subseteq Reviews'
      BY <1>0, <1>8, ReviewsGrow
    <2>2. /\ hook' \in [Hooks -> HookRow]
          /\ \A v \in Hooks : hook'[v].pc = "recover" => hook'[v].seen \in Reviews'
      BY <1>8, HookTypes
    <2>3. ReviewsTypeOK'
      BY <1>0, <1>8, <2>1, <2>2 DEF ReviewsTypeOK, ReviewStep
    <2>. QED  BY <1>8, <2>3, DropsTaken
  <1>9. ASSUME NEW w \in Hooks, HookRead(w) \/ HookLookup(w) \/ HookSupersede(w) \/ HookFails(w) PROVE Goal
    <2>1. review' = review /\ poll' = poll /\ retries' = retries /\ pull' = pull
      BY <1>9 DEF HookRead, HookLookup, HookSupersede, HookFails
    <2>2. ReviewStep
      BY <1>0, <2>1, NoneChanges
    <2>3. CASE HookRead(w) \/ HookFails(w)
      <3>1. PICK c : HookMoves(w, c) /\ c.drops = {}
        BY <2>3, HookSteps
      <3>. QED  BY <1>8, <2>1, <2>2, <3>1
    <2>4. CASE HookLookup(w)
      <3>1. PICK c : HookMoves(w, c) /\ c.drops = hook[w].drops
        BY <2>4, HookSteps
      <3>. QED  BY <1>8, <2>1, <2>2, <3>1 DEF DropsHeld
    <2>5. CASE HookSupersede(w)
      <3>1. PICK c : HookMoves(w, c) /\ c.drops = Superseded(hook[w].head)
        BY <2>5, HookSteps
      <3>2. \A i \in c.drops : i \in Reviews /\ review[i].status = "queued" /\ Unlocked(i)
        BY <2>5, <3>1 DEF HookSupersede, Superseded
      <3>. QED  BY <1>0, <1>8, <2>1, <2>2, <3>1, <3>2 DEF Unlocked
    <2>. QED  BY <1>9, <2>3, <2>4, <2>5
  <1>10. ASSUME NEW w \in Hooks, HookRecover(w) PROVE Goal
    <2>1. poll' = poll /\ retries' = retries /\ pull' = pull
      BY <1>10 DEF HookRecover
    <2>2. PICK c : HookMoves(w, c) /\ c.drops = {}
      BY <1>10, HookSteps
    <2>. DEFINE i == hook[w].seen
    <2>3. i \in Reviews /\ RecoverStranded(i)
      BY <1>10 DEF HookRecover, ReviewsTypeOK
    <2>. HIDE DEF i
    <2>4. ReviewStep /\ Unlocked(i) /\ \A j \in Reviews \ {i} : review'[j] = review[j]
      BY <2>3, RecoverySteps
    <2>5. \A v \in Hooks \ {w} : \A j \in hook[v].drops : review'[j].status = review[j].status
      BY <1>0, <2>4 DEF Unlocked, DropsHeld
    <2>. QED  BY <1>8, <2>1, <2>2, <2>4, <2>5
  <1>11. ASSUME NEW w \in Hooks, HookInsert(w) PROVE Goal
    <2>1. poll' = poll /\ retries' = retries /\ pull' = pull
      BY <1>11 DEF HookInsert
    <2>2. PICK c : HookMoves(w, c) /\ c.drops = {}
      BY <1>11, HookSteps
    <2>3. ReviewStep /\ \A j \in Reviews \ hook[w].drops : review'[j] = review[j]
      BY <1>11, InsertSteps
    <2>4. \A v \in Hooks \ {w} : \A j \in hook[v].drops : review'[j].status = review[j].status
      BY <2>3 DEF DropsHeld
    <2>. QED  BY <1>8, <2>1, <2>2, <2>3, <2>4
  <1>. HIDE DEF Goal
  <1>12. ASSUME NEW w \in Hooks, \/ HookRead(w) \/ HookLookup(w) \/ HookRecover(w)
                                 \/ HookSupersede(w) \/ HookInsert(w) \/ HookFails(w)
         PROVE  Goal
    BY <1>9, <1>10, <1>11, <1>12, Zenon
  <1>13. ASSUME NEW i \in Reviews, \/ ClaimReview(i) \/ RenewReview(i) \/ AskModel(i)
                                   \/ CompleteReview(i) \/ RetryCodeReview(i)
                                   \/ \E r \in 1 .. MaxClaims : ModelAnswers(i, r)
         PROVE  Goal
    BY <1>5, <1>6, <1>13, Zenon
  <1>14. ASSUME ReviewsNext PROVE Goal
    <2>1. ASSUME \E w \in DOMAIN hook : \/ HookRead(w) \/ HookLookup(w) \/ HookRecover(w)
                                        \/ HookSupersede(w) \/ HookInsert(w) \/ HookFails(w)
          PROVE  Goal
      <3>1. PICK w \in DOMAIN hook : \/ HookRead(w) \/ HookLookup(w) \/ HookRecover(w)
                                     \/ HookSupersede(w) \/ HookInsert(w) \/ HookFails(w)
        BY <2>1, Zenon
      <3>2. w \in Hooks
        BY <1>0
      <3>. QED  BY <1>12, <3>1, <3>2, Zenon
    <2>2. ASSUME \E p \in DOMAIN poll : PollPick(p) \/ PollAsk(p) \/ PollAct(p) \/ PollFails(p)
          PROVE  Goal
      <3>1. PICK p \in DOMAIN poll : PollPick(p) \/ PollAsk(p) \/ PollAct(p) \/ PollFails(p)
        BY <2>2, Zenon
      <3>2. p \in Pollers
        BY <1>0
      <3>. QED  BY <1>7, <3>1, <3>2, Zenon
    <2>. QED  BY <1>3, <1>4, <1>13, <1>14, <2>1, <2>2, Zenon DEF ReviewsNext
  <1>15. Goal
    BY <1>2, <1>14, Zenon
  <1>. QED  BY <1>15 DEF Goal

(* The lines of reviews: a review asked for, and those that replace it one after the other. *)

\* A line begins with a review of its commit that was asked for.
LinesRooted ==
    \A i \in Reviews :
        /\ review[i].root \in Reviews /\ review[i].root <= i /\ review[review[i].root].root = review[i].root
        /\ review[review[i].root].kind \in {"webhook", "retry"}
        /\ review[review[i].root].head = review[i].head

\* Only the last review of a line is open.
OpenIsLast ==
    \A i, j \in Reviews :
        review[i].root = review[j].root /\ review[i].status \in OpenStates => j <= i

\* A commit's deliveries ask for one review.
OneWebhook ==
    \A i, j \in Reviews :
        review[i].kind = "webhook" /\ review[j].kind = "webhook" /\ review[i].head = review[j].head => i = j

\* A review that replaced one whose reviewer vanished: all before it in its line ended, and
\* none of them waits for a model.
ReplacedAnswered ==
    \A i, j \in Reviews :
        (review[j].kind = "lease" /\ review[i].root = review[j].root /\ i < j
           /\ \A k \in Reviews : review[k].root = review[j].root /\ k < j => k <= i) =>
        /\ review[i].status \notin OpenStates
        /\ \A r \in 1 .. MaxClaims : review[i].call[r] # "open"

\* The lost leases of a line, which the claims of its open review cover.
Leases(root) == {i \in Reviews : review[i].root = root /\ review[i].kind = "lease"}
LeasesCovered ==
    /\ \A root \in Nat : Cardinality(Leases(root)) < RecoveryLimit
    /\ \A i \in Reviews :
        /\ review[i].status = "queued" => Cardinality(Leases(review[i].root)) <= review[i].attempts
        /\ review[i].status = "running" => Cardinality(Leases(review[i].root)) + 1 <= review[i].attempts

\* A new review: queued, and asked for or in place of another.
Born(n) == /\ review'[n].status = "queued"
           /\ Asked(review'[n], n) \/ \E i \in Reviews : Replaces(review'[n], i)

\* The rows after a step: the old ones, and a new one at the end.
LEMMA StepRows ==
    ASSUME review \in Seq(ReviewRow), ReviewStep
    PROVE  /\ Len(review) \in Nat /\ Reviews = 1 .. Len(review) /\ review' \in Seq(ReviewRow)
           /\ \A i \in Reviews : review[i] \in ReviewRow /\ Evolved(review[i], review'[i])
           /\ \A i \in Reviews' : review'[i] \in ReviewRow
           /\ Reviews \subseteq Reviews'
           /\ \A i \in Reviews' : \/ i \in Reviews
                                 \/ (i = Len(review) + 1 /\ Born(Len(review) + 1))
           /\ \/ Reviews' = Reviews
              \/ (Reviews' = Reviews \cup {Len(review) + 1} /\ Born(Len(review) + 1))
  <1>1. /\ Len(review) \in Nat /\ Reviews = 1 .. Len(review) /\ review' \in Seq(ReviewRow)
        /\ Len(review') \in {Len(review), Len(review) + 1} /\ Reviews' = 1 .. Len(review')
    BY DEF ReviewStep, Reviews
  <1>2. \A i \in Reviews : review[i] \in ReviewRow /\ Evolved(review[i], review'[i])
    BY <1>1 DEF ReviewStep
  <1>3. \A i \in Reviews' : review'[i] \in ReviewRow
    BY <1>1
  <1>4. CASE Len(review') = Len(review)
    <2>1. Reviews' = Reviews
      BY <1>1, <1>4
    <2>2. Reviews \subseteq Reviews' /\ \A i \in Reviews' : i \in Reviews
      BY <2>1
    <2>. QED  BY <1>1, <1>2, <1>3, <2>1, <2>2
  <1>5. CASE Len(review') = Len(review) + 1
    <2>1. Reviews' = Reviews \cup {Len(review) + 1}
      BY <1>1, <1>5
    <2>2. Born(Len(review) + 1)
      BY <1>5, Zenon DEF ReviewStep, Born
    <2>. QED  BY <1>1, <1>2, <1>3, <2>1, <2>2, Zenon
  <1>. QED  BY <1>1, <1>4, <1>5

\* A review keeps its commit, its kind and its line.
LEMMA Inherited ==
    ASSUME NEW old, NEW new, Evolved(old, new)
    PROVE  /\ new.head = old.head /\ new.kind = old.kind /\ new.root = old.root
           /\ new.status \in OpenStates => old.status \in OpenStates
  BY DEF Evolved

\* Lines keep their roots.
LEMMA RootsStep ==
    ASSUME review \in Seq(ReviewRow), ReviewStep, LinesRooted
    PROVE  LinesRooted'
  <1>. DEFINE n == Len(review) + 1
  <1>1. \A i \in Reviews : review'[i].head = review[i].head /\ review'[i].kind = review[i].kind
                           /\ review'[i].root = review[i].root
    BY StepRows, Inherited
  <1>0. n \in Nat /\ Reviews = 1 .. n - 1
    BY StepRows
  <1>2. /\ Reviews \subseteq Reviews'
        /\ \A i \in Reviews' : i \in Reviews \/ (i = n /\ Born(n))
    BY StepRows, Zenon
  <1>. HIDE DEF n
  <1>3. ASSUME NEW i \in Reviews
        PROVE  /\ review'[i].root \in Reviews' /\ review'[i].root <= i /\ review'[review'[i].root].root = review'[i].root
               /\ review'[review'[i].root].kind \in {"webhook", "retry"}
               /\ review'[review'[i].root].head = review'[i].head
    BY <1>1, <1>2 DEF LinesRooted
  <1>4. ASSUME n \in Reviews', Asked(review'[n], n)
        PROVE  /\ review'[n].root \in Reviews' /\ review'[n].root <= n /\ review'[review'[n].root].root = review'[n].root
               /\ review'[review'[n].root].kind \in {"webhook", "retry"}
               /\ review'[review'[n].root].head = review'[n].head
    BY <1>0, <1>4 DEF Asked
  <1>5. ASSUME NEW k \in Reviews, Replaces(review'[n], k)
        PROVE  /\ review'[n].root \in Reviews' /\ review'[n].root <= n /\ review'[review'[n].root].root = review'[n].root
               /\ review'[review'[n].root].kind \in {"webhook", "retry"}
               /\ review'[review'[n].root].head = review'[n].head
    <2>1. review'[n].root = review'[k].root /\ review'[n].head = review'[k].head
      BY <1>1, <1>5 DEF Replaces
    <2>2. review'[k].root <= k /\ k <= n /\ review'[k].root \in Reviews
      BY <1>0, <1>1 DEF LinesRooted
    <2>3. review'[n].root <= n
      BY <1>0, <2>1, <2>2
    <2>. QED  BY <1>3, <2>1, <2>3
  <1>. QED  BY <1>2, <1>3, <1>4, <1>5 DEF LinesRooted, Born

\* A line grows at its end, where the open review was.
LEMMA OpenStep ==
    ASSUME review \in Seq(ReviewRow), ReviewStep, LinesRooted, OpenIsLast
    PROVE  OpenIsLast'
  <1>. DEFINE n == Len(review) + 1
  <1>1. \A i \in Reviews : review'[i].root = review[i].root
                           /\ (review'[i].status \in OpenStates => review[i].status \in OpenStates)
    BY StepRows, Inherited
  <1>0. n \in Nat /\ Reviews = 1 .. n - 1
    BY StepRows
  <1>2. /\ n \in Nat /\ Reviews = 1 .. n - 1
        /\ \A i \in Reviews' : i \in Reviews \/ (i = n /\ Born(n))
    BY <1>0, StepRows, Zenon
  <1>. HIDE DEF n
  <1>3. ASSUME NEW i \in Reviews, n \in Reviews', review'[i].root = review'[n].root
        PROVE  review'[i].status \notin OpenStates
    <2>1. CASE Asked(review'[n], n)
      BY <1>1, <1>2, <1>3, <2>1 DEF Asked, LinesRooted
    <2>2. ASSUME NEW k \in Reviews, Replaces(review'[n], k)
          PROVE  review'[i].status \notin OpenStates
      <3>1. /\ review'[n].root = review[k].root /\ review'[k].status \notin OpenStates
            /\ review[k].status \in OpenStates
        BY <2>2 DEF Replaces, OpenStates
      <3>2. i <= k
        BY <1>1, <1>3, <3>1 DEF OpenIsLast
      <3>3. review[i].status \in OpenStates => k <= i
        BY <1>1, <1>3, <3>1 DEF OpenIsLast
      <3>. QED  BY <1>1, <1>2, <3>1, <3>2, <3>3
    <2>. QED  BY <1>2, <1>3, <2>1, <2>2 DEF Born
  <1>4. ASSUME NEW i \in Reviews', NEW j \in Reviews', review'[i].root = review'[j].root, review'[i].status \in OpenStates
        PROVE  j <= i
    <2>1. CASE i \in Reviews /\ j \in Reviews
      BY <1>1, <1>4, <2>1 DEF OpenIsLast
    <2>2. CASE i \in Reviews /\ j = n
      BY <1>3, <1>4, <2>2
    <2>3. CASE i = n
      BY <1>2, <2>3
    <2>. QED  BY <1>2, <2>1, <2>2, <2>3
  <1>. QED  BY <1>4 DEF OpenIsLast

\* Who asks for a review under a commit's own id found none.
LEMMA WebhookStep ==
    ASSUME review \in Seq(ReviewRow), ReviewStep, OneWebhook
    PROVE  OneWebhook'
  <1>. DEFINE n == Len(review) + 1
  <1>1. \A i \in Reviews : review'[i].kind = review[i].kind /\ review'[i].head = review[i].head
    BY StepRows, Inherited
  <1>2. \A i \in Reviews' : i \in Reviews \/ (i = n /\ Born(n))
    BY StepRows, Zenon
  <1>. HIDE DEF n
  <1>3. ASSUME NEW i \in Reviews, n \in Reviews', n \notin Reviews, review'[i].kind = "webhook", review'[n].kind = "webhook",
               review'[i].head = review'[n].head
        PROVE  FALSE
    <2>1. Asked(review'[n], n)
      BY <1>2, <1>3 DEF Replaces, Born
    <2>2. Derived(review'[n].head) = {}
      BY <1>3, <2>1 DEF Asked
    <2>. QED  BY <1>1, <1>3, <2>2 DEF Derived, ReviewsOf
  <1>. QED  BY <1>1, <1>2, <1>3 DEF OneWebhook

\* A review is replaced once no call of it is open, and asks none again.
LEMMA AnsweredStep ==
    ASSUME review \in Seq(ReviewRow), ReviewStep, OpenIsLast, ReplacedAnswered
    PROVE  ReplacedAnswered'
  <1>. DEFINE n == Len(review) + 1
              Ends(i) == review'[i].status \notin OpenStates /\ \A r \in 1 .. MaxClaims : review'[i].call[r] # "open"
  <1>1. \A i \in Reviews : review'[i].root = review[i].root /\ review'[i].kind = review[i].kind
    BY StepRows, Inherited
  <1>2. \A i \in Reviews : /\ review'[i].status \in OpenStates => review[i].status \in OpenStates
                           /\ review[i].status \notin OpenStates =>
                                 \A r \in 1 .. MaxClaims : review'[i].call[r] = "open" => review[i].call[r] = "open"
    <2>1. \A i \in Reviews : Evolved(review[i], review'[i])
      BY StepRows
    <2>. QED  BY <2>1 DEF Evolved
  <1>0. n \in Nat /\ Reviews = 1 .. n - 1
    BY StepRows
  <1>3. /\ n \in Nat /\ Reviews = 1 .. n - 1 /\ Reviews \subseteq Reviews'
        /\ \A i \in Reviews' : i \in Reviews \/ (i = n /\ Born(n))
    BY <1>0, StepRows, Zenon
  <1>. HIDE DEF n
  <1>4. ASSUME NEW i \in Reviews', NEW j \in Reviews', review'[j].kind = "lease", review'[i].root = review'[j].root, i < j,
               \A k \in Reviews' : review'[k].root = review'[j].root /\ k < j => k <= i
        PROVE  Ends(i)
    <2>1. i \in Reviews
      BY <1>3, <1>4
    <2>2. CASE j \in Reviews
      <3>1. \A k \in Reviews : review[k].root = review[j].root /\ k < j => k <= i
        BY <1>1, <1>3, <1>4, <2>2
      <3>2. review[i].status \notin OpenStates /\ \A r \in 1 .. MaxClaims : review[i].call[r] # "open"
        BY <1>1, <1>4, <2>1, <2>2, <3>1 DEF ReplacedAnswered
      <3>. QED  BY <1>2, <2>1, <3>2
    <2>3. CASE j = n /\ n \notin Reviews
      <3>1. PICK k \in Reviews : Replaces(review'[n], k)
        BY <1>3, <1>4, <2>3 DEF Asked, Born
      <3>2. /\ review'[n].root = review[k].root /\ review'[k].status \notin OpenStates
            /\ review[k].status \in OpenStates /\ \A r \in 1 .. MaxClaims : review'[k].call[r] # "open"
        BY <1>4, <2>3, <3>1 DEF Replaces, OpenStates
      <3>3. k <= i
        BY <1>1, <1>3, <1>4, <2>3, <3>2
      <3>4. i <= k
        BY <1>1, <1>4, <2>1, <2>3, <3>2 DEF OpenIsLast
      <3>5. i = k
        BY <1>3, <2>1, <3>3, <3>4
      <3>. QED  BY <3>2, <3>5
    <2>. QED  BY <1>3, <2>2, <2>3
  <1>. QED  BY <1>4 DEF ReplacedAnswered

\* The lost leases of a line are finitely many.
LEMMA LeasesFinite ==
    ASSUME review \in Seq(ReviewRow), NEW root
    PROVE  IsFiniteSet(Leases(root)) /\ Cardinality(Leases(root)) \in Nat
  <1>1. Len(review) \in Nat /\ Reviews = 1 .. Len(review)
    BY DEF Reviews
  <1>2. IsFiniteSet(Reviews)
    BY <1>1, FS_Interval
  <1>3. Leases(root) \subseteq Reviews
    BY DEF Leases
  <1>. QED  BY <1>2, <1>3, FS_Subset, FS_CardinalityType

\* The claims of a line's open review go on to the one that replaces it.
LEMMA CoveredStep ==
    ASSUME review \in Seq(ReviewRow), ReviewStep, LinesRooted, OpenIsLast, LeasesCovered
    PROVE  LeasesCovered'
  <1>. DEFINE n == Len(review) + 1
              New(root) == {i \in Reviews' : review'[i].root = root /\ review'[i].kind = "lease"}
              Covers(i, c) == /\ review'[i].status = "queued" => c <= review'[i].attempts
                              /\ review'[i].status = "running" => c + 1 <= review'[i].attempts
  <1>0. RecoveryLimit \in Nat \ {0}
    BY ReviewsAssumption
  <1>1. \A i \in Reviews : review'[i].root = review[i].root /\ review'[i].kind = review[i].kind
    BY StepRows, Inherited
  <1>2. \A i \in Reviews :
           /\ review[i].attempts \in Nat /\ review'[i].attempts \in Nat
           /\ review[i].root \in Nat
           /\ review'[i].status \in OpenStates => review[i].status \in OpenStates
           /\ review'[i].status = "queued" => review[i].status = "queued"
           /\ review'[i].attempts >= review[i].attempts
           /\ review[i].status = "queued" /\ review'[i].status = "running" => review'[i].attempts >= review[i].attempts + 1
    <2>1. \A i \in Reviews : review[i] \in ReviewRow /\ Evolved(review[i], review'[i])
      BY StepRows
    <2>. QED  BY <2>1 DEF Evolved, ReviewRow
  <1>3. n \in Nat /\ Reviews = 1 .. n - 1 /\ n \notin Reviews
    BY StepRows
  <1>13. Reviews' = Reviews \/ (Reviews' = Reviews \cup {n} /\ Born(n))
    <2>1. \/ Reviews' = Reviews
          \/ (Reviews' = Reviews \cup {Len(review) + 1} /\ Born(Len(review) + 1))
      BY StepRows, Zenon
    <2>. QED  BY <2>1
  <1>4. \A root : IsFiniteSet(Leases(root)) /\ Cardinality(Leases(root)) \in Nat
    BY LeasesFinite
  <1>. HIDE DEF n
  <1>5. ASSUME NEW i \in Reviews
        PROVE  Covers(i, Cardinality(Leases(review[i].root)))
    <2>. DEFINE c == Cardinality(Leases(review[i].root))
    <2>1. /\ c \in Nat
          /\ review[i].status = "queued" => c <= review[i].attempts
          /\ review[i].status = "running" => c + 1 <= review[i].attempts
      BY <1>4 DEF LeasesCovered
    <2>. HIDE DEF c
    <2>2. /\ review'[i].status = "queued" => c <= review'[i].attempts
          /\ review'[i].status = "running" => c + 1 <= review'[i].attempts
      BY <1>2, <2>1 DEF OpenStates
    <2>. QED  BY <2>2 DEF c
  <1>6. ASSUME n \notin Reviews' \/ review'[n].kind # "lease"
        PROVE  \A root : New(root) = Leases(root)
    BY <1>1, <1>3, <1>13, <1>6 DEF Leases
  <1>7. ASSUME \A root \in Nat : Cardinality(New(root)) < RecoveryLimit,
               \A i \in Reviews' : Covers(i, Cardinality(New(review'[i].root)))
        PROVE  LeasesCovered'
    BY <1>7 DEF LeasesCovered, Leases
  <1>. HIDE DEF New, Covers
  <1>8. CASE Reviews' = Reviews
    <2>1. \A root : New(root) = Leases(root)
      BY <1>3, <1>6, <1>8
    <2>. QED  BY <1>1, <1>5, <1>7, <1>8, <2>1 DEF LeasesCovered
  <1>9. CASE Reviews' = Reviews \cup {n} /\ Born(n) /\ Asked(review'[n], n)
    <2>1. \A root : New(root) = Leases(root)
      BY <1>6, <1>9 DEF Asked
    <2>2. Leases(n) = {}
      BY <1>3 DEF Leases, LinesRooted
    <2>3. Cardinality(Leases(n)) = 0
      BY <2>2, FS_EmptySet
    <2>4. review'[n].root = n /\ review'[n].attempts = 0
      BY <1>9 DEF Asked
    <2>5. Covers(n, Cardinality(New(review'[n].root)))
      BY <1>9, <2>1, <2>3, <2>4 DEF Covers, Born
    <2>. QED  BY <1>1, <1>5, <1>7, <1>9, <2>1, <2>5 DEF LeasesCovered
  <1>10. CASE Reviews' = Reviews \cup {n} /\ Born(n) /\ \E k \in Reviews : Replaces(review'[n], k)
    <2>1. PICK k \in Reviews : Replaces(review'[n], k)
      BY <1>10
    <2>2. review'[n].root = review[k].root /\ review'[k].status \notin OpenStates
      BY <2>1 DEF Replaces
    <2>3. \A i \in Reviews : review[i].root = review[k].root => review'[i].status \notin OpenStates
      <3>. SUFFICES ASSUME NEW i \in Reviews, review[i].root = review[k].root, review'[i].status \in OpenStates
                    PROVE  FALSE
        OBVIOUS
      <3>1. review[k].status \in OpenStates /\ review[i].status \in OpenStates
        BY <1>2, <2>1 DEF Replaces, OpenStates
      <3>2. i <= k /\ k <= i
        BY <3>1 DEF OpenIsLast
      <3>. QED  BY <1>3, <2>2, <3>2
    <2>4. CASE review'[n].kind = "stranded"
      <3>1. \A root : New(root) = Leases(root)
        BY <1>6, <2>4
      <3>2. review'[n].attempts = 0 /\ review[k].status = "queued" /\ review[k].attempts = 0
        BY <2>1, <2>4 DEF Replaces
      <3>3. Cardinality(Leases(review[k].root)) <= 0
        BY <3>2 DEF LeasesCovered
      <3>4. Covers(n, Cardinality(New(review'[n].root)))
        BY <1>10, <2>2, <3>1, <3>2, <3>3 DEF Covers, Born
      <3>. QED  BY <1>1, <1>5, <1>7, <1>10, <3>1, <3>4 DEF LeasesCovered
    <2>5. CASE review'[n].kind = "lease"
      <3>. DEFINE R == review[k].root
      <3>1. /\ review[k].status = "running" /\ review'[n].attempts = review[k].attempts
            /\ review[k].attempts < RecoveryLimit
        BY <2>1, <2>5 DEF Replaces
      <3>2. R \in Nat /\ New(R) = Leases(R) \cup {n} /\ n \notin Leases(R)
        BY <1>1, <1>2, <1>3, <1>10, <2>2, <2>5 DEF Leases, New
      <3>3. \A root : root # R => New(root) = Leases(root)
        BY <1>1, <1>10, <2>2, <2>5 DEF Leases, New
      <3>4. Cardinality(New(R)) = Cardinality(Leases(R)) + 1
        BY <1>4, <3>2, FS_AddElement
      <3>5. Cardinality(Leases(R)) + 1 <= review[k].attempts
        BY <3>1 DEF LeasesCovered
      <3>6. Cardinality(New(R)) <= review'[n].attempts /\ Cardinality(New(R)) < RecoveryLimit
        BY <1>0, <1>2, <1>4, <3>1, <3>4, <3>5
      <3>7. \A root \in Nat : Cardinality(New(root)) < RecoveryLimit
        BY <3>3, <3>6 DEF LeasesCovered
      <3>8. ASSUME NEW i \in Reviews
            PROVE  Covers(i, Cardinality(New(review'[i].root)))
        <4>1. CASE review[i].root = R
          BY <2>3, <4>1 DEF OpenStates, Covers
        <4>2. CASE review[i].root # R
          BY <1>1, <1>5, <3>3, <4>2
        <4>. QED  BY <4>1, <4>2
      <3>9. Covers(n, Cardinality(New(review'[n].root)))
        BY <1>10, <2>2, <3>6 DEF Covers, Born
      <3>. QED  BY <1>7, <1>10, <3>7, <3>8, <3>9
    <2>. QED  BY <2>1, <2>4, <2>5 DEF Replaces
  <1>. QED  BY <1>8, <1>9, <1>10, <1>13 DEF Born

\* What holds in every state.
ReviewsInv ==
    /\ ReviewsTypeOK /\ DropsHeld
    /\ LinesRooted /\ OpenIsLast /\ OneWebhook /\ ReplacedAnswered /\ LeasesCovered

\* It holds before the first delivery.
LEMMA ReviewsInitLemma == ReviewsInit => ReviewsInv
  <1>. SUFFICES ASSUME ReviewsInit PROVE ReviewsInv
    OBVIOUS
  <1>0. MaxPushes \in Nat /\ MaxRetries \in Nat /\ RecoveryLimit \in Nat \ {0}
    BY ReviewsAssumption
  <1>1. /\ pull = [head |-> 1, last |-> MaxPushes + 1, open |-> TRUE] /\ review = <<>> /\ retries = MaxRetries
        /\ hook = [w \in Hooks |-> IdleHook] /\ poll = [p \in Pollers |-> IdlePoll]
    BY DEF ReviewsInit, ReviewsInitWith
  <1>2. review \in Seq(ReviewRow) /\ Reviews = {}
    BY <1>1 DEF Reviews
  <1>3. IdleHook \in HookRow /\ IdleHook.pc = "idle" /\ IdleHook.drops = {} /\ IdlePoll \in PollRow /\ IdlePoll.pc = "idle"
    BY DEF IdleHook, IdlePoll, HookRow, PollRow
  <1>4. ReviewsTypeOK /\ DropsHeld
    BY <1>0, <1>1, <1>2, <1>3 DEF ReviewsTypeOK, DropsHeld
  <1>5. \A root : Cardinality(Leases(root)) = 0
    <2>1. \A root : Leases(root) = {}
      BY <1>2 DEF Leases
    <2>. QED  BY <2>1, FS_EmptySet
  <1>6. LinesRooted /\ OpenIsLast /\ OneWebhook /\ ReplacedAnswered
    BY <1>2 DEF LinesRooted, OpenIsLast, OneWebhook, ReplacedAnswered
  <1>7. LeasesCovered
    BY <1>0, <1>2, <1>5 DEF LeasesCovered
  <1>. QED  BY <1>4, <1>6, <1>7 DEF ReviewsInv

\* Every step keeps it, and is one on the reviews.
LEMMA ReviewsNextLemma ==
    ASSUME ReviewsInv, [ReviewsNext]_reviewVars
    PROVE  ReviewsInv' /\ ReviewStep
  <1>1. ReviewStep /\ ReviewsTypeOK' /\ DropsHeld'
    BY ReviewsStepLemma DEF ReviewsInv
  <1>2. review \in Seq(ReviewRow)
    BY DEF ReviewsInv, ReviewsTypeOK
  <1>. QED  BY <1>1, <1>2, RootsStep, OpenStep, WebhookStep, AnsweredStep, CoveredStep DEF ReviewsInv

\* So it holds in every behaviour.
LEMMA ReviewsInvariant == ReviewsSpec => []ReviewsInv
  BY ReviewsInitLemma, ReviewsNextLemma, PTL DEF ReviewsSpec

\* Deliveries, redeliveries, polls and reviewers never leave two attempts at one commit
\* open, whatever their number and order (supersedeQueuedGitHubReviews,
\* recoverStrandedGitHubReview).
THEOREM ReviewsOneOpenReview == ReviewsSpec => []OneOpenReview
  <1>1. ReviewsInv => OneOpenReview
    <2>. SUFFICES ASSUME ReviewsInv, NEW i \in OpenReviews, NEW j \in OpenReviews, i # j, review[i].head = review[j].head
                  PROVE  /\ review[i].root # review[j].root
                         /\ \E k \in {i, j} : review[review[k].root].kind = "retry"
      BY DEF OneOpenReview
    <2>1. i \in Reviews /\ j \in Reviews /\ review[i].status \in OpenStates /\ review[j].status \in OpenStates
      BY DEF OpenReviews, OpenStates
    <2>2. Reviews = 1 .. Len(review) /\ Len(review) \in Nat
      BY DEF ReviewsInv, ReviewsTypeOK, Reviews
    <2>3. review[i].root # review[j].root
      <3>1. review[i].root = review[j].root => i <= j /\ j <= i
        BY <2>1 DEF ReviewsInv, OpenIsLast
      <3>. QED  BY <2>1, <2>2, <3>1
    <2>4. /\ review[i].root \in Reviews /\ review[j].root \in Reviews
          /\ review[review[i].root].kind \in {"webhook", "retry"} /\ review[review[j].root].kind \in {"webhook", "retry"}
          /\ review[review[i].root].head = review[review[j].root].head
      BY <2>1 DEF ReviewsInv, LinesRooted
    <2>5. ~(review[review[i].root].kind = "webhook" /\ review[review[j].root].kind = "webhook")
      BY <2>3, <2>4 DEF ReviewsInv, OneWebhook
    <2>. QED  BY <2>3, <2>4, <2>5
  <1>. QED  BY <1>1, ReviewsInvariant, PTL

\* A commit's abandoned reviews are replaced fewer than RecoveryLimit times, and never
\* where a call may have been paid for without an answer, for every limit and every
\* number of deliveries and polls (newExpiredGitHubReviewLeaseRecovery).
THEOREM ReviewsRecoveryBounded == ReviewsSpec => []RecoveryBounded
  <1>1. ReviewsInv => RecoveryBounded
    <2>. SUFFICES ASSUME ReviewsInv, NEW j \in Reviews, review[j].kind = "lease"
                  PROVE  LET line == {i \in Reviews : review[i].root = review[j].root}
                         IN /\ Cardinality({i \in line : review[i].kind = "lease"}) < RecoveryLimit
                            /\ ~\E r \in 1 .. MaxClaims : review[Max({i \in line : i < j})].call[r] = "open"
      BY DEF RecoveryBounded
    <2>. DEFINE line == {i \in Reviews : review[i].root = review[j].root}
                before == {i \in line : i < j}
                last == Max(before)
    <2>1. Reviews = 1 .. Len(review) /\ Len(review) \in Nat /\ review[j] \in ReviewRow
      BY DEF ReviewsInv, ReviewsTypeOK, Reviews
    <2>2. review[j].root \in Nat
      BY <2>1 DEF ReviewRow
    <2>3. {i \in line : review[i].kind = "lease"} = Leases(review[j].root)
      BY DEF Leases
    <2>4. Cardinality(Leases(review[j].root)) < RecoveryLimit
      BY <2>2 DEF ReviewsInv, LeasesCovered
    <2>5. before # {}
      <3>1. /\ review[j].root \in Reviews /\ review[review[j].root].root = review[j].root
            /\ review[review[j].root].kind \in {"webhook", "retry"} /\ review[j].root <= j
        BY DEF ReviewsInv, LinesRooted
      <3>2. review[j].root # j
        BY <3>1
      <3>. QED  BY <2>1, <3>1, <3>2
    <2>6. before \in SUBSET (1 .. Len(review))
      BY <2>1
    <2>7. last \in before /\ \A y \in before : last >= y
      BY <2>1, <2>5, <2>6, Greatest
    <2>8. last \in Reviews /\ review[last].root = review[j].root /\ last < j
      BY <2>7
    <2>9. \A k \in Reviews : review[k].root = review[j].root /\ k < j => k <= last
      BY <2>1, <2>7
    <2>. HIDE DEF last
    <2>10. \A r \in 1 .. MaxClaims : review[last].call[r] # "open"
      BY <2>8, <2>9 DEF ReviewsInv, ReplacedAnswered
    <2>. QED  BY <2>3, <2>4, <2>10 DEF last
  <1>. QED  BY <1>1, ReviewsInvariant, PTL

\* A review with a live lease ends by its reviewer's result alone: no newer commit, poll or
\* redelivery that saw it earlier ends it.
THEOREM ReviewsLiveReviewKept == ReviewsSpec => LiveReviewKept
  <1>1. ASSUME ReviewsInv, [ReviewsNext]_reviewVars
        PROVE  [\A i \in Reviews : (review[i].status = "running" /\ review[i].left > 0) =>
                  /\ review'[i].status \in {"running", "completed", "failed"}
                  /\ review'[i].left # NoLease]_reviewVars
    <2>1. ReviewStep
      BY <1>1, ReviewsNextLemma
    <2>2. \A i \in Reviews : Evolved(review[i], review'[i])
      BY <2>1 DEF ReviewStep
    <2>. QED  BY <2>2 DEF Evolved
  <1>. QED  BY <1>1, ReviewsInvariant, PTL DEF ReviewsSpec, LiveReviewKept

(* Plans, their transactions and the machines' slots. *)

Kinds == {"none", "start", "fan-in", "claim", "step-claim", "transition"}
Tables == {"task", "plan", "node", "main", "exec", "seat", "beat"}
RowIds == Actors \cup Machines \cup {NoMachine}
TaskStates == {"none", "pending", "queued", "running", "cancel_requested", "cancelled", "completed", "failed"}
SeatRow == [status : {"none", "queued", "running", "completed", "failed", "blocked", "cancelled"},
            machine : Machines \cup {NoMachine}]
Targets == {<<>>} \cup UNION {[R -> Machines] : R \in SUBSET AllSteps}
TxnRow == [kind : Kinds, at : 0 .. 5, arg : Machines \cup {"none", "completed", "failed"},
           ready : SUBSET AllSteps, target : Targets, rows : SUBSET (Tables \X RowIds)]

\* Tasks, steps, assignments and transactions have their types.
FanoutTypeOK ==
    /\ main \in [Plans -> {"none", "queued", "cancelled", "completed"}]
    /\ progress \in [Plans -> {"none", "queued", "no-machine", "aggregation-pending"}]
    /\ child \in [AllSteps -> TaskStates]
    /\ node \in [AllSteps -> {"planned", "running", "completed", "failed"}]
    /\ seat \in [AllSteps -> SeatRow]
    /\ DOMAIN fresh = Machines
    /\ txn \in [Actors -> TxnRow]

\* No row is locked by two transactions, but the plan, which callbacks share.
RowsApart ==
    \A a, b \in Actors : a # b => \A r \in txn[a].rows \cap txn[b].rows : r[1] = "plan"

\* A plan that has not begun has no child, a child is dispatched with its assignment, a
\* step begins in an assignment, which begins after what it depends on; a cancelled
\* assignment has no active child.
StepsInOrder ==
    /\ \A e \in Plans : main[e] = "none" => \A s \in StepsOf[e] : child[s] = "none"
    /\ \A s \in AllSteps :
        /\ child[s] \in {"none", "pending"} <=> seat[s].status = "none"
        /\ node[s] # "planned" => seat[s].status # "none"
        /\ seat[s].status # "none" => \A d \in DependsOn[s] : node[d] = "completed"
        /\ child[s] \in ActiveTask => seat[s].status # "cancelled"

\* A completed plan is complete, and one under way has a child that will call back, or one
\* cancelled without a callback.
PlansCount ==
    \A e \in Plans :
        /\ main[e] = "completed" => \A s \in StepsOf[e] : node[s] = "completed" /\ child[s] = "completed"
        /\ main[e] = "queued" /\ progress[e] = "queued" =>
              \E s \in StepsOf[e] : \/ child[s] \in ActiveTask
                                    \/ child[s] = "cancelled" /\ seat[s].status # "cancelled"

\* Active assignments on a machine: stored, and as the fan-in of a will store them.
ActiveOn(m) == {s \in AllSteps : seat[s].machine = m /\ seat[s].status \in ActiveSeat}
LeftOn(a, m) == {s \in AllSteps : SyncedSeats(a)[s].machine = m /\ SyncedSeats(a)[s].status \in ActiveSeat}
Locks(a, table, i) == <<table, i>> \in txn[a].rows

\* The steps a transaction is to dispatch are not begun, and may be.
ToDispatch(a, e) ==
    \A t \in txn[a].ready :
        t \in StepsOf[e] /\ node[t] = "planned" /\ \A d \in DependsOn[t] : node[d] = "completed"

\* What a transaction has locked and learnt still holds, up to where it is.
StartHolds(a) ==
    txn[a].kind = "start" =>
        /\ a \in Plans /\ main[a] = "none" /\ ToDispatch(a, a)
        /\ \A r \in txn[a].rows : r[1] \in {"plan", "node"} \/ (txn[a].at >= 1 /\ r[1] = "beat")
FanInHolds(a) ==
    txn[a].kind = "fan-in" =>
        /\ a \in AllSteps /\ txn[a].arg \in {"completed", "failed"} /\ Locks(a, "task", a)
        /\ child[a] \in {"running", "cancel_requested"}
        /\ txn[a].at >= 1 => Locks(a, "main", Of[a]) /\ main[Of[a]] # "none"
        /\ txn[a].at >= 3 => \A t \in StepsOf[Of[a]] : Locks(a, "seat", t)
        /\ txn[a].ready # {} => txn[a].at >= 3 /\ \A t \in txn[a].ready : seat[t].status = "none"
        /\ ToDispatch(a, Of[a])
        /\ \A r \in txn[a].rows : \/ r[1] = "task"
                                  \/ txn[a].at >= 1 /\ r[1] = "main"
                                  \/ txn[a].at >= 2 /\ r[1] = "exec"
                                  \/ txn[a].at >= 3 /\ r[1] = "seat"
                                  \/ txn[a].at >= 4 /\ r[1] \in {"plan", "node"}
                                  \/ txn[a].at >= 5 /\ r[1] = "beat"
ClaimHolds(a) ==
    txn[a].kind = "claim" =>
        /\ a \in AllSteps /\ Locks(a, "task", a) /\ child[a] \in {"queued", "running"} /\ txn[a].arg \in Machines
        /\ txn[a].at >= 1 => Locks(a, "seat", a) /\ seat[a].status \in ActiveSeat
        /\ txn[a].at >= 4 => /\ Locks(a, "beat", txn[a].arg)
                             /\ seat[a].machine # txn[a].arg =>
                                   Cardinality(ActiveOn(txn[a].arg)) < Capacity[txn[a].arg]
StepHolds(a) ==
    txn[a].kind \in {"step-claim", "transition"} =>
        /\ a \in AllSteps /\ Locks(a, "task", a) /\ child[a] = "running"
        /\ txn[a].kind = "transition" => txn[a].arg \in {"completed", "failed"}
        /\ txn[a].at >= 2 => Locks(a, "seat", a) /\ seat[a].status \in ActiveSeat
        /\ txn[a].at >= 3 => \/ node[a] = "running"
                             \/ node[a] = "planned" /\ txn[a].kind = "step-claim"

\* The slots a transaction found are still free: it holds the heartbeats of their machines.
TargetsHold(a) ==
    txn[a].target # <<>> =>
        /\ \/ txn[a].kind = "start" /\ txn[a].at >= 1
           \/ txn[a].kind = "fan-in" /\ txn[a].at >= 5
        /\ txn[a].ready # {} /\ txn[a].target \in [txn[a].ready -> Machines]
        /\ \A s \in txn[a].ready :
              /\ Locks(a, "beat", txn[a].target[s])
              /\ Cardinality({t \in txn[a].ready : txn[a].target[t] = txn[a].target[s]})
                    + Cardinality(LeftOn(a, txn[a].target[s])) <= Capacity[txn[a].target[s]]

TxnHolds(a) ==
    /\ StartHolds(a) /\ FanInHolds(a) /\ ClaimHolds(a) /\ StepHolds(a) /\ TargetsHold(a)
    /\ txn[a].kind # "fan-in" /\ txn[a].kind # "start" => txn[a].ready = {}

\* What holds in every state.
FanoutInv ==
    /\ FanoutTypeOK /\ RowsApart /\ StepsInOrder /\ PlansCount /\ SlotsRespected
    /\ \A a \in Actors : TxnHolds(a)

-----------------------------------------------------------------------------
(* What the constants and the operators give. *)

\* A step belongs to one plan, and is none.
LEMMA StepsOfPlans ==
    /\ \A e \in Plans : \A s \in StepsOf[e] : s \in AllSteps /\ Of[s] = e
    /\ \A s \in AllSteps : Of[s] \in Plans /\ s \in StepsOf[Of[s]] /\ s \notin Plans /\ Plan(s) = Of[s]
    /\ \A e \in Plans : e \notin AllSteps /\ Plan(e) = e
    /\ \A s \in AllSteps : DependsOn[s] \subseteq AllSteps
    /\ Actors = AllSteps \cup Plans
  <1>1. \A e \in Plans : \A s \in StepsOf[e] : s \in AllSteps
    BY DEF AllSteps
  <1>2. ASSUME NEW s \in AllSteps PROVE Of[s] \in Plans /\ s \in StepsOf[Of[s]]
    <2>1. \E e \in Plans : s \in StepsOf[e]
      BY DEF AllSteps
    <2>2. Of[s] = CHOOSE e \in Plans : s \in StepsOf[e]
      BY DEF Of
    <2>. QED  BY <2>1, <2>2
  <1>3. \A e \in Plans : \A s \in StepsOf[e] : Of[s] = e
    BY <1>1, <1>2, FanoutAssumption
  <1>4. Plans \cap AllSteps = {}
    BY FanoutAssumption
  <1>5. \A s \in AllSteps : DependsOn[s] \subseteq AllSteps
    BY <1>1, <1>2, FanoutAssumption
  <1>. QED  BY <1>1, <1>2, <1>3, <1>4, <1>5 DEF Plan, Actors

\* The groups of rows, kind by kind.
LEMMA Orders ==
    ASSUME NEW a
    PROVE  /\ txn[a].kind = "start" => LockOrder(a) = <<BeatsToLock>>
           /\ txn[a].kind = "fan-in" /\ txn[a].ready = {} =>
                 LockOrder(a) = <<Row("main", {Plan(a)}), Row("exec", {Plan(a)}), Row("seat", StepsOf[Plan(a)])>>
           /\ txn[a].kind = "fan-in" /\ txn[a].ready # {} =>
                 LockOrder(a) = <<Row("main", {Plan(a)}), Row("exec", {Plan(a)}), Row("seat", StepsOf[Plan(a)]),
                                  Whole(Plan(a)), BeatsToLock>>
           /\ txn[a].kind = "claim" =>
                 LockOrder(a) = <<Row("seat", {a}), Row("node", {a}),
                                  Row("beat", {seat[a].machine} \ {txn[a].arg}), Row("beat", {txn[a].arg}),
                                  IF main[Plan(a)] = "queued" THEN Row("main", {Plan(a)}) ELSE {}>>
           /\ txn[a].kind = "step-claim" =>
                 LockOrder(a) = <<Row("plan", {Plan(a)}), Row("seat", {a}), Row("node", {a}),
                                  IF exec[Plan(a)] = "dispatching" THEN Row("exec", {Plan(a)}) ELSE {}>>
           /\ txn[a].kind = "transition" =>
                 LockOrder(a) = <<Row("plan", {Plan(a)}), Row("seat", {a}), Row("node", {a})>>
           /\ txn[a].kind = "none" => LockOrder(a) = <<>>
  <1>1. txn[a].kind = "start" => LockOrder(a) = <<BeatsToLock>>
    BY DEF LockOrder
  <1>2. txn[a].kind = "fan-in" /\ txn[a].ready = {} =>
                 LockOrder(a) = <<Row("main", {Plan(a)}), Row("exec", {Plan(a)}), Row("seat", StepsOf[Plan(a)])>>
    <2>1. \A x, y, z : <<x, y, z>> \o <<>> = <<x, y, z>>
      OBVIOUS
    <2>. QED  BY <2>1 DEF LockOrder, FanInLocks
  <1>3. txn[a].kind = "fan-in" /\ txn[a].ready # {} =>
                 LockOrder(a) = <<Row("main", {Plan(a)}), Row("exec", {Plan(a)}), Row("seat", StepsOf[Plan(a)]),
                                  Whole(Plan(a)), BeatsToLock>>
    <2>1. ASSUME NEW x, NEW y, NEW z, NEW u, NEW v
          PROVE  <<x, y, z>> \o <<u, v>> = <<x, y, z, u, v>>
      <3>. DEFINE S == {x, y, z, u, v}
                  s == <<x, y, z>>
                  t == <<u, v>>
                  w == <<x, y, z, u, v>>
      <3>1. s \in Seq(S) /\ t \in Seq(S) /\ w \in Seq(S) /\ Len(s) = 3 /\ Len(t) = 2 /\ Len(w) = 5
        OBVIOUS
      <3>2. s \o t \in Seq(S) /\ Len(s \o t) = 5
        BY <3>1
      <3>3. \A i \in 1 .. 5 : (s \o t)[i] = w[i]
        BY <3>1
      <3>. HIDE DEF w, s, t, S
      <3>4. s \o t = w
        BY <3>1, <3>2, <3>3, SeqEqual
      <3>. QED  BY <3>4 DEF s, t, w
    <2>. QED  BY <2>1 DEF LockOrder, FanInLocks
  <1>4. txn[a].kind = "claim" =>
                 LockOrder(a) = <<Row("seat", {a}), Row("node", {a}),
                                  Row("beat", {seat[a].machine} \ {txn[a].arg}), Row("beat", {txn[a].arg}),
                                  IF main[Plan(a)] = "queued" THEN Row("main", {Plan(a)}) ELSE {}>>
    BY DEF LockOrder
  <1>5. txn[a].kind = "step-claim" =>
                 LockOrder(a) = <<Row("plan", {Plan(a)}), Row("seat", {a}), Row("node", {a}),
                                  IF exec[Plan(a)] = "dispatching" THEN Row("exec", {Plan(a)}) ELSE {}>>
    BY DEF LockOrder
  <1>6. txn[a].kind = "transition" =>
                 LockOrder(a) = <<Row("plan", {Plan(a)}), Row("seat", {a}), Row("node", {a})>>
    BY DEF LockOrder
  <1>7. txn[a].kind = "none" => LockOrder(a) = <<>>
    BY DEF LockOrder
  <1>. QED  BY <1>1, <1>2, <1>3, <1>4, <1>5, <1>6, <1>7

\* Their number.
LEMMA OrderLengths ==
    ASSUME NEW a
    PROVE  /\ txn[a].kind = "start" => Len(LockOrder(a)) = 1
           /\ txn[a].kind = "fan-in" => Len(LockOrder(a)) = IF txn[a].ready = {} THEN 3 ELSE 5
           /\ txn[a].kind = "claim" => Len(LockOrder(a)) = 5
           /\ txn[a].kind = "step-claim" => Len(LockOrder(a)) = 4
           /\ txn[a].kind = "transition" => Len(LockOrder(a)) = 3
           /\ txn[a].kind = "none" => Len(LockOrder(a)) = 0
  <1>1. /\ \A x : Len(<<x>>) = 1
        /\ \A x, y, z : Len(<<x, y, z>>) = 3
        /\ \A x, y, z, u : Len(<<x, y, z, u>>) = 4
        /\ \A x, y, z, u, v : Len(<<x, y, z, u, v>>) = 5
        /\ Len(<<>>) = 0
    OBVIOUS
  <1>. QED  BY <1>1, Orders, Zenon

\* The group a transaction locks next.
LEMMA NextGroup ==
    ASSUME NEW a \in Actors, txn[a] \in TxnRow, Pending(a)
    PROVE  /\ txn[a].kind = "start" => txn[a].at = 0 /\ NextRows(a) = BeatsToLock
           /\ txn[a].kind = "fan-in" =>
                 \/ txn[a].at = 0 /\ NextRows(a) = Row("main", {Plan(a)})
                 \/ txn[a].at = 1 /\ NextRows(a) = Row("exec", {Plan(a)})
                 \/ txn[a].at = 2 /\ NextRows(a) = Row("seat", StepsOf[Plan(a)])
                 \/ txn[a].at = 3 /\ txn[a].ready # {} /\ NextRows(a) = Whole(Plan(a))
                 \/ txn[a].at = 4 /\ txn[a].ready # {} /\ NextRows(a) = BeatsToLock
           /\ txn[a].kind = "claim" =>
                 \/ txn[a].at = 0 /\ NextRows(a) = Row("seat", {a})
                 \/ txn[a].at = 1 /\ NextRows(a) = Row("node", {a})
                 \/ txn[a].at = 2 /\ NextRows(a) = Row("beat", {seat[a].machine} \ {txn[a].arg})
                 \/ txn[a].at = 3 /\ NextRows(a) = Row("beat", {txn[a].arg})
                 \/ txn[a].at = 4 /\ NextRows(a) = IF main[Plan(a)] = "queued" THEN Row("main", {Plan(a)}) ELSE {}
           /\ txn[a].kind = "step-claim" =>
                 \/ txn[a].at = 0 /\ NextRows(a) = Row("plan", {Plan(a)})
                 \/ txn[a].at = 1 /\ NextRows(a) = Row("seat", {a})
                 \/ txn[a].at = 2 /\ NextRows(a) = Row("node", {a})
                 \/ txn[a].at = 3 /\ NextRows(a) = IF exec[Plan(a)] = "dispatching" THEN Row("exec", {Plan(a)}) ELSE {}
           /\ txn[a].kind = "transition" =>
                 \/ txn[a].at = 0 /\ NextRows(a) = Row("plan", {Plan(a)})
                 \/ txn[a].at = 1 /\ NextRows(a) = Row("seat", {a})
                 \/ txn[a].at = 2 /\ NextRows(a) = Row("node", {a})
           /\ txn[a].kind # "none"
  <1>1. txn[a].at \in 0 .. 5 /\ NextRows(a) = LockOrder(a)[txn[a].at + 1] /\ txn[a].at < Len(LockOrder(a))
    BY DEF TxnRow, NextRows, Pending
  <1>2. CASE txn[a].kind = "start"
    <2>1. Len(LockOrder(a)) = 1 /\ LockOrder(a) = <<BeatsToLock>>
      BY <1>2, Orders, OrderLengths, Zenon
    <2>. QED  BY <1>1, <1>2, <2>1
  <1>3. CASE txn[a].kind = "fan-in"
    <2>1. CASE txn[a].ready = {}
      <3>0. Len(LockOrder(a)) = 3
        BY <1>3, <2>1, OrderLengths, Zenon
      <3>1. txn[a].at \in 0 .. 2
        BY <1>1, <3>0
      <3>2. LockOrder(a) = <<Row("main", {Plan(a)}), Row("exec", {Plan(a)}), Row("seat", StepsOf[Plan(a)])>>
        BY <1>3, <2>1, Orders
      <3>. QED  BY <1>1, <1>3, <3>1, <3>2
    <2>2. CASE txn[a].ready # {}
      <3>0. Len(LockOrder(a)) = 5
        BY <1>3, <2>2, OrderLengths, Zenon
      <3>1. txn[a].at \in 0 .. 4
        BY <1>1, <3>0
      <3>2. LockOrder(a) = <<Row("main", {Plan(a)}), Row("exec", {Plan(a)}), Row("seat", StepsOf[Plan(a)]),
                             Whole(Plan(a)), BeatsToLock>>
        BY <1>3, <2>2, Orders
      <3>. QED  BY <1>1, <1>3, <2>2, <3>1, <3>2
    <2>. QED  BY <2>1, <2>2
  <1>4. CASE txn[a].kind = "claim"
    <2>0. Len(LockOrder(a)) = 5
      BY <1>4, OrderLengths, Zenon
    <2>1. txn[a].at \in 0 .. 4
      BY <1>1, <2>0
    <2>2. LockOrder(a) = <<Row("seat", {a}), Row("node", {a}),
                           Row("beat", {seat[a].machine} \ {txn[a].arg}), Row("beat", {txn[a].arg}),
                           IF main[Plan(a)] = "queued" THEN Row("main", {Plan(a)}) ELSE {}>>
      BY <1>4, Orders
    <2>. DEFINE last == IF main[Plan(a)] = "queued" THEN Row("main", {Plan(a)}) ELSE {}
    <2>. HIDE DEF last
    <2>3. LockOrder(a) = <<Row("seat", {a}), Row("node", {a}),
                           Row("beat", {seat[a].machine} \ {txn[a].arg}), Row("beat", {txn[a].arg}), last>>
      BY <2>2 DEF last
    <2>4. \/ txn[a].at = 0 /\ NextRows(a) = Row("seat", {a})
          \/ txn[a].at = 1 /\ NextRows(a) = Row("node", {a})
          \/ txn[a].at = 2 /\ NextRows(a) = Row("beat", {seat[a].machine} \ {txn[a].arg})
          \/ txn[a].at = 3 /\ NextRows(a) = Row("beat", {txn[a].arg})
          \/ txn[a].at = 4 /\ NextRows(a) = last
      <3>2. NextRows(a) = <<Row("seat", {a}), Row("node", {a}), Row("beat", {seat[a].machine} \ {txn[a].arg}),
                            Row("beat", {txn[a].arg}), last>>[txn[a].at + 1]
        BY <1>1, <2>3, Zenon
      <3>. DEFINE p == Row("seat", {a})
                  q == Row("node", {a})
                  r == Row("beat", {seat[a].machine} \ {txn[a].arg})
                  u == Row("beat", {txn[a].arg})
      <3>3. NextRows(a) = <<p, q, r, u, last>>[txn[a].at + 1]
        BY <3>2
      <3>. HIDE DEF p, q, r, u
      <3>4. \/ txn[a].at = 0 /\ NextRows(a) = p
            \/ txn[a].at = 1 /\ NextRows(a) = q
            \/ txn[a].at = 2 /\ NextRows(a) = r
            \/ txn[a].at = 3 /\ NextRows(a) = u
            \/ txn[a].at = 4 /\ NextRows(a) = last
        BY <2>1, <3>3
      <3>. QED  BY <3>4, Zenon DEF p, q, r, u
    <2>. QED  BY <1>4, <2>4 DEF last
  <1>5. CASE txn[a].kind = "step-claim"
    <2>0. Len(LockOrder(a)) = 4
      BY <1>5, OrderLengths, Zenon
    <2>1. txn[a].at \in 0 .. 3
      BY <1>1, <2>0
    <2>2. LockOrder(a) = <<Row("plan", {Plan(a)}), Row("seat", {a}), Row("node", {a}),
                           IF exec[Plan(a)] = "dispatching" THEN Row("exec", {Plan(a)}) ELSE {}>>
      BY <1>5, Orders
    <2>. DEFINE last == IF exec[Plan(a)] = "dispatching" THEN Row("exec", {Plan(a)}) ELSE {}
    <2>. HIDE DEF last
    <2>3. LockOrder(a) = <<Row("plan", {Plan(a)}), Row("seat", {a}), Row("node", {a}), last>>
      BY <2>2 DEF last
    <2>4. \/ txn[a].at = 0 /\ NextRows(a) = Row("plan", {Plan(a)})
          \/ txn[a].at = 1 /\ NextRows(a) = Row("seat", {a})
          \/ txn[a].at = 2 /\ NextRows(a) = Row("node", {a})
          \/ txn[a].at = 3 /\ NextRows(a) = last
      BY <1>1, <2>1, <2>3
    <2>. QED  BY <1>5, <2>4 DEF last
  <1>6. CASE txn[a].kind = "transition"
    <2>0. Len(LockOrder(a)) = 3
      BY <1>6, OrderLengths, Zenon
    <2>1. txn[a].at \in 0 .. 2
      BY <1>1, <2>0
    <2>2. LockOrder(a) = <<Row("plan", {Plan(a)}), Row("seat", {a}), Row("node", {a})>>
      BY <1>6, Orders
    <2>. QED  BY <1>1, <1>6, <2>1, <2>2
  <1>7. txn[a].kind # "none"
    <2>1. txn[a].kind = "none" => Len(LockOrder(a)) = 0
      BY OrderLengths, Zenon
    <2>. QED  BY <1>1, <2>1
  <1>. QED  BY <1>2, <1>3, <1>4, <1>5, <1>6, <1>7

\* A transaction that may commit has all of them.
LEMMA Entire ==
    ASSUME NEW a \in Actors, txn[a] \in TxnRow, ~Pending(a)
    PROVE  /\ txn[a].kind = "start" => txn[a].at >= 1
           /\ txn[a].kind = "fan-in" => txn[a].at >= 3
           /\ txn[a].kind = "claim" => txn[a].at >= 5
           /\ txn[a].kind = "step-claim" => txn[a].at >= 4
           /\ txn[a].kind = "transition" => txn[a].at >= 3
  <1>1. txn[a].at \in 0 .. 5 /\ ~(txn[a].at < Len(LockOrder(a)))
    BY DEF TxnRow, Pending
  <1>2. txn[a].kind = "start" => Len(LockOrder(a)) = 1
    BY OrderLengths, Zenon
  <1>3. txn[a].kind = "fan-in" => Len(LockOrder(a)) = IF txn[a].ready = {} THEN 3 ELSE 5
    BY OrderLengths, Zenon
  <1>4. txn[a].kind = "claim" => Len(LockOrder(a)) = 5
    BY OrderLengths, Zenon
  <1>5. txn[a].kind = "step-claim" => Len(LockOrder(a)) = 4
    BY OrderLengths, Zenon
  <1>6. txn[a].kind = "transition" => Len(LockOrder(a)) = 3
    BY OrderLengths, Zenon
  <1>. DEFINE n == Len(LockOrder(a))
  <1>. HIDE DEF n
  <1>7. /\ txn[a].at \in 0 .. 5 /\ ~(txn[a].at < n)
        /\ txn[a].kind = "start" => n = 1
        /\ txn[a].kind = "fan-in" => n = 3 \/ n = 5
        /\ txn[a].kind = "claim" => n = 5
        /\ txn[a].kind = "step-claim" => n = 4
        /\ txn[a].kind = "transition" => n = 3
    BY <1>1, <1>2, <1>3, <1>4, <1>5, <1>6, Zenon DEF n
  <1>8. /\ n = 1 => txn[a].at >= 1
        /\ n = 3 \/ n = 5 => txn[a].at >= 3
        /\ n = 4 => txn[a].at >= 4
        /\ n = 5 => txn[a].at >= 5
    <2>1. \A k \in 0 .. 5 : ~(k < 1) => k >= 1
      OBVIOUS
    <2>2. \A k \in 0 .. 5 : (~(k < 3) \/ ~(k < 5)) => k >= 3
      OBVIOUS
    <2>3. \A k \in 0 .. 5 : ~(k < 4) => k >= 4
      OBVIOUS
    <2>4. \A k \in 0 .. 5 : ~(k < 5) => k >= 5
      OBVIOUS
    <2>. QED  BY <1>7, <2>1, <2>2, <2>3, <2>4, Zenon
  <1>. QED  BY <1>7, <1>8, Zenon

\* What a fan-in keeps of an assignment: the machine, and the status of an active child.
Keeps(a, t) ==
    /\ SyncedSeats(a)[t] \in SeatRow
    /\ SyncedSeats(a)[t].machine = seat[t].machine
    /\ SyncedSeats(a)[t].status = "none" <=> seat[t].status = "none"
    /\ txn[a].kind # "fan-in" \/ Of[t] # Plan(a) => SyncedSeats(a)[t] = seat[t]
    /\ txn[a].kind = "fan-in" /\ Of[t] = Plan(a) =>
          /\ SyncedSeats(a)[t].status \in ActiveSeat <=>
                (seat[t].status \in ActiveSeat /\ t # a /\ child[t] \in ActiveTask)
          /\ SyncedSeats(a)[t].status = "cancelled" /\ seat[t].status # "cancelled" =>
                t = a \/ child[t] \notin ActiveTask

\* A fan-in keeps that of every assignment.
LEMMA SyncedKeeps ==
    \A a \in Actors : \A t \in AllSteps : FanoutTypeOK /\ FanInHolds(a) => Keeps(a, t)
  <1>. SUFFICES ASSUME NEW a \in Actors, NEW t \in AllSteps, FanoutTypeOK, FanInHolds(a) PROVE Keeps(a, t)
    OBVIOUS
  <1>0. seat[t] \in SeatRow /\ child[t] \in TaskStates /\ txn[a] \in TxnRow
    BY DEF FanoutTypeOK
  <1>1. SyncedSeats(a)[t] = IF txn[a].kind = "fan-in" /\ Plan(a) = Of[t] /\ seat[t].status # "none"
                            THEN [seat[t] EXCEPT !.status = Synced(a, t)] ELSE seat[t]
    BY DEF SyncedSeats
  <1>2. CASE txn[a].kind = "fan-in" /\ Plan(a) = Of[t] /\ seat[t].status # "none"
    <2>1. a \in AllSteps /\ txn[a].arg \in {"completed", "failed"} /\ child[a] \in {"running", "cancel_requested"}
      BY <1>2 DEF FanInHolds
    <2>2. Outcome(a) \in {"cancelled", "completed", "failed"}
      BY <2>1 DEF Outcome
    <2>3. Seen(a, t) = IF t = a THEN Outcome(a) ELSE child[t]
      BY DEF Seen
    <2>4. Seen(a, t) \in TaskStates /\ (Seen(a, t) \in ActiveTask <=> t # a /\ child[t] \in ActiveTask)
      BY <1>0, <2>2, <2>3 DEF TaskStates, ActiveTask
    <2>5. Synced(a, t) = IF Seen(a, t) \in ActiveTask THEN seat[t].status
                         ELSE IF Seen(a, t) \in {"failed", "cancelled"} THEN Seen(a, t)
                         ELSE IF seat[t].status \in ActiveSeat THEN "blocked" ELSE seat[t].status
      BY <1>2 DEF Synced, Overlaid, Effective
    <2>6. /\ Synced(a, t) \in {"queued", "running", "completed", "failed", "blocked", "cancelled"}
          /\ Synced(a, t) \in ActiveSeat <=> seat[t].status \in ActiveSeat /\ Seen(a, t) \in ActiveTask
          /\ Synced(a, t) = "cancelled" /\ seat[t].status # "cancelled" => Seen(a, t) \notin ActiveTask
      BY <1>0, <1>2, <2>4, <2>5 DEF SeatRow, ActiveSeat
    <2>7. /\ SyncedSeats(a)[t] \in SeatRow /\ SyncedSeats(a)[t].machine = seat[t].machine
          /\ SyncedSeats(a)[t].status = Synced(a, t)
      BY <1>0, <1>1, <1>2, <2>6 DEF SeatRow
    <2>. QED  BY <1>2, <2>4, <2>6, <2>7 DEF Keeps
  <1>3. CASE ~(txn[a].kind = "fan-in" /\ Plan(a) = Of[t] /\ seat[t].status # "none")
    <2>1. SyncedSeats(a)[t] = seat[t]
      BY <1>1, <1>3
    <2>2. txn[a].kind = "fan-in" /\ Of[t] = Plan(a) => seat[t].status = "none"
      BY <1>3
    <2>. QED  BY <1>0, <2>1, <2>2 DEF ActiveSeat, Keeps
  <1>. QED  BY <1>2, <1>3

\* The same in the next state.
LEMMA SyncedKeepsNext ==
    \A a \in Actors : \A t \in AllSteps : FanoutTypeOK' /\ FanInHolds(a)' => Keeps(a, t)'
  <1>1. (\A a \in Actors : \A t \in AllSteps : FanoutTypeOK /\ FanInHolds(a) => Keeps(a, t))'
    BY SyncedKeeps, PTL
  <1>. QED  BY <1>1

-----------------------------------------------------------------------------
(* What a step does to the transactions of others. *)

\* A step of the transactions in A, which hold the rows of R.  It writes what they have
\* locked; what nobody can hold yet, because its plan has not begun; and its own.
Gentle(A, R) ==
    /\ \A b \in Actors \ A : txn'[b] = txn[b]
    /\ \A b \in Actors \ A : \A r \in R \cap txn[b].rows : r[1] = "plan"
    /\ \A e \in Plans : main[e] # "none" => main'[e] # "none"
    /\ \A e \in Plans \ A : main[e] = "none" => main'[e] = "none"
    /\ \A t \in AllSteps :
        /\ seat'[t] # seat[t] => <<"seat", t>> \in R \/ main[Of[t]] = "none"
        /\ child'[t] # child[t] => \/ t \in A \/ seat[t].status = "none"
                                   \/ \A b \in Actors : <<"task", t>> \notin txn[b].rows
        /\ child'[t] \in ActiveTask /\ child[t] \notin ActiveTask =>
              main[Of[t]] = "none" \/ <<"main", Of[t]>> \in R
        /\ t \notin A => node'[t] = node[t]
        /\ node[t] = "completed" => node'[t] = "completed"
        /\ seat[t].status = "none" => node'[t] = node[t]
        /\ seat'[t].status \in ActiveSeat =>
              \/ <<"beat", seat'[t].machine>> \in R
              \/ seat[t].status \in ActiveSeat /\ seat[t].machine = seat'[t].machine

\* Active assignments are finitely many.
LEMMA ActiveFinite ==
    ASSUME NEW S \in SUBSET AllSteps, NEW T \in SUBSET S
    PROVE  /\ IsFiniteSet(S) /\ Cardinality(S) \in Nat /\ Cardinality(T) \in Nat
           /\ Cardinality(T) <= Cardinality(S)
  <1>1. IsFiniteSet(AllSteps)
    BY FanoutAssumption
  <1>2. IsFiniteSet(S)
    BY <1>1, FS_Subset
  <1>. QED  BY <1>2, FS_Subset, FS_CardinalityType

\* What another transaction has locked and learnt still holds after such a step.
LEMMA OthersHold ==
    ASSUME FanoutInv, FanoutTypeOK', NEW A, NEW R, Gentle(A, R), NEW b \in Actors \ A
    PROVE  TxnHolds(b)'
  <1>1. /\ txn'[b] = txn[b] /\ txn[b] \in TxnRow /\ TxnHolds(b)
        /\ \A r \in R \cap txn[b].rows : r[1] = "plan"
    BY DEF Gentle, FanoutInv, FanoutTypeOK
  <1>2. \A t \in AllSteps : /\ Of[t] \in Plans /\ t \in StepsOf[Of[t]]
                            /\ main[Of[t]] = "none" => child[t] = "none" /\ seat[t].status = "none"
    BY StepsOfPlans DEF FanoutInv, StepsInOrder
  <1>3. \A t \in AllSteps : child[t] \in {"queued", "running", "cancel_requested"} => main[Of[t]] # "none" /\ seat[t].status # "none"
    BY <1>2 DEF FanoutInv, StepsInOrder
  <1>4. \A i : <<"seat", i>> \in txn[b].rows => <<"seat", i>> \notin R
    <2>1. \A i : <<"seat", i>>[1] # "plan"
      OBVIOUS
    <2>. QED  BY <1>1, <2>1
  <1>5. \A i : <<"beat", i>> \in txn[b].rows => <<"beat", i>> \notin R
    <2>1. \A i : <<"beat", i>>[1] # "plan"
      OBVIOUS
    <2>. QED  BY <1>1, <2>1
  <1>6. \A i : <<"main", i>> \in txn[b].rows => <<"main", i>> \notin R
    <2>1. \A i : <<"main", i>>[1] # "plan"
      OBVIOUS
    <2>. QED  BY <1>1, <2>1
  <1>7. b \in AllSteps /\ child[b] \in {"queued", "running", "cancel_requested"} /\ Locks(b, "task", b) =>
           child'[b] = child[b] /\ main[Of[b]] # "none"
    BY <1>3 DEF Gentle, Locks
  <1>8. ASSUME NEW e, ToDispatch(b, e), \A t \in txn[b].ready : seat[t].status = "none"
        PROVE  ToDispatch(b, e)'
    <2>. SUFFICES ASSUME NEW t \in txn[b].ready
                  PROVE  t \in StepsOf[e] /\ node'[t] = "planned" /\ \A d \in DependsOn[t] : node'[d] = "completed"
      BY <1>1 DEF ToDispatch
    <2>1. t \in AllSteps /\ t \in StepsOf[e] /\ node[t] = "planned" /\ \A d \in DependsOn[t] : node[d] = "completed"
      BY <1>1, <1>8 DEF ToDispatch, TxnRow
    <2>2. DependsOn[t] \subseteq AllSteps
      BY <2>1, StepsOfPlans
    <2>3. node'[t] = "planned"
      BY <1>8, <2>1 DEF Gentle
    <2>. QED  BY <2>1, <2>2, <2>3 DEF Gentle
  <1>9. StartHolds(b)'
    <2>. SUFFICES ASSUME txn[b].kind = "start"
                  PROVE  /\ b \in Plans /\ main'[b] = "none" /\ ToDispatch(b, b)'
                         /\ \A r \in txn[b].rows : r[1] \in {"plan", "node"} \/ (txn[b].at >= 1 /\ r[1] = "beat")
      BY <1>1 DEF StartHolds
    <2>1. /\ b \in Plans /\ main[b] = "none" /\ ToDispatch(b, b)
          /\ \A r \in txn[b].rows : r[1] \in {"plan", "node"} \/ (txn[b].at >= 1 /\ r[1] = "beat")
      BY <1>1 DEF TxnHolds, StartHolds
    <2>2. \A t \in txn[b].ready : seat[t].status = "none"
      BY <1>2, <2>1, StepsOfPlans DEF ToDispatch
    <2>. QED  BY <1>8, <2>1, <2>2 DEF Gentle
  <1>10. FanInHolds(b)'
    <2>. SUFFICES ASSUME txn[b].kind = "fan-in" PROVE FanInHolds(b)'
      BY <1>1 DEF FanInHolds
    <2>1. FanInHolds(b) /\ b \in AllSteps /\ child'[b] = child[b] /\ main[Of[b]] # "none"
      BY <1>1, <1>7 DEF TxnHolds, FanInHolds
    <2>2. main'[Of[b]] # "none"
      BY <1>2, <2>1 DEF Gentle
    <2>3. txn[b].at >= 3 => \A t \in StepsOf[Of[b]] : seat'[t] = seat[t]
      <3>1. \A t \in StepsOf[Of[b]] : t \in AllSteps /\ Of[t] = Of[b]
        BY <2>1, StepsOfPlans
      <3>2. txn[b].at >= 3 => \A t \in StepsOf[Of[b]] : <<"seat", t>> \notin R
        BY <1>4, <2>1 DEF FanInHolds, Locks
      <3>. QED  BY <2>1, <3>1, <3>2 DEF Gentle
    <2>4. \A t \in txn[b].ready : t \in StepsOf[Of[b]] /\ seat[t].status = "none" /\ seat'[t] = seat[t]
      BY <2>1, <2>3 DEF FanInHolds, ToDispatch
    <2>5. ToDispatch(b, Of[b])'
      BY <1>8, <2>1, <2>4 DEF FanInHolds
    <2>6. \A t \in txn[b].ready : seat'[t].status = "none"
      BY <2>4
    <2>. QED  BY <1>1, <2>1, <2>2, <2>5, <2>6 DEF FanInHolds, Locks
  <1>11. \A m : Locks(b, "beat", m) =>
            {s \in AllSteps : seat'[s].machine = m /\ seat'[s].status \in ActiveSeat} \subseteq ActiveOn(m)
    BY <1>5 DEF Gentle, Locks, ActiveOn
  <1>12. ClaimHolds(b)'
    <2>. SUFFICES ASSUME txn[b].kind = "claim" PROVE ClaimHolds(b)'
      BY <1>1 DEF ClaimHolds
    <2>1. ClaimHolds(b) /\ b \in AllSteps /\ child'[b] = child[b] /\ main[Of[b]] # "none" /\ txn[b].arg \in Machines
      BY <1>1, <1>7 DEF TxnHolds, ClaimHolds
    <2>2. txn[b].at >= 1 => seat'[b] = seat[b]
      BY <1>4, <2>1 DEF Gentle, ClaimHolds, Locks
    <2>. DEFINE m == txn[b].arg
                new == {s \in AllSteps : seat'[s].machine = m /\ seat'[s].status \in ActiveSeat}
    <2>3. ASSUME Locks(b, "beat", m)
          PROVE  Cardinality(new) \in Nat /\ Cardinality(ActiveOn(m)) \in Nat /\ Cardinality(new) <= Cardinality(ActiveOn(m))
      <3>1. new \subseteq ActiveOn(m) /\ ActiveOn(m) \subseteq AllSteps
        BY <1>11, <2>3 DEF ActiveOn
      <3>. HIDE DEF new
      <3>. QED  BY <3>1, ActiveFinite
    <2>4. Capacity[m] \in Nat
      BY <2>1, FanoutAssumption
    <2>5. txn[b].at >= 4 => /\ Locks(b, "beat", m)
                            /\ seat'[b].machine # m => Cardinality(new) < Capacity[m]
      <3>1. ASSUME txn[b].at >= 4, seat'[b].machine # m PROVE Locks(b, "beat", m) /\ Cardinality(new) < Capacity[m]
        <4>1. seat'[b] = seat[b]
          BY <1>1, <2>2, <3>1 DEF TxnRow
        <4>2. Locks(b, "beat", m) /\ Cardinality(ActiveOn(m)) < Capacity[m]
          BY <2>1, <3>1, <4>1 DEF ClaimHolds
        <4>. HIDE DEF new, m
        <4>. QED  BY <2>3, <2>4, <4>2
      <3>. QED  BY <2>1, <3>1 DEF ClaimHolds
    <2>. QED  BY <1>1, <2>1, <2>2, <2>5 DEF ClaimHolds, Locks, ActiveOn
  <1>13. StepHolds(b)'
    <2>. SUFFICES ASSUME txn[b].kind \in {"step-claim", "transition"} PROVE StepHolds(b)'
      BY <1>1 DEF StepHolds
    <2>1. StepHolds(b) /\ b \in AllSteps /\ child'[b] = child[b] /\ main[Of[b]] # "none"
      BY <1>1, <1>7 DEF TxnHolds, StepHolds
    <2>2. txn[b].at >= 2 => seat'[b] = seat[b]
      BY <1>4, <2>1 DEF Gentle, StepHolds, Locks
    <2>3. node'[b] = node[b]
      BY <2>1 DEF Gentle
    <2>. QED  BY <1>1, <2>1, <2>2, <2>3 DEF StepHolds, Locks
  <1>14. TargetsHold(b)'
    <2>. SUFFICES ASSUME txn[b].target # <<>> PROVE TargetsHold(b)'
      BY <1>1 DEF TargetsHold
    <2>1. TargetsHold(b) /\ FanInHolds(b) /\ StartHolds(b)
      BY <1>1 DEF TxnHolds
    <2>2. \A t \in AllSteps : Keeps(b, t) /\ Keeps(b, t)'
      BY <1>10, <2>1, SyncedKeeps, SyncedKeepsNext DEF FanoutInv
    <2>3. txn[b].kind \in {"start", "fan-in"} /\ (txn[b].kind = "fan-in" => b \in AllSteps /\ txn[b].at >= 5)
      BY <2>1 DEF TargetsHold, FanInHolds
    <2>4. ASSUME NEW m, Locks(b, "beat", m), NEW s \in LeftOn(b, m)' PROVE s \in LeftOn(b, m)
      <3>1. s \in AllSteps /\ (SyncedSeats(b)[s].machine)' = m /\ (SyncedSeats(b)[s].status)' \in ActiveSeat
        BY <2>4 DEF LeftOn
      <3>2. CASE txn[b].kind = "fan-in" /\ Of[s] = Plan(b)
        <4>1. seat'[s].machine = m /\ seat'[s].status \in ActiveSeat /\ s # b /\ child'[s] \in ActiveTask
          BY <1>1, <2>2, <3>1, <3>2 DEF Keeps
        <4>2. /\ Of[s] = Of[b] /\ s \in StepsOf[Of[b]] /\ main[Of[b]] # "none"
              /\ Locks(b, "seat", s) /\ Locks(b, "main", Of[b])
          BY <1>1, <2>1, <2>3, <3>1, <3>2, StepsOfPlans DEF FanInHolds, TxnRow
        <4>3. <<"seat", s>> \notin R /\ <<"main", Of[s]>> \notin R /\ main[Of[s]] # "none"
          BY <1>4, <1>6, <4>2 DEF Locks
        <4>4. seat'[s] = seat[s]
          BY <3>1, <4>3 DEF Gentle
        <4>5. child[s] \in ActiveTask
          BY <3>1, <4>1, <4>3 DEF Gentle
        <4>. QED  BY <2>2, <3>1, <3>2, <4>1, <4>4, <4>5 DEF Keeps, LeftOn
      <3>3. CASE ~(txn[b].kind = "fan-in" /\ Of[s] = Plan(b))
        <4>1. seat'[s].machine = m /\ seat'[s].status \in ActiveSeat
          BY <1>1, <2>2, <3>1, <3>3 DEF Keeps
        <4>2. s \in ActiveOn(m)
          BY <1>11, <2>4, <3>1, <4>1
        <4>. QED  BY <2>2, <3>1, <3>3, <4>2 DEF Keeps, LeftOn, ActiveOn
      <3>. QED  BY <3>2, <3>3
    <2>5. ASSUME NEW s \in txn[b].ready, NEW m, m = txn[b].target[s]
          PROVE  /\ Locks(b, "beat", m)
                 /\ Cardinality({t \in txn[b].ready : txn[b].target[t] = m}) + Cardinality(LeftOn(b, m)') <= Capacity[m]
      <3>. DEFINE mine == {t \in txn[b].ready : txn[b].target[t] = m}
                  old == LeftOn(b, m)
                  new == LeftOn(b, m)'
      <3>1. Locks(b, "beat", m) /\ Cardinality(mine) + Cardinality(old) <= Capacity[m] /\ m \in Machines
        BY <2>1, <2>5 DEF TargetsHold
      <3>2. new \subseteq old /\ old \subseteq AllSteps
        BY <2>4, <3>1 DEF LeftOn
      <3>3. mine \subseteq AllSteps /\ Capacity[m] \in Nat
        BY <1>1, <3>1, FanoutAssumption DEF TxnRow
      <3>. HIDE DEF mine, old, new
      <3>4. /\ Cardinality(new) \in Nat /\ Cardinality(old) \in Nat /\ Cardinality(mine) \in Nat
            /\ Cardinality(new) <= Cardinality(old)
        BY <3>2, <3>3, ActiveFinite
      <3>5. Locks(b, "beat", m) /\ Cardinality(mine) + Cardinality(new) <= Capacity[m]
        BY <3>1, <3>3, <3>4
      <3>. QED  BY <3>5 DEF mine, new
    <2>. QED  BY <1>1, <2>1, <2>5 DEF TargetsHold, Locks, LeftOn
  <1>. QED  BY <1>1, <1>9, <1>10, <1>12, <1>13, <1>14 DEF TxnHolds

-----------------------------------------------------------------------------
(* Steps that write no row: a transaction opens, locks, or ends without a trace. *)

\* Such a step keeps everything but the transaction, of which it remains to be shown.
LEMMA QuietStep ==
    ASSUME FanoutInv, NEW a \in Actors, NEW c \in TxnRow, txn' = [txn EXCEPT ![a] = c],
           UNCHANGED <<main, exec, progress, child, leased, node, seat, fresh>>,
           \A b \in Actors \ {a} : \A r \in c.rows \cap txn[b].rows : r[1] = "plan",
           TxnHolds(a)'
    PROVE  FanoutInv'
  <1>1. FanoutTypeOK' /\ txn'[a] = c /\ \A b \in Actors \ {a} : txn'[b] = txn[b]
    BY DEF FanoutInv, FanoutTypeOK
  <1>2. RowsApart'
    <2>. SUFFICES ASSUME NEW x \in Actors, NEW y \in Actors, x # y, NEW r \in txn'[x].rows \cap txn'[y].rows
                  PROVE  r[1] = "plan"
      BY DEF RowsApart
    <2>. QED  BY <1>1 DEF FanoutInv, RowsApart
  <1>3. StepsInOrder' /\ PlansCount' /\ SlotsRespected'
    BY DEF FanoutInv, StepsInOrder, PlansCount, SlotsRespected, Reserved, Used
  <1>4. Gentle({a}, {})
    BY <1>1 DEF Gentle
  <1>5. \A b \in Actors \ {a} : TxnHolds(b)'
    BY <1>1, <1>4, OthersHold
  <1>. QED  BY <1>1, <1>2, <1>3, <1>5 DEF FanoutInv

\* No transaction, nothing to hold.
LEMMA ClosedHolds ==
    ASSUME NEW a \in Actors, txn'[a] = Closed
    PROVE  TxnHolds(a)'
  <1>1. txn'[a].kind = "none" /\ txn'[a].target = <<>> /\ txn'[a].ready = {}
    BY DEF Closed
  <1>. QED  BY <1>1 DEF TxnHolds, StartHolds, FanInHolds, ClaimHolds, StepHolds, TargetsHold

\* An idle actor has no rows.
LEMMA ClosedType == Closed \in TxnRow /\ Closed.rows = {}
  <1>1. <<>> \in Targets
    BY DEF Targets
  <1>. QED  BY <1>1 DEF Closed, TxnRow, Kinds

\* A transaction that rolls back leaves nothing behind.
LEMMA RollbackKeeps ==
    ASSUME FanoutInv, NEW a \in Actors, Rollback(a)
    PROVE  FanoutInv'
  <1>1. txn' = [txn EXCEPT ![a] = Closed] /\ UNCHANGED <<main, exec, progress, child, leased, node, seat, fresh>>
    BY DEF Rollback
  <1>2. txn'[a] = Closed
    BY <1>1 DEF FanoutInv, FanoutTypeOK
  <1>. QED  BY <1>1, <1>2, ClosedHolds, ClosedType, QuietStep

\* Steps that may be dispatched.
LEMMA ReadySteps ==
    ASSUME NEW e, NEW status, NEW s \in Ready(e, status)
    PROVE  s \in StepsOf[e] /\ node[s] = "planned" /\ status[s] = "none" /\ \A d \in DependsOn[s] : node[d] = "completed"
  BY DEF Ready, Lowest

\* A transaction opens with rows nobody has.
LEMMA Opened ==
    ASSUME FanoutInv, NEW a \in Actors, NEW kind \in Kinds, NEW arg \in Machines \cup {"none", "completed", "failed"},
           NEW rows \in SUBSET (Tables \X RowIds), Open(a, kind, arg, rows), kind = "start" => a \in Plans
    PROVE  /\ txn'[a] \in TxnRow /\ txn'[a].kind = kind /\ txn'[a].at = 0 /\ txn'[a].arg = arg
           /\ txn'[a].rows = rows /\ txn'[a].target = <<>>
           /\ kind # "start" => txn'[a].ready = {}
           /\ kind = "start" => txn'[a].ready = Ready(a, [s \in StepsOf[a] |-> "none"])
           /\ main' = main /\ child' = child /\ node' = node
           /\ TxnHolds(a)' => FanoutInv'
  <1>. DEFINE ready == IF kind = "start" THEN Ready(a, [s \in StepsOf[a] |-> "none"]) ELSE {}
              c == [Closed EXCEPT !.kind = kind, !.arg = arg, !.rows = rows, !.ready = ready]
  <1>1. txn' = [txn EXCEPT ![a] = c] /\ UNCHANGED <<main, exec, progress, child, leased, node, seat, fresh>>
        /\ \A r \in rows : RowFree(r)
    BY DEF Open
  <1>2. ready \subseteq AllSteps
    BY ReadySteps, StepsOfPlans
  <1>. HIDE DEF ready
  <1>3. Closed \in TxnRow /\ Closed.at = 0 /\ Closed.target = <<>>
    BY ClosedType DEF Closed
  <1>4. /\ c \in TxnRow /\ c.kind = kind /\ c.at = 0 /\ c.arg = arg /\ c.rows = rows /\ c.target = <<>>
        /\ c.ready = ready
    BY <1>2, <1>3 DEF TxnRow
  <1>. HIDE DEF c
  <1>5. txn'[a] = c
    BY <1>1 DEF FanoutInv, FanoutTypeOK
  <1>6. \A b \in Actors \ {a} : \A r \in c.rows \cap txn[b].rows : r[1] = "plan"
    BY <1>1, <1>4 DEF RowFree
  <1>7. TxnHolds(a)' => FanoutInv'
    BY <1>1, <1>4, <1>6, QuietStep
  <1>. QED  BY <1>1, <1>4, <1>5, <1>7 DEF ready

\* Rows have their types, and their first part.
LEMMA RowsOf ==
    ASSUME NEW table \in Tables, NEW S \in SUBSET RowIds
    PROVE  /\ Row(table, S) \in SUBSET (Tables \X RowIds)
           /\ \A r \in Row(table, S) : r[1] = table
           /\ \A i \in S : <<table, i>> \in Row(table, S)
  BY DEF Row

\* Admissions, claims and callbacks open with what they have checked.
LEMMA ArrivalsKeep ==
    ASSUME FanoutInv, NEW s \in AllSteps,
           \/ \E m \in DOMAIN fresh : ClaimArrives(s, m)
           \/ StepClaimArrives(s)
           \/ \E outcome \in {"completed", "failed"} : TransitionArrives(s, outcome) \/ CallbackArrives(s, outcome)
    PROVE  FanoutInv'
  <1>0. s \in Actors /\ s \notin Plans
    BY StepsOfPlans
  <1>. DEFINE rows == Row("task", {s})
  <1>1. rows \in SUBSET (Tables \X RowIds) /\ <<"task", s>> \in rows /\ \A r \in rows : r[1] = "task"
    BY <1>0, RowsOf DEF RowIds, Tables
  <1>. HIDE DEF rows
  <1>2. ASSUME NEW m \in DOMAIN fresh, ClaimArrives(s, m) PROVE FanoutInv'
    <2>1. m \in Machines /\ child[s] \in {"queued", "running"} /\ Open(s, "claim", m, rows)
      BY <1>2 DEF FanoutInv, FanoutTypeOK, ClaimArrives, rows
    <2>2. /\ FanoutInv /\ s \in Actors /\ rows \in SUBSET (Tables \X RowIds)
          /\ "claim" \in Kinds /\ m \in Machines \cup {"none", "completed", "failed"}
          /\ Open(s, "claim", m, rows) /\ ("claim" = "start" => s \in Plans)
      BY <1>0, <1>1, <2>1 DEF Kinds
    <2>3. /\ txn'[s].kind = "claim" /\ txn'[s].at = 0 /\ txn'[s].arg = m /\ txn'[s].rows = rows
          /\ txn'[s].target = <<>> /\ txn'[s].ready = {} /\ child' = child /\ (TxnHolds(s)' => FanoutInv')
      BY <2>2, Opened
    <2>4. TxnHolds(s)'
      BY <1>1, <2>1, <2>3 DEF TxnHolds, StartHolds, FanInHolds, ClaimHolds, StepHolds, TargetsHold, Locks
    <2>. QED  BY <2>3, <2>4
  <1>3. ASSUME StepClaimArrives(s) PROVE FanoutInv'
    <2>1. child[s] = "running" /\ Open(s, "step-claim", "none", rows)
      BY <1>3 DEF StepClaimArrives, Runs, rows
    <2>2. /\ FanoutInv /\ s \in Actors /\ rows \in SUBSET (Tables \X RowIds)
          /\ "step-claim" \in Kinds /\ "none" \in Machines \cup {"none", "completed", "failed"}
          /\ Open(s, "step-claim", "none", rows) /\ ("step-claim" = "start" => s \in Plans)
      BY <1>0, <1>1, <2>1 DEF Kinds
    <2>3. /\ txn'[s].kind = "step-claim" /\ txn'[s].at = 0 /\ txn'[s].rows = rows
          /\ txn'[s].target = <<>> /\ txn'[s].ready = {} /\ child' = child /\ (TxnHolds(s)' => FanoutInv')
      BY <2>2, Opened
    <2>4. TxnHolds(s)'
      BY <1>1, <2>1, <2>3 DEF TxnHolds, StartHolds, FanInHolds, ClaimHolds, StepHolds, TargetsHold, Locks
    <2>. QED  BY <2>3, <2>4
  <1>4. ASSUME NEW outcome \in {"completed", "failed"}, TransitionArrives(s, outcome) PROVE FanoutInv'
    <2>1. child[s] = "running" /\ Open(s, "transition", outcome, rows)
      BY <1>4 DEF TransitionArrives, Runs, rows
    <2>2. /\ FanoutInv /\ s \in Actors /\ rows \in SUBSET (Tables \X RowIds)
          /\ "transition" \in Kinds /\ outcome \in Machines \cup {"none", "completed", "failed"}
          /\ Open(s, "transition", outcome, rows) /\ ("transition" = "start" => s \in Plans)
      BY <1>0, <1>1, <2>1 DEF Kinds
    <2>3. /\ txn'[s].kind = "transition" /\ txn'[s].at = 0 /\ txn'[s].rows = rows /\ txn'[s].arg = outcome
          /\ txn'[s].target = <<>> /\ txn'[s].ready = {} /\ child' = child /\ (TxnHolds(s)' => FanoutInv')
      BY <2>2, Opened
    <2>4. TxnHolds(s)'
      BY <1>1, <2>1, <2>3 DEF TxnHolds, StartHolds, FanInHolds, ClaimHolds, StepHolds, TargetsHold, Locks
    <2>. QED  BY <2>3, <2>4
  <1>5. ASSUME NEW outcome \in {"completed", "failed"}, CallbackArrives(s, outcome) PROVE FanoutInv'
    <2>1. child[s] \in {"running", "cancel_requested"} /\ Open(s, "fan-in", outcome, rows)
      BY <1>5 DEF CallbackArrives, rows
    <2>2. /\ FanoutInv /\ s \in Actors /\ rows \in SUBSET (Tables \X RowIds)
          /\ "fan-in" \in Kinds /\ outcome \in Machines \cup {"none", "completed", "failed"}
          /\ Open(s, "fan-in", outcome, rows) /\ ("fan-in" = "start" => s \in Plans)
      BY <1>0, <1>1, <2>1 DEF Kinds
    <2>3. /\ txn'[s].kind = "fan-in" /\ txn'[s].at = 0 /\ txn'[s].rows = rows /\ txn'[s].arg = outcome
          /\ txn'[s].target = <<>> /\ txn'[s].ready = {} /\ child' = child /\ (TxnHolds(s)' => FanoutInv')
      BY <2>2, Opened
    <2>4. TxnHolds(s)'
      BY <1>1, <2>1, <2>3 DEF TxnHolds, StartHolds, FanInHolds, ClaimHolds, StepHolds, TargetsHold, Locks, ToDispatch
    <2>. QED  BY <2>3, <2>4
  <1>. QED  BY <1>2, <1>3, <1>4, <1>5

\* An admission opens with the roots of its plan.
LEMMA AdmissionOpens ==
    ASSUME FanoutInv, NEW e \in Plans, StartAsked(e)
    PROVE  FanoutInv'
  <1>0. e \in Actors
    BY StepsOfPlans
  <1>. DEFINE rows == Whole(e)
              none == [s \in StepsOf[e] |-> "none"]
  <1>1. rows \in SUBSET (Tables \X RowIds) /\ \A r \in rows : r[1] \in {"plan", "node"}
    <2>1. {e} \subseteq RowIds /\ StepsOf[e] \subseteq RowIds
      BY <1>0, StepsOfPlans DEF RowIds
    <2>2. "plan" \in Tables /\ "node" \in Tables
      BY DEF Tables
    <2>3. /\ Row("plan", {e}) \in SUBSET (Tables \X RowIds) /\ \A r \in Row("plan", {e}) : r[1] = "plan"
          /\ Row("node", StepsOf[e]) \in SUBSET (Tables \X RowIds) /\ \A r \in Row("node", StepsOf[e]) : r[1] = "node"
      BY <2>1, <2>2, RowsOf
    <2>. QED  BY <2>3 DEF Whole
  <1>. HIDE DEF rows
  <1>2. main[e] = "none" /\ Open(e, "start", "none", rows)
    BY DEF StartAsked, rows
  <1>3. /\ FanoutInv /\ e \in Actors /\ rows \in SUBSET (Tables \X RowIds)
        /\ "start" \in Kinds /\ "none" \in Machines \cup {"none", "completed", "failed"}
        /\ Open(e, "start", "none", rows) /\ ("start" = "start" => e \in Plans)
    BY <1>0, <1>1, <1>2 DEF Kinds
  <1>4. /\ txn'[e].kind = "start" /\ txn'[e].at = 0 /\ txn'[e].rows = rows
        /\ txn'[e].target = <<>> /\ txn'[e].ready = Ready(e, none)
        /\ main' = main /\ node' = node /\ (TxnHolds(e)' => FanoutInv')
    BY <1>3, Opened
  <1>5. ToDispatch(e, e)'
    BY <1>4, ReadySteps DEF ToDispatch
  <1>6. TxnHolds(e)'
    BY <1>1, <1>2, <1>4, <1>5 DEF TxnHolds, StartHolds, FanInHolds, ClaimHolds, StepHolds, TargetsHold
  <1>. QED  BY <1>4, <1>6

-----------------------------------------------------------------------------
(* Locking. *)

\* What a fan-in is to dispatch has no assignment.
LEMMA FanInReady ==
    ASSUME FanoutInv, NEW a \in Actors, txn[a].kind = "fan-in",
           NEW t \in Ready(Of[a], [u \in StepsOf[Of[a]] |-> Synced(a, u)])
    PROVE  /\ t \in StepsOf[Of[a]] /\ node[t] = "planned" /\ seat[t].status = "none"
           /\ \A d \in DependsOn[t] : node[d] = "completed"
  <1>1. FanInHolds(a) /\ a \in AllSteps /\ Plan(a) = Of[a] /\ FanoutTypeOK
    BY StepsOfPlans DEF FanoutInv, TxnHolds, FanInHolds
  <1>2. /\ t \in StepsOf[Of[a]] /\ node[t] = "planned" /\ Synced(a, t) = "none"
        /\ \A d \in DependsOn[t] : node[d] = "completed"
    BY ReadySteps
  <1>3. t \in AllSteps /\ Of[t] = Of[a]
    BY <1>1, <1>2, StepsOfPlans
  <1>4. ASSUME seat[t].status # "none" PROVE FALSE
    <2>1. SyncedSeats(a)[t] = [seat[t] EXCEPT !.status = Synced(a, t)]
      BY <1>1, <1>3, <1>4 DEF SyncedSeats
    <2>2. SyncedSeats(a)[t].status = Synced(a, t)
      BY <1>1, <1>3, <2>1 DEF FanoutTypeOK, SeatRow
    <2>3. Keeps(a, t)
      BY <1>1, <1>3, SyncedKeeps
    <2>. QED  BY <1>2, <1>4, <2>2, <2>3 DEF Keeps
  <1>. QED  BY <1>2, <1>4

\* What a fan-in will store depends on its callback, not on its locks.
LEMMA SyncedSame ==
    ASSUME NEW a, txn'[a].kind = txn[a].kind, txn'[a].arg = txn[a].arg, seat' = seat, child' = child
    PROVE  SyncedSeats(a)' = SyncedSeats(a) /\ \A m : LeftOn(a, m)' = LeftOn(a, m)
  <1>1. Outcome(a)' = Outcome(a)
    BY DEF Outcome
  <1>2. \A t : Seen(a, t)' = Seen(a, t)
    BY <1>1 DEF Seen
  <1>3. \A t : Overlaid(a, t)' = Overlaid(a, t)
    BY <1>2 DEF Overlaid, Effective
  <1>4. \A t : Synced(a, t)' = Synced(a, t)
    BY <1>2, <1>3 DEF Synced
  <1>5. SyncedSeats(a)' = SyncedSeats(a)
    BY <1>4 DEF SyncedSeats
  <1>. QED  BY <1>5 DEF LeftOn

\* The fields of a transaction that has locked the next rows.
LEMMA Acquired ==
    ASSUME FanoutInv, NEW a \in Actors, Acquire(a)
    PROVE  /\ txn'[a].kind = txn[a].kind /\ txn'[a].arg = txn[a].arg /\ txn'[a].at = txn[a].at + 1
           /\ txn'[a].rows = txn[a].rows \cup NextRows(a) /\ txn'[a].ready = ReadyRead(a)
           /\ txn'[a].target \in TargetsRead(a)
           /\ main' = main /\ child' = child /\ node' = node /\ seat' = seat
           /\ Pending(a) /\ Passes(a) /\ txn[a] \in TxnRow /\ TxnHolds(a)
           /\ txn[a].at \in 0 .. 4 /\ txn[a].kind # "none"
  <1>1. txn[a] \in TxnRow /\ TxnHolds(a) /\ txn \in [Actors -> TxnRow] /\ Pending(a) /\ Passes(a)
    BY DEF FanoutInv, FanoutTypeOK, Acquire
  <1>2. PICK target \in TargetsRead(a) :
           txn' = [txn EXCEPT ![a].at = @ + 1, ![a].rows = @ \cup NextRows(a),
                              ![a].ready = ReadyRead(a), ![a].target = target]
    BY DEF Acquire
  <1>3. /\ txn'[a].kind = txn[a].kind /\ txn'[a].arg = txn[a].arg /\ txn'[a].at = txn[a].at + 1
        /\ txn'[a].rows = txn[a].rows \cup NextRows(a) /\ txn'[a].ready = ReadyRead(a) /\ txn'[a].target = target
    BY <1>1, <1>2 DEF TxnRow
  <1>4. main' = main /\ child' = child /\ node' = node /\ seat' = seat
    BY DEF Acquire
  <1>5. txn[a].kind # "none" /\ txn[a].at \in 0 .. 4
    <2>1. txn[a].kind \in Kinds
      BY <1>1 DEF TxnRow
    <2>. DEFINE at == txn[a].at
    <2>2. txn[a].kind # "none" /\ (txn[a].kind = "start" => at = 0)
      BY <1>1, NextGroup, Zenon
    <2>3. txn[a].kind \in {"fan-in", "claim", "step-claim", "transition"} =>
             at = 0 \/ at = 1 \/ at = 2 \/ at = 3 \/ at = 4
      BY <1>1, NextGroup, Zenon
    <2>4. at = 0 \/ at = 1 \/ at = 2 \/ at = 3 \/ at = 4
      BY <2>1, <2>2, <2>3 DEF Kinds
    <2>. HIDE DEF at
    <2>5. at \in 0 .. 4
      BY <2>4
    <2>. QED  BY <2>2, <2>5 DEF at
  <1>. QED  BY <1>1, <1>2, <1>3, <1>4, <1>5

\* What a transaction knows after it has locked the next rows.
LEMMA AcquiredStart ==
    ASSUME FanoutInv, NEW a \in Actors, Acquire(a), txn[a].kind = "start"
    PROVE  StartHolds(a)' /\ txn[a].at = 0 /\ NextRows(a) = BeatsToLock /\ ReadyRead(a) = txn[a].ready
  <1>1. StartHolds(a) /\ txn[a].at = 0 /\ NextRows(a) = BeatsToLock
    BY Acquired, NextGroup DEF TxnHolds
  <1>2. ReadyRead(a) = txn[a].ready
    BY DEF ReadyRead
  <1>3. \A r \in NextRows(a) : r[1] = "beat"
    BY <1>1 DEF BeatsToLock, Row
  <1>4. txn'[a].at = 1
    BY <1>1, Acquired
  <1>5. ToDispatch(a, a)'
    BY <1>1, <1>2, Acquired DEF ToDispatch, StartHolds
  <1>6. StartHolds(a)'
    BY <1>1, <1>3, <1>4, <1>5, Acquired DEF StartHolds
  <1>. QED  BY <1>1, <1>2, <1>6

\* A fan-in holds its parent, its execution and the assignments of its plan one after the other.
LEMMA AcquiredFanIn ==
    ASSUME FanoutInv, NEW a \in Actors, Acquire(a), txn[a].kind = "fan-in"
    PROVE  /\ FanInHolds(a)'
           /\ txn[a].at = 4 => NextRows(a) = BeatsToLock
           /\ txn[a].at # 2 => ReadyRead(a) = txn[a].ready
  <1>1. /\ FanInHolds(a) /\ a \in AllSteps /\ Plan(a) = Of[a] /\ Of[a] \in Plans
        /\ \/ txn[a].at = 0 /\ NextRows(a) = Row("main", {Of[a]})
           \/ txn[a].at = 1 /\ NextRows(a) = Row("exec", {Of[a]})
           \/ txn[a].at = 2 /\ NextRows(a) = Row("seat", StepsOf[Of[a]])
           \/ txn[a].at = 3 /\ txn[a].ready # {} /\ NextRows(a) = Whole(Of[a])
           \/ txn[a].at = 4 /\ txn[a].ready # {} /\ NextRows(a) = BeatsToLock
    <2>1. FanInHolds(a) /\ a \in AllSteps
      BY Acquired DEF TxnHolds, FanInHolds
    <2>. QED  BY <2>1, Acquired, NextGroup, StepsOfPlans
  <1>2. txn[a].at # 2 => ReadyRead(a) = txn[a].ready
    BY DEF ReadyRead
  <1>3. /\ txn'[a].at = txn[a].at + 1 /\ txn[a].at \in 0 .. 4 /\ txn'[a].rows = txn[a].rows \cup NextRows(a)
        /\ txn'[a].ready = ReadyRead(a)
    BY Acquired
  <1>4. txn[a].at = 0 => main[Of[a]] # "none"
    <2>1. txn[a].at = 0 => main[Plan(a)] = "queued"
      BY Acquired DEF Passes
    <2>. QED  BY <1>1, <2>1
  <1>5. \A t \in ReadyRead(a) : /\ t \in StepsOf[Of[a]] /\ node[t] = "planned" /\ seat[t].status = "none"
                                /\ \A d \in DependsOn[t] : node[d] = "completed"
    <2>1. \A t \in txn[a].ready : /\ t \in StepsOf[Of[a]] /\ node[t] = "planned" /\ seat[t].status = "none"
                                  /\ \A d \in DependsOn[t] : node[d] = "completed"
      BY <1>1 DEF FanInHolds, ToDispatch
    <2>. QED  BY <2>1, FanInReady DEF ReadyRead
  <1>6. ReadyRead(a) # {} => txn[a].at >= 2
    BY <1>1, <1>2, <1>3 DEF FanInHolds
  <1>7. txn'[a].at >= 1 => Locks(a, "main", Of[a])' /\ main'[Of[a]] # "none"
    <2>1. CASE txn[a].at = 0
      BY <1>1, <1>3, <1>4, <2>1, Acquired DEF Row, Locks
    <2>2. CASE txn[a].at # 0
      BY <1>1, <1>3, <2>2, Acquired DEF FanInHolds, Locks
    <2>. QED  BY <2>1, <2>2
  <1>8. txn'[a].at >= 3 => \A t \in StepsOf[Of[a]] : Locks(a, "seat", t)'
    <2>1. CASE txn[a].at = 2
      BY <1>1, <1>3, <2>1 DEF Row, Locks
    <2>2. CASE txn[a].at \in {0, 1}
      <3>1. ~(txn'[a].at >= 3)
        BY <1>3, <2>2
      <3>. QED  BY <3>1
    <2>3. CASE txn[a].at \in {3, 4}
      <3>1. txn[a].at >= 3
        BY <2>3
      <3>. QED  BY <1>1, <1>3, <3>1 DEF FanInHolds, Locks
    <2>. QED  BY <1>3, <2>1, <2>2, <2>3
  <1>9. \A r \in txn'[a].rows : \/ r[1] = "task"
                                \/ txn'[a].at >= 1 /\ r[1] = "main"
                                \/ txn'[a].at >= 2 /\ r[1] = "exec"
                                \/ txn'[a].at >= 3 /\ r[1] = "seat"
                                \/ txn'[a].at >= 4 /\ r[1] \in {"plan", "node"}
                                \/ txn'[a].at >= 5 /\ r[1] = "beat"
    <2>. DEFINE Within(n, r) == \/ r[1] = "task"
                                \/ n >= 1 /\ r[1] = "main"
                                \/ n >= 2 /\ r[1] = "exec"
                                \/ n >= 3 /\ r[1] = "seat"
                                \/ n >= 4 /\ r[1] \in {"plan", "node"}
                                \/ n >= 5 /\ r[1] = "beat"
    <2>1. \A r \in txn[a].rows : Within(txn[a].at + 1, r)
      BY <1>1, <1>3 DEF FanInHolds
    <2>2. ASSUME NEW r \in NextRows(a) PROVE Within(txn[a].at + 1, r)
      <3>1. CASE txn[a].at = 0 /\ NextRows(a) = Row("main", {Of[a]})
        BY <2>2, <3>1 DEF Row
      <3>2. CASE txn[a].at = 1 /\ NextRows(a) = Row("exec", {Of[a]})
        BY <2>2, <3>2 DEF Row
      <3>3. CASE txn[a].at = 2 /\ NextRows(a) = Row("seat", StepsOf[Of[a]])
        BY <2>2, <3>3 DEF Row
      <3>4. CASE txn[a].at = 3 /\ NextRows(a) = Whole(Of[a])
        BY <2>2, <3>4 DEF Row, Whole
      <3>5. CASE txn[a].at = 4 /\ NextRows(a) = BeatsToLock
        BY <2>2, <3>5 DEF Row, BeatsToLock
      <3>. HIDE DEF Within
      <3>. QED  BY <1>1, <3>1, <3>2, <3>3, <3>4, <3>5
    <2>. HIDE DEF Within
    <2>3. \A r \in txn'[a].rows : Within(txn'[a].at, r)
      BY <1>3, <2>1, <2>2
    <2>. QED  BY <2>3 DEF Within
  <1>10. ToDispatch(a, Of[a])'
    BY <1>3, <1>5, Acquired DEF ToDispatch
  <1>11. txn'[a].ready # {} => txn'[a].at >= 3 /\ \A t \in txn'[a].ready : seat'[t].status = "none"
    BY <1>3, <1>5, <1>6, Acquired
  <1>12. FanInHolds(a)'
    BY <1>1, <1>3, <1>7, <1>8, <1>9, <1>10, <1>11, Acquired DEF FanInHolds, Locks
  <1>. QED  BY <1>1, <1>2, <1>3, <1>12

\* A claim that moves a child to its machine has found a free slot there, and holds the heartbeat.
LEMMA AcquiredClaim ==
    ASSUME FanoutInv, NEW a \in Actors, Acquire(a), txn[a].kind = "claim"
    PROVE  ClaimHolds(a)'
  <1>1. /\ ClaimHolds(a) /\ a \in AllSteps /\ txn[a].arg \in Machines
        /\ \/ txn[a].at = 0 /\ NextRows(a) = Row("seat", {a})
           \/ txn[a].at = 1 /\ NextRows(a) = Row("node", {a})
           \/ txn[a].at = 2 /\ NextRows(a) = Row("beat", {seat[a].machine} \ {txn[a].arg})
           \/ txn[a].at = 3 /\ NextRows(a) = Row("beat", {txn[a].arg})
           \/ txn[a].at = 4 /\ NextRows(a) = IF main[Plan(a)] = "queued" THEN Row("main", {Plan(a)}) ELSE {}
    <2>1. ClaimHolds(a) /\ a \in AllSteps /\ txn[a].arg \in Machines
      BY Acquired DEF TxnHolds, ClaimHolds
    <2>. QED  BY <2>1, Acquired, NextGroup
  <1>2. /\ txn'[a].at = txn[a].at + 1 /\ txn[a].at \in 0 .. 4 /\ txn'[a].rows = txn[a].rows \cup NextRows(a)
        /\ txn'[a].kind = "claim" /\ txn'[a].arg = txn[a].arg /\ seat' = seat /\ child' = child
    BY Acquired
  <1>3. txn[a].at = 0 => seat[a].status \in ActiveSeat
    BY Acquired DEF Passes
  <1>4. txn[a].at = 3 /\ seat[a].machine # txn[a].arg => Reserved(txn[a].arg) < Capacity[txn[a].arg]
    BY Acquired DEF Passes
  <1>5. Reserved(txn[a].arg) = Cardinality(ActiveOn(txn[a].arg))
    BY DEF Reserved, Used, ActiveOn
  <1>6. Locks(a, "seat", a)' /\ seat'[a].status \in ActiveSeat
    <2>1. CASE txn[a].at = 0
      BY <1>1, <1>2, <1>3, <2>1 DEF Row, Locks
    <2>2. CASE txn[a].at # 0
      BY <1>1, <1>2, <2>2 DEF ClaimHolds, Locks
    <2>. QED  BY <2>1, <2>2
  <1>. DEFINE new == ActiveOn(txn[a].arg)
  <1>7. txn'[a].at >= 4 => Locks(a, "beat", txn[a].arg)'
    <2>1. CASE txn[a].at = 3
      BY <1>1, <1>2, <2>1 DEF Row, Locks
    <2>2. CASE txn[a].at \in {0, 1, 2}
      BY <1>2, <2>2
    <2>3. CASE txn[a].at = 4
      BY <1>1, <1>2, <2>3 DEF ClaimHolds, Locks
    <2>. QED  BY <1>2, <2>1, <2>2, <2>3
  <1>8. txn'[a].at >= 4 /\ seat'[a].machine # txn[a].arg => Cardinality(new) < Capacity[txn[a].arg]
    <2>1. CASE txn[a].at = 3
      BY <1>2, <1>4, <1>5, <2>1
    <2>2. CASE txn[a].at \in {0, 1, 2}
      BY <1>2, <2>2
    <2>3. CASE txn[a].at = 4
      BY <1>1, <1>2, <2>3 DEF ClaimHolds
    <2>. QED  BY <1>2, <2>1, <2>2, <2>3
  <1>9. ActiveOn(txn[a].arg)' = new
    BY <1>2 DEF ActiveOn
  <1>. HIDE DEF new
  <1>. QED  BY <1>1, <1>2, <1>6, <1>7, <1>8, <1>9 DEF ClaimHolds, Locks

\* A step callback has found its assignment active, and its step at the right point.
LEMMA AcquiredStep ==
    ASSUME FanoutInv, NEW a \in Actors, Acquire(a), txn[a].kind \in {"step-claim", "transition"}
    PROVE  StepHolds(a)'
  <1>1. /\ StepHolds(a) /\ a \in AllSteps
        /\ \/ txn[a].at = 0 /\ NextRows(a) = Row("plan", {Plan(a)})
           \/ txn[a].at = 1 /\ NextRows(a) = Row("seat", {a})
           \/ txn[a].at = 2 /\ NextRows(a) = Row("node", {a})
           \/ txn[a].at = 3
    <2>1. StepHolds(a) /\ a \in AllSteps
      BY Acquired DEF TxnHolds, StepHolds
    <2>. QED  BY <2>1, Acquired, NextGroup
  <1>2. /\ txn'[a].at = txn[a].at + 1 /\ txn[a].at \in 0 .. 4 /\ txn'[a].rows = txn[a].rows \cup NextRows(a)
        /\ txn'[a].kind = txn[a].kind /\ txn'[a].arg = txn[a].arg /\ seat' = seat /\ child' = child /\ node' = node
    BY Acquired
  <1>3. txn[a].at = 1 => seat[a].status \in ActiveSeat
    BY Acquired DEF Passes, SharesPlan
  <1>4. txn[a].at = 2 => \/ node[a] = "running"
                         \/ node[a] = "planned" /\ txn[a].kind = "step-claim"
    BY Acquired DEF Passes, SharesPlan
  <1>5. txn'[a].at >= 2 => Locks(a, "seat", a)' /\ seat'[a].status \in ActiveSeat
    <2>1. CASE txn[a].at = 1
      BY <1>1, <1>2, <1>3, <2>1 DEF Row, Locks
    <2>2. CASE txn[a].at # 1
      BY <1>1, <1>2, <2>2 DEF StepHolds, Locks
    <2>. QED  BY <2>1, <2>2
  <1>6. txn'[a].at >= 3 => \/ node'[a] = "running"
                           \/ node'[a] = "planned" /\ txn'[a].kind = "step-claim"
    <2>1. CASE txn[a].at = 2
      BY <1>2, <1>4, <2>1
    <2>2. CASE txn[a].at # 2
      BY <1>1, <1>2, <2>2 DEF StepHolds
    <2>. QED  BY <2>1, <2>2
  <1>. QED  BY <1>1, <1>2, <1>5, <1>6 DEF StepHolds, Locks

\* The rows a transaction locks next.
LEMMA NextRowsType ==
    ASSUME FanoutInv, NEW a \in Actors, Acquire(a)
    PROVE  NextRows(a) \in SUBSET (Tables \X RowIds)
  <1>1. /\ txn[a] \in TxnRow /\ Pending(a) /\ txn[a].kind # "none" /\ txn[a].kind \in Kinds
        /\ FanoutTypeOK
    BY Acquired DEF TxnRow, FanoutInv
  <1>2. Plan(a) \in Plans /\ Plan(a) \in RowIds /\ a \in RowIds /\ StepsOf[Plan(a)] \subseteq RowIds
    BY StepsOfPlans DEF RowIds
  <1>3. /\ Row("main", {Plan(a)}) \in SUBSET (Tables \X RowIds) /\ Row("exec", {Plan(a)}) \in SUBSET (Tables \X RowIds)
        /\ Row("plan", {Plan(a)}) \in SUBSET (Tables \X RowIds) /\ Row("seat", {a}) \in SUBSET (Tables \X RowIds)
        /\ Row("node", {a}) \in SUBSET (Tables \X RowIds)
        /\ Row("seat", StepsOf[Plan(a)]) \in SUBSET (Tables \X RowIds)
        /\ Row("node", StepsOf[Plan(a)]) \in SUBSET (Tables \X RowIds)
    BY <1>2 DEF Row, Tables
  <1>4. Whole(Plan(a)) \in SUBSET (Tables \X RowIds) /\ {} \in SUBSET (Tables \X RowIds)
    BY <1>3 DEF Whole
  <1>5. BeatsToLock \in SUBSET (Tables \X RowIds)
    <2>1. Fresh \subseteq RowIds
      BY <1>1 DEF Fresh, FanoutTypeOK, RowIds
    <2>. QED  BY <2>1 DEF BeatsToLock, Row, Tables
  <1>6. txn[a].kind = "claim" => /\ Row("beat", {seat[a].machine} \ {txn[a].arg}) \in SUBSET (Tables \X RowIds)
                                 /\ Row("beat", {txn[a].arg}) \in SUBSET (Tables \X RowIds)
    <2>. SUFFICES ASSUME txn[a].kind = "claim"
                  PROVE  /\ Row("beat", {seat[a].machine} \ {txn[a].arg}) \in SUBSET (Tables \X RowIds)
                         /\ Row("beat", {txn[a].arg}) \in SUBSET (Tables \X RowIds)
      OBVIOUS
    <2>1. a \in AllSteps /\ txn[a].arg \in Machines
      BY Acquired DEF TxnHolds, ClaimHolds
    <2>2. seat[a].machine \in RowIds /\ txn[a].arg \in RowIds
      BY <1>1, <2>1 DEF FanoutTypeOK, SeatRow, RowIds
    <2>. QED  BY <2>2 DEF Row, Tables
  <1>7. \/ NextRows(a) = BeatsToLock \/ NextRows(a) = Row("main", {Plan(a)}) \/ NextRows(a) = Row("exec", {Plan(a)})
        \/ NextRows(a) = Row("seat", StepsOf[Plan(a)]) \/ NextRows(a) = Whole(Plan(a)) \/ NextRows(a) = Row("seat", {a})
        \/ NextRows(a) = Row("node", {a}) \/ NextRows(a) = Row("plan", {Plan(a)}) \/ NextRows(a) = {}
        \/ txn[a].kind = "claim" /\ NextRows(a) = Row("beat", {seat[a].machine} \ {txn[a].arg})
        \/ txn[a].kind = "claim" /\ NextRows(a) = Row("beat", {txn[a].arg})
    <2>1. txn[a].kind \in {"start", "fan-in", "claim", "step-claim", "transition"}
      BY <1>1 DEF Kinds
    <2>. QED  BY <1>1, <2>1, NextGroup, Zenon
  <1>. QED  BY <1>3, <1>4, <1>5, <1>6, <1>7, Zenon

\* The targets an allocation gives have free slots, and their heartbeats are locked.
LEMMA AcquiredTargets ==
    ASSUME FanoutInv, NEW a \in Actors, Acquire(a), txn'[a].target # <<>>
    PROVE  /\ TargetsHold(a)'
           /\ txn'[a].target \in Targets
  <1>1. /\ txn'[a].kind = txn[a].kind /\ txn'[a].arg = txn[a].arg /\ txn'[a].at = txn[a].at + 1
        /\ txn'[a].rows = txn[a].rows \cup NextRows(a) /\ txn'[a].ready = ReadyRead(a)
        /\ txn'[a].target \in TargetsRead(a) /\ seat' = seat /\ child' = child
        /\ Pending(a) /\ txn[a] \in TxnRow /\ TxnHolds(a) /\ txn[a].at \in 0 .. 4 /\ FanoutTypeOK
    BY Acquired DEF FanoutInv
  <1>2. txn[a].ready # {} /\ txn[a].at + 1 = Len(LockOrder(a)) /\ txn'[a].target \in Allocations(a)
    BY <1>1 DEF TargetsRead
  <1>3. txn[a].kind = "start" \/ txn[a].kind = "fan-in"
    BY <1>1, <1>2 DEF TxnHolds
  <1>4. /\ NextRows(a) = BeatsToLock /\ txn'[a].ready = txn[a].ready
        /\ \/ txn[a].kind = "start" /\ txn'[a].at >= 1
           \/ txn[a].kind = "fan-in" /\ txn'[a].at >= 5
    <2>1. CASE txn[a].kind = "start"
      <3>1. txn[a].at = 0 /\ NextRows(a) = BeatsToLock /\ ReadyRead(a) = txn[a].ready
        BY <2>1, AcquiredStart
      <3>2. txn'[a].at >= 1
        BY <1>1, <3>1
      <3>. QED  BY <1>1, <2>1, <3>1, <3>2
    <2>2. CASE txn[a].kind = "fan-in"
      <3>1. Len(LockOrder(a)) = 5
        BY <1>2, <2>2, OrderLengths, Zenon
      <3>2. txn[a].at = 4
        BY <1>1, <1>2, <3>1
      <3>. QED  BY <1>1, <2>2, <3>2, AcquiredFanIn
    <2>. QED  BY <1>3, <2>1, <2>2
  <1>. DEFINE target == txn'[a].target
              ready == txn[a].ready
  <1>5. /\ target \in [ready -> Fresh] /\ Fresh \subseteq Machines
        /\ \A m \in Fresh : Cardinality({s \in ready : target[s] = m}) + Used(SyncedSeats(a), m) <= Capacity[m]
    BY <1>1, <1>2 DEF Allocations, Fresh, FanoutTypeOK
  <1>6. ready \subseteq AllSteps /\ target \in [ready -> Machines]
    BY <1>1, <1>5 DEF TxnRow
  <1>7. target \in Targets
    BY <1>6 DEF Targets
  <1>8. \A m : LeftOn(a, m)' = LeftOn(a, m)
    BY <1>1, SyncedSame
  <1>9. \A m : Used(SyncedSeats(a), m) = Cardinality(LeftOn(a, m))
    BY DEF Used, LeftOn
  <1>10. ASSUME NEW s \in ready, NEW m, m = target[s]
         PROVE  /\ <<"beat", m>> \in txn'[a].rows
                /\ Cardinality({t \in ready : target[t] = m}) + Cardinality(LeftOn(a, m)') <= Capacity[m]
    <2>1. m \in Fresh
      BY <1>5, <1>10
    <2>2. <<"beat", m>> \in BeatsToLock
      BY <2>1 DEF BeatsToLock, Row
    <2>. QED  BY <1>1, <1>4, <1>5, <1>8, <1>9, <2>1, <2>2
  <1>11. TargetsHold(a)'
    BY <1>1, <1>2, <1>4, <1>6, <1>10 DEF TargetsHold, Locks, LeftOn
  <1>. QED  BY <1>7, <1>11

\* Locking the next rows keeps the invariant.
LEMMA AcquireKeeps ==
    ASSUME FanoutInv, NEW a \in Actors, Acquire(a)
    PROVE  FanoutInv'
  <1>1. /\ txn'[a].kind = txn[a].kind /\ txn'[a].arg = txn[a].arg /\ txn'[a].at = txn[a].at + 1
        /\ txn'[a].rows = txn[a].rows \cup NextRows(a) /\ txn'[a].ready = ReadyRead(a)
        /\ Pending(a) /\ txn[a] \in TxnRow /\ TxnHolds(a) /\ txn[a].at \in 0 .. 4 /\ txn[a].kind # "none"
    BY Acquired
  <1>2. PICK target \in TargetsRead(a) :
           txn' = [txn EXCEPT ![a].at = @ + 1, ![a].rows = @ \cup NextRows(a),
                              ![a].ready = ReadyRead(a), ![a].target = target]
    BY DEF Acquire
  <1>. DEFINE c == [txn[a] EXCEPT !.at = @ + 1, !.rows = @ \cup NextRows(a), !.ready = ReadyRead(a), !.target = target]
  <1>3. txn \in [Actors -> TxnRow] /\ UNCHANGED <<main, exec, progress, child, leased, node, seat, fresh>>
    BY DEF FanoutInv, FanoutTypeOK, Acquire
  <1>4. txn' = [txn EXCEPT ![a] = c] /\ txn'[a] = c
    BY <1>2, <1>3
  <1>5. ReadyRead(a) \subseteq AllSteps
    <2>1. CASE txn[a].kind = "fan-in"
      <3>1. FanInHolds(a)' /\ a \in AllSteps
        BY <1>1, <2>1, AcquiredFanIn DEF TxnHolds, FanInHolds
      <3>2. ToDispatch(a, Of[a])'
        BY <1>1, <2>1, <3>1 DEF FanInHolds
      <3>. QED  BY <1>1, <3>1, <3>2, StepsOfPlans DEF ToDispatch
    <2>2. CASE txn[a].kind # "fan-in"
      BY <1>1, <2>2 DEF ReadyRead, TxnRow
    <2>. QED  BY <2>1, <2>2
  <1>6. target \in Targets
    <2>1. target = txn'[a].target
      BY <1>1, <1>4
    <2>2. <<>> \in Targets
      BY DEF Targets
    <2>. QED  BY <2>1, <2>2, AcquiredTargets
  <1>7. c \in TxnRow
    <2>1. txn[a].at + 1 \in 0 .. 5
      BY <1>1
    <2>2. txn[a].rows \cup NextRows(a) \in SUBSET (Tables \X RowIds)
      BY <1>1, NextRowsType DEF TxnRow
    <2>. QED  BY <1>1, <1>5, <1>6, <2>1, <2>2 DEF TxnRow
  <1>8. \A b \in Actors \ {a} : \A r \in c.rows \cap txn[b].rows : r[1] = "plan"
    <2>1. c.rows = txn[a].rows \cup NextRows(a)
      BY <1>1, <1>4
    <2>2. CanLock(a, NextRows(a))
      BY DEF Acquire
    <2>. QED  BY <2>1, <2>2 DEF CanLock, Conflicts, FanoutInv, RowsApart
  <1>9. TxnHolds(a)'
    <2>1. StartHolds(a)'
      BY <1>1, AcquiredStart DEF StartHolds
    <2>2. FanInHolds(a)'
      BY <1>1, AcquiredFanIn DEF FanInHolds
    <2>3. ClaimHolds(a)'
      BY <1>1, AcquiredClaim DEF ClaimHolds
    <2>4. StepHolds(a)'
      BY <1>1, AcquiredStep DEF StepHolds
    <2>5. TargetsHold(a)'
      BY AcquiredTargets DEF TargetsHold
    <2>6. txn[a].kind # "fan-in" /\ txn[a].kind # "start" => ReadyRead(a) = {}
      BY <1>1 DEF ReadyRead, TxnHolds
    <2>. QED  BY <1>1, <2>1, <2>2, <2>3, <2>4, <2>5, <2>6 DEF TxnHolds
  <1>. HIDE DEF c
  <1>. QED  BY <1>3, <1>4, <1>7, <1>8, <1>9, QuietStep

-----------------------------------------------------------------------------
(* Steps that write. *)

\* Such a step keeps what the transactions hold; of the rows it remains to be shown.
LEMMA WritingStep ==
    ASSUME FanoutInv, FanoutTypeOK', NEW A, NEW R, Gentle(A, R), \A a \in A \cap Actors : txn'[a] = Closed,
           StepsInOrder', PlansCount', SlotsRespected'
    PROVE  FanoutInv'
  <1>1. \A b \in Actors \ A : TxnHolds(b)'
    BY OthersHold
  <1>2. \A a \in A \cap Actors : TxnHolds(a)'
    BY ClosedHolds
  <1>3. RowsApart'
    <2>. SUFFICES ASSUME NEW x \in Actors, NEW y \in Actors, x # y, NEW r \in txn'[x].rows \cap txn'[y].rows
                  PROVE  r[1] = "plan"
      BY DEF RowsApart
    <2>1. x \notin A /\ y \notin A
      BY ClosedType
    <2>. QED  BY <2>1 DEF Gentle, FanoutInv, RowsApart
  <1>. QED  BY <1>1, <1>2, <1>3 DEF FanoutInv

\* A transaction that commits has all its rows, and nobody else has them.
LEMMA Committed ==
    ASSUME FanoutInv, NEW a \in Actors, NEW kind, Commit(a, kind)
    PROVE  /\ txn[a].kind = kind /\ txn[a] \in TxnRow /\ TxnHolds(a) /\ ~Pending(a)
           /\ txn' \in [Actors -> TxnRow] /\ txn'[a] = Closed
           /\ \A b \in Actors \ {a} : txn'[b] = txn[b]
           /\ \A b \in Actors \ {a} : \A r \in txn[a].rows \cap txn[b].rows : r[1] = "plan"
           /\ txn[a].at \in 0 .. 5
  <1>1. txn[a].kind = kind /\ ~Pending(a) /\ txn' = [txn EXCEPT ![a] = Closed] /\ txn \in [Actors -> TxnRow]
    BY DEF Commit, FanoutInv, FanoutTypeOK
  <1>2. txn' \in [Actors -> TxnRow] /\ txn'[a] = Closed /\ \A b \in Actors \ {a} : txn'[b] = txn[b]
    BY <1>1, ClosedType
  <1>3. \A b \in Actors \ {a} : \A r \in txn[a].rows \cap txn[b].rows : r[1] = "plan"
    BY DEF FanoutInv, RowsApart
  <1>4. txn[a] \in TxnRow /\ TxnHolds(a) /\ txn[a].at \in 0 .. 5
    BY <1>1 DEF FanoutInv, TxnRow
  <1>. QED  BY <1>1, <1>2, <1>3, <1>4

\* Fewer active assignments take no more slots.
LEMMA FewerSlots ==
    ASSUME NEW m \in Machines, SlotsRespected, FanoutTypeOK',
           \A t \in AllSteps : seat'[t].machine = m /\ seat'[t].status \in ActiveSeat =>
                                  seat[t].machine = m /\ seat[t].status \in ActiveSeat
    PROVE  Reserved(m)' <= Capacity[m]
  <1>. DEFINE old == ActiveOn(m)
              new == {s \in AllSteps : seat'[s].machine = m /\ seat'[s].status \in ActiveSeat}
  <1>1. Reserved(m) = Cardinality(old) /\ Reserved(m)' = Cardinality(new) /\ Reserved(m) <= Capacity[m]
    BY DEF SlotsRespected, Reserved, Used, ActiveOn
  <1>2. new \subseteq old /\ old \subseteq AllSteps /\ Capacity[m] \in Nat
    BY FanoutAssumption DEF ActiveOn
  <1>. HIDE DEF old, new
  <1>3. Cardinality(old) \in Nat /\ Cardinality(new) \in Nat /\ Cardinality(new) <= Cardinality(old)
    BY <1>2, ActiveFinite
  <1>. QED  BY <1>1, <1>2, <1>3

\* Leases and heartbeats are no part of the invariant.
LEMMA IdleKeeps ==
    ASSUME FanoutInv, UNCHANGED <<main, progress, child, node, seat, txn>>, DOMAIN fresh' = Machines
    PROVE  FanoutInv'
  <1>1. FanoutTypeOK'
    BY DEF FanoutInv, FanoutTypeOK
  <1>2. Gentle({}, {})
    BY DEF Gentle
  <1>3. StepsInOrder' /\ PlansCount' /\ SlotsRespected'
    BY DEF FanoutInv, StepsInOrder, PlansCount, SlotsRespected, Reserved, Used
  <1>. QED  BY <1>1, <1>2, <1>3, WritingStep

\* Cancellations, leases and heartbeats, on rows nobody holds.
LEMMA OutsidersKeep ==
    ASSUME FanoutInv,
           \/ \E s \in AllSteps : CancelChild(s) \/ LeaseEnds(s)
           \/ \E e \in Plans : CancelMain(e)
           \/ \E m \in DOMAIN fresh : Silence(m) \/ Heartbeat(m)
    PROVE  FanoutInv'
  <1>1. ASSUME NEW s \in AllSteps, CancelChild(s) PROVE FanoutInv'
    <2>1. /\ child[s] \in {"queued", "running"} /\ \A b \in Actors : <<"task", s>> \notin txn[b].rows
          /\ child' = [child EXCEPT ![s] = IF child[s] = "running" /\ leased[s] THEN "cancel_requested" ELSE "cancelled"]
          /\ UNCHANGED <<main, exec, progress, leased, node, seat, fresh, txn>>
      BY <1>1 DEF CancelChild, RowFree
    <2>2. /\ child'[s] \in {"cancel_requested", "cancelled"} /\ \A t \in AllSteps \ {s} : child'[t] = child[t]
          /\ child[s] \in ActiveTask
      BY <2>1 DEF FanoutInv, FanoutTypeOK, ActiveTask
    <2>3. FanoutTypeOK'
      BY <2>1, <2>2 DEF FanoutInv, FanoutTypeOK, TaskStates
    <2>4. Gentle({}, {})
      BY <2>1, <2>2 DEF Gentle
    <2>5. main[Of[s]] # "none" /\ main[Of[s]] # "completed" /\ seat[s].status # "none" /\ seat[s].status # "cancelled"
      BY <2>1, <2>2, StepsOfPlans DEF FanoutInv, StepsInOrder, PlansCount, ActiveTask
    <2>6. StepsInOrder'
      <3>1. \A e \in Plans : main[e] = "none" => \A t \in StepsOf[e] : child'[t] = "none"
        BY <2>2, <2>5, StepsOfPlans DEF FanoutInv, StepsInOrder
      <3>2. \A t \in AllSteps :
              /\ child'[t] \in {"none", "pending"} <=> seat[t].status = "none"
              /\ child'[t] \in ActiveTask => seat[t].status # "cancelled"
        BY <2>2, <2>5 DEF FanoutInv, StepsInOrder
      <3>. QED  BY <2>1, <3>1, <3>2 DEF FanoutInv, StepsInOrder
    <2>7. PlansCount'
      <3>. SUFFICES ASSUME NEW e \in Plans
                    PROVE  /\ main[e] = "completed" => \A t \in StepsOf[e] : node[t] = "completed" /\ child'[t] = "completed"
                           /\ main[e] = "queued" /\ progress[e] = "queued" =>
                                 \E t \in StepsOf[e] : \/ child'[t] \in ActiveTask
                                                       \/ child'[t] = "cancelled" /\ seat[t].status # "cancelled"
        BY <2>1 DEF PlansCount
      <3>1. main[e] = "completed" => \A t \in StepsOf[e] : node[t] = "completed" /\ child'[t] = "completed"
        BY <2>2, <2>5, StepsOfPlans DEF FanoutInv, PlansCount
      <3>2. ASSUME main[e] = "queued", progress[e] = "queued"
            PROVE  \E t \in StepsOf[e] : \/ child'[t] \in ActiveTask
                                         \/ child'[t] = "cancelled" /\ seat[t].status # "cancelled"
        <4>1. PICK t \in StepsOf[e] : \/ child[t] \in ActiveTask
                                      \/ child[t] = "cancelled" /\ seat[t].status # "cancelled"
          BY <3>2 DEF FanoutInv, PlansCount
        <4>2. t \in AllSteps
          BY StepsOfPlans
        <4>3. CASE t = s
          BY <2>2, <2>5, <4>1, <4>3 DEF ActiveTask
        <4>4. CASE t # s
          BY <2>2, <4>1, <4>2, <4>4
        <4>. QED  BY <4>3, <4>4
      <3>. QED  BY <3>1, <3>2
    <2>8. SlotsRespected'
      BY <2>1 DEF FanoutInv, SlotsRespected, Reserved, Used
    <2>. QED  BY <2>3, <2>4, <2>6, <2>7, <2>8, WritingStep
  <1>2. ASSUME NEW e \in Plans, CancelMain(e) PROVE FanoutInv'
    <2>1. /\ main[e] = "queued" /\ main' = [main EXCEPT ![e] = "cancelled"]
          /\ UNCHANGED <<exec, progress, child, leased, node, seat, fresh, txn>>
      BY <1>2 DEF CancelMain
    <2>2. main'[e] = "cancelled" /\ \A f \in Plans \ {e} : main'[f] = main[f]
      BY <2>1 DEF FanoutInv, FanoutTypeOK
    <2>3. FanoutTypeOK'
      BY <2>1 DEF FanoutInv, FanoutTypeOK
    <2>4. Gentle({}, {})
      BY <2>1, <2>2 DEF Gentle
    <2>5. StepsInOrder' /\ PlansCount'
      BY <2>1, <2>2 DEF FanoutInv, StepsInOrder, PlansCount
    <2>6. SlotsRespected'
      BY <2>1 DEF FanoutInv, SlotsRespected, Reserved, Used
    <2>. QED  BY <2>3, <2>4, <2>5, <2>6, WritingStep
  <1>3. ASSUME NEW s \in AllSteps, LeaseEnds(s) PROVE FanoutInv'
    BY <1>3, IdleKeeps DEF LeaseEnds, FanoutInv, FanoutTypeOK
  <1>4. ASSUME NEW m \in DOMAIN fresh, Silence(m) \/ Heartbeat(m) PROVE FanoutInv'
    BY <1>4, IdleKeeps DEF Silence, Heartbeat, FanoutInv, FanoutTypeOK
  <1>. QED  BY <1>1, <1>2, <1>3, <1>4

\* A worker's commit: the task of the child and its assignment are its own, and it is active.
LEMMA WorkerCommits ==
    ASSUME FanoutInv, NEW s \in AllSteps, NEW kind \in {"claim", "step-claim", "transition"}, Commit(s, kind),
           UNCHANGED <<main, progress, fresh>>,
           child[s] \in {"queued", "running"}, child'[s] = "running", \A t \in AllSteps \ {s} : child'[t] = child[t],
           <<"seat", s>> \in txn[s].rows, seat[s].status \in ActiveSeat,
           seat'[s].status \in {"queued", "running", "completed", "failed"},
           \A t \in AllSteps \ {s} : seat'[t] = seat[t],
           \A t \in AllSteps \ {s} : node'[t] = node[t], node[s] # "completed" \/ node'[s] = node[s],
           seat'[s].status \in ActiveSeat =>
               seat'[s].machine = seat[s].machine \/ <<"beat", seat'[s].machine>> \in txn[s].rows
    PROVE  Gentle({s}, txn[s].rows) /\ StepsInOrder' /\ PlansCount' /\ txn'[s] = Closed
  <1>0. s \in Actors /\ child[s] \in ActiveTask
    BY StepsOfPlans DEF ActiveTask
  <1>1. /\ txn'[s] = Closed /\ \A b \in Actors \ {s} : txn'[b] = txn[b]
        /\ \A b \in Actors \ {s} : \A r \in txn[s].rows \cap txn[b].rows : r[1] = "plan"
    BY <1>0, Committed
  <1>2. /\ main[Of[s]] # "none" /\ main[Of[s]] # "completed" /\ seat[s].status # "none"
        /\ \A d \in DependsOn[s] : node[d] = "completed"
    BY <1>0, StepsOfPlans DEF FanoutInv, StepsInOrder, PlansCount, ActiveTask, ActiveSeat
  <1>3. Gentle({s}, txn[s].rows)
    BY <1>0, <1>1, <1>2 DEF Gentle
  <1>4. StepsInOrder'
    <2>1. \A e \in Plans : main[e] = "none" => \A t \in StepsOf[e] : child'[t] = "none"
      BY <1>2, StepsOfPlans DEF FanoutInv, StepsInOrder
    <2>2. \A t \in AllSteps :
            /\ child'[t] \in {"none", "pending"} <=> seat'[t].status = "none"
            /\ node'[t] # "planned" => seat'[t].status # "none"
            /\ child'[t] \in ActiveTask => seat'[t].status # "cancelled"
      BY DEF FanoutInv, StepsInOrder
    <2>3. \A d \in AllSteps : node[d] = "completed" => node'[d] = "completed"
      OBVIOUS
    <2>4. \A t \in AllSteps : seat'[t].status # "none" => \A d \in DependsOn[t] : node'[d] = "completed"
      BY <1>2, <2>3, StepsOfPlans DEF FanoutInv, StepsInOrder
    <2>. QED  BY <2>1, <2>2, <2>4 DEF StepsInOrder
  <1>5. PlansCount'
    <2>. SUFFICES ASSUME NEW e \in Plans
                  PROVE  /\ main[e] = "completed" => \A t \in StepsOf[e] : node'[t] = "completed" /\ child'[t] = "completed"
                         /\ main[e] = "queued" /\ progress[e] = "queued" =>
                               \E t \in StepsOf[e] : \/ child'[t] \in ActiveTask
                                                     \/ child'[t] = "cancelled" /\ seat'[t].status # "cancelled"
      BY DEF PlansCount
    <2>1. main[e] = "completed" => \A t \in StepsOf[e] : node'[t] = "completed" /\ child'[t] = "completed"
      BY <1>2, StepsOfPlans DEF FanoutInv, PlansCount
    <2>2. ASSUME main[e] = "queued", progress[e] = "queued"
          PROVE  \E t \in StepsOf[e] : \/ child'[t] \in ActiveTask
                                       \/ child'[t] = "cancelled" /\ seat'[t].status # "cancelled"
      <3>1. PICK t \in StepsOf[e] : \/ child[t] \in ActiveTask
                                    \/ child[t] = "cancelled" /\ seat[t].status # "cancelled"
        BY <2>2 DEF FanoutInv, PlansCount
      <3>2. t \in AllSteps
        BY StepsOfPlans
      <3>3. CASE t = s
        BY <3>3 DEF ActiveTask
      <3>4. CASE t # s
        BY <3>1, <3>2, <3>4
      <3>. QED  BY <3>3, <3>4
    <2>. QED  BY <2>1, <2>2
  <1>. QED  BY <1>1, <1>3, <1>4, <1>5

\* One more assignment fits where a slot was free.
LEMMA OneMoreSlot ==
    ASSUME NEW m \in Machines, NEW s \in AllSteps, Cardinality(ActiveOn(m)) < Capacity[m],
           \A t \in AllSteps : seat'[t].machine = m /\ seat'[t].status \in ActiveSeat =>
                                  t = s \/ (seat[t].machine = m /\ seat[t].status \in ActiveSeat)
    PROVE  Reserved(m)' <= Capacity[m]
  <1>. DEFINE old == ActiveOn(m)
              new == {t \in AllSteps : seat'[t].machine = m /\ seat'[t].status \in ActiveSeat}
  <1>1. Reserved(m)' = Cardinality(new) /\ Cardinality(old) < Capacity[m]
    BY DEF Reserved, Used
  <1>2. new \subseteq old \cup {s} /\ old \subseteq AllSteps /\ Capacity[m] \in Nat
    BY FanoutAssumption DEF ActiveOn
  <1>. HIDE DEF old, new
  <1>. DEFINE more == old \cup {s}
  <1>3. IsFiniteSet(old) /\ Cardinality(old) \in Nat
    BY <1>2, ActiveFinite
  <1>4. Cardinality(more) <= Cardinality(old) + 1
    <2>1. Cardinality(more) = IF s \in old THEN Cardinality(old) ELSE Cardinality(old) + 1
      BY <1>3, FS_AddElement, Zenon
    <2>. HIDE DEF more
    <2>. QED  BY <1>3, <2>1
  <1>5. more \subseteq AllSteps /\ new \subseteq more
    BY <1>2
  <1>. HIDE DEF more
  <1>6. Cardinality(more) \in Nat /\ Cardinality(new) \in Nat /\ Cardinality(new) <= Cardinality(more)
    BY <1>5, ActiveFinite
  <1>. QED  BY <1>1, <1>2, <1>3, <1>4, <1>6

\* A claim commits: the child runs, on its machine or, moved, on the one whose slot it found free.
LEMMA ClaimCommitsKeeps ==
    ASSUME FanoutInv, NEW s \in AllSteps, ClaimCommits(s)
    PROVE  FanoutInv'
  <1>0. s \in Actors /\ FanoutTypeOK
    BY StepsOfPlans DEF FanoutInv
  <1>1. /\ Commit(s, "claim") /\ child' = [child EXCEPT ![s] = "running"]
        /\ seat' = [seat EXCEPT ![s] = IF @.machine = txn[s].arg THEN @ ELSE [status |-> "queued", machine |-> txn[s].arg]]
        /\ UNCHANGED <<main, exec, progress, node, fresh>>
    BY DEF ClaimCommits
  <1>2. txn[s].kind = "claim" /\ txn[s] \in TxnRow /\ TxnHolds(s) /\ ~Pending(s) /\ txn' \in [Actors -> TxnRow]
    BY <1>0, <1>1, Committed
  <1>3. txn[s].at >= 5
    BY <1>0, <1>2, Entire
  <1>4. /\ child[s] \in {"queued", "running"} /\ txn[s].arg \in Machines
        /\ Locks(s, "seat", s) /\ seat[s].status \in ActiveSeat /\ Locks(s, "beat", txn[s].arg)
        /\ seat[s].machine # txn[s].arg => Cardinality(ActiveOn(txn[s].arg)) < Capacity[txn[s].arg]
    BY <1>2, <1>3 DEF TxnHolds, ClaimHolds, TxnRow
  <1>5. /\ child'[s] = "running" /\ \A t \in AllSteps \ {s} : child'[t] = child[t] /\ seat'[t] = seat[t]
        /\ seat[s].machine = txn[s].arg => seat'[s] = seat[s]
        /\ seat[s].machine # txn[s].arg => seat'[s] = [status |-> "queued", machine |-> txn[s].arg]
    BY <1>0, <1>1 DEF FanoutTypeOK
  <1>6. seat'[s] \in SeatRow /\ seat'[s].status \in ActiveSeat /\ seat'[s].machine = txn[s].arg
    <2>1. seat[s] \in SeatRow
      BY <1>0 DEF FanoutTypeOK
    <2>2. CASE seat[s].machine = txn[s].arg
      BY <1>4, <1>5, <2>1, <2>2
    <2>3. CASE seat[s].machine # txn[s].arg
      BY <1>4, <1>5, <2>3 DEF SeatRow, ActiveSeat
    <2>. QED  BY <2>2, <2>3
  <1>7. FanoutTypeOK'
    <2>1. child' \in [AllSteps -> TaskStates]
      BY <1>0, <1>1 DEF FanoutTypeOK, TaskStates
    <2>2. seat' \in [AllSteps -> SeatRow]
      BY <1>0, <1>1, <1>6 DEF FanoutTypeOK
    <2>. QED  BY <1>0, <1>1, <1>2, <2>1, <2>2 DEF FanoutTypeOK
  <1>8. Gentle({s}, txn[s].rows) /\ StepsInOrder' /\ PlansCount' /\ txn'[s] = Closed
    <2>1. "claim" \in {"claim", "step-claim", "transition"} /\ UNCHANGED <<main, progress, fresh>>
      BY <1>1
    <2>2. /\ <<"seat", s>> \in txn[s].rows /\ seat'[s].status \in {"queued", "running", "completed", "failed"}
          /\ \A t \in AllSteps \ {s} : child'[t] = child[t]
          /\ \A t \in AllSteps \ {s} : seat'[t] = seat[t]
          /\ \A t \in AllSteps \ {s} : node'[t] = node[t]
          /\ node[s] # "completed" \/ node'[s] = node[s]
          /\ seat'[s].status \in ActiveSeat =>
               seat'[s].machine = seat[s].machine \/ <<"beat", seat'[s].machine>> \in txn[s].rows
      BY <1>1, <1>4, <1>5, <1>6 DEF Locks, ActiveSeat
    <2>. QED  BY <1>1, <1>4, <1>5, <2>1, <2>2, WorkerCommits
  <1>9. SlotsRespected'
    <2>. SUFFICES ASSUME NEW m \in Machines PROVE Reserved(m)' <= Capacity[m]
      BY DEF SlotsRespected
    <2>1. CASE m = txn[s].arg /\ seat[s].machine # txn[s].arg
      <3>1. Cardinality(ActiveOn(m)) < Capacity[m]
        BY <1>4, <2>1
      <3>2. \A t \in AllSteps : seat'[t].machine = m /\ seat'[t].status \in ActiveSeat =>
                                  t = s \/ (seat[t].machine = m /\ seat[t].status \in ActiveSeat)
        BY <1>5
      <3>. QED  BY <3>1, <3>2, OneMoreSlot
    <2>2. CASE ~(m = txn[s].arg /\ seat[s].machine # txn[s].arg)
      <3>1. \A t \in AllSteps : seat'[t].machine = m /\ seat'[t].status \in ActiveSeat =>
                                  seat[t].machine = m /\ seat[t].status \in ActiveSeat
        BY <1>4, <1>5, <1>6, <2>2
      <3>2. SlotsRespected
        BY DEF FanoutInv
      <3>. QED  BY <1>7, <3>1, <3>2, FewerSlots
    <2>. QED  BY <2>1, <2>2
  <1>. QED  BY <1>0, <1>7, <1>8, <1>9, WritingStep

\* A step is claimed, or ends: its assignment follows, on the same machine.
LEMMA StepCommitsKeep ==
    ASSUME FanoutInv, NEW s \in AllSteps, StepClaimCommits(s) \/ TransitionCommits(s)
    PROVE  FanoutInv'
  <1>0. s \in Actors /\ FanoutTypeOK
    BY StepsOfPlans DEF FanoutInv
  <1>1. PICK kind \in {"step-claim", "transition"}, v \in {"running", "completed", "failed"} :
           /\ Commit(s, kind) /\ node' = [node EXCEPT ![s] = v] /\ seat' = [seat EXCEPT ![s].status = v]
           /\ UNCHANGED <<main, progress, child, leased, fresh>>
    <2>1. CASE StepClaimCommits(s)
      BY <2>1 DEF StepClaimCommits
    <2>2. CASE TransitionCommits(s)
      <3>1. Commit(s, "transition") /\ node' = [node EXCEPT ![s] = txn[s].arg] /\ seat' = [seat EXCEPT ![s].status = txn[s].arg]
            /\ UNCHANGED <<main, progress, child, leased, fresh>>
        BY <2>2 DEF TransitionCommits
      <3>2. txn[s].arg \in {"completed", "failed"}
        BY <1>0, <3>1, Committed DEF TxnHolds, StepHolds
      <3>. QED  BY <3>1, <3>2
    <2>. QED  BY <2>1, <2>2
  <1>2. txn[s].kind = kind /\ txn[s] \in TxnRow /\ TxnHolds(s) /\ ~Pending(s) /\ txn' \in [Actors -> TxnRow]
    BY <1>0, <1>1, Committed
  <1>3. txn[s].at >= 3
    <2>1. txn[s].at \in 0 .. 5 /\ (txn[s].at >= 4 \/ txn[s].at >= 3)
      BY <1>0, <1>2, Entire DEF TxnRow
    <2>. QED  BY <2>1
  <1>4. /\ child[s] = "running" /\ Locks(s, "seat", s) /\ seat[s].status \in ActiveSeat
        /\ node[s] \in {"planned", "running"}
    <2>1. txn[s].at >= 2 /\ StepHolds(s)
      BY <1>2, <1>3 DEF TxnHolds, TxnRow
    <2>. QED  BY <1>2, <1>3, <2>1 DEF StepHolds
  <1>5. /\ \A t \in AllSteps \ {s} : seat'[t] = seat[t] /\ node'[t] = node[t]
        /\ seat'[s].machine = seat[s].machine /\ seat'[s].status = v /\ node'[s] = v
    BY <1>0, <1>1 DEF FanoutTypeOK, SeatRow
  <1>6. FanoutTypeOK'
    <2>1. node' \in [AllSteps -> {"planned", "running", "completed", "failed"}]
      BY <1>0, <1>1 DEF FanoutTypeOK
    <2>2. seat' \in [AllSteps -> SeatRow]
      BY <1>0, <1>1 DEF FanoutTypeOK, SeatRow
    <2>. QED  BY <1>0, <1>1, <1>2, <2>1, <2>2 DEF FanoutTypeOK
  <1>7. Gentle({s}, txn[s].rows) /\ StepsInOrder' /\ PlansCount' /\ txn'[s] = Closed
    <2>1. kind \in {"claim", "step-claim", "transition"} /\ UNCHANGED <<main, progress, fresh>>
      BY <1>1
    <2>2. /\ <<"seat", s>> \in txn[s].rows /\ seat'[s].status \in {"queued", "running", "completed", "failed"}
          /\ child[s] \in {"queued", "running"} /\ child'[s] = "running"
          /\ \A t \in AllSteps \ {s} : child'[t] = child[t]
          /\ \A t \in AllSteps \ {s} : seat'[t] = seat[t]
          /\ \A t \in AllSteps \ {s} : node'[t] = node[t]
          /\ node[s] # "completed" \/ node'[s] = node[s]
          /\ seat'[s].status \in ActiveSeat =>
               seat'[s].machine = seat[s].machine \/ <<"beat", seat'[s].machine>> \in txn[s].rows
      BY <1>1, <1>4, <1>5 DEF Locks
    <2>. QED  BY <1>1, <1>4, <2>1, <2>2, WorkerCommits
  <1>8. SlotsRespected'
    <2>. SUFFICES ASSUME NEW m \in Machines PROVE Reserved(m)' <= Capacity[m]
      BY DEF SlotsRespected
    <2>1. \A t \in AllSteps : seat'[t].machine = m /\ seat'[t].status \in ActiveSeat =>
                                  seat[t].machine = m /\ seat[t].status \in ActiveSeat
      BY <1>4, <1>5
    <2>2. SlotsRespected
      BY DEF FanoutInv
    <2>. QED  BY <1>6, <2>1, <2>2, FewerSlots
  <1>. QED  BY <1>0, <1>6, <1>7, <1>8, WritingStep

\* Dispatched assignments fit where an allocation found free slots.
LEMMA DispatchedFit ==
    ASSUME FanoutInv, FanoutTypeOK', NEW a \in Actors, TargetsHold(a), txn[a].target # <<>>,
           \A t \in AllSteps : SyncedSeats(a)[t].status \in ActiveSeat =>
               seat[t].status \in ActiveSeat /\ seat[t].machine = SyncedSeats(a)[t].machine,
           \A t \in AllSteps : seat'[t] = IF t \in txn[a].ready THEN [status |-> "queued", machine |-> txn[a].target[t]]
                                          ELSE SyncedSeats(a)[t]
    PROVE  SlotsRespected'
  <1>. SUFFICES ASSUME NEW m \in Machines PROVE Reserved(m)' <= Capacity[m]
    BY DEF SlotsRespected
  <1>. DEFINE mine == {t \in txn[a].ready : txn[a].target[t] = m}
              left == LeftOn(a, m)
              new == {t \in AllSteps : seat'[t].machine = m /\ seat'[t].status \in ActiveSeat}
  <1>0. /\ \A t \in AllSteps : t \in txn[a].ready => seat'[t].machine = txn[a].target[t]
        /\ \A t \in AllSteps : t \notin txn[a].ready => seat'[t] = SyncedSeats(a)[t]
    <2>1. ASSUME NEW t \in AllSteps, t \in txn[a].ready PROVE seat'[t].machine = txn[a].target[t]
      <3>1. seat'[t] = [status |-> "queued", machine |-> txn[a].target[t]]
        BY <2>1, Zenon
      <3>. QED  BY <3>1
    <2>2. ASSUME NEW t \in AllSteps, t \notin txn[a].ready PROVE seat'[t] = SyncedSeats(a)[t]
      BY <2>2, Zenon
    <2>. QED  BY <2>1, <2>2
  <1>1. CASE mine = {}
    <2>1. \A t \in AllSteps : seat'[t].machine = m /\ seat'[t].status \in ActiveSeat =>
                                  seat[t].machine = m /\ seat[t].status \in ActiveSeat
      BY <1>0, <1>1
    <2>2. SlotsRespected
      BY DEF FanoutInv
    <2>. QED  BY <2>1, <2>2, FewerSlots
  <1>2. CASE mine # {}
    <2>1. PICK s \in txn[a].ready : txn[a].target[s] = m
      BY <1>2
    <2>2. Cardinality(mine) + Cardinality(left) <= Capacity[m]
      BY <2>1 DEF TargetsHold
    <2>3. mine \subseteq AllSteps /\ left \subseteq AllSteps /\ Capacity[m] \in Nat
      BY FanoutAssumption DEF FanoutInv, FanoutTypeOK, TxnRow, LeftOn
    <2>4. new \subseteq mine \cup left
      BY <1>0 DEF LeftOn
    <2>5. Reserved(m)' = Cardinality(new)
      BY DEF Reserved, Used
    <2>. HIDE DEF mine, left, new
    <2>. DEFINE both == mine \cup left
    <2>6. /\ IsFiniteSet(mine) /\ IsFiniteSet(left) /\ Cardinality(mine) \in Nat /\ Cardinality(left) \in Nat
      BY <2>3, ActiveFinite
    <2>7. IsFiniteSet(mine \cap left) /\ Cardinality(mine \cap left) \in Nat
      BY <2>6, FS_Intersection, FS_CardinalityType
    <2>8. Cardinality(both) = Cardinality(mine) + Cardinality(left) - Cardinality(mine \cap left)
      BY <2>6, FS_Union
    <2>9. both \subseteq AllSteps /\ new \subseteq both
      BY <2>3, <2>4
    <2>. HIDE DEF both
    <2>10. Cardinality(both) \in Nat /\ Cardinality(new) \in Nat /\ Cardinality(new) <= Cardinality(both)
      BY <2>9, ActiveFinite
    <2>. QED  BY <2>2, <2>3, <2>5, <2>6, <2>7, <2>8, <2>10
  <1>. QED  BY <1>1, <1>2

\* An admission commits: the roots have assignments where slots were free, or nothing is created.
LEMMA StartCommitsKeeps ==
    ASSUME FanoutInv, NEW e \in Plans, StartCommits(e)
    PROVE  FanoutInv'
  <1>0. e \in Actors /\ FanoutTypeOK /\ Commit(e, "start") /\ UNCHANGED <<leased, node, fresh>>
    BY StepsOfPlans DEF FanoutInv, StartCommits
  <1>1. /\ txn[e].kind = "start" /\ txn[e] \in TxnRow /\ TxnHolds(e) /\ txn' \in [Actors -> TxnRow] /\ txn'[e] = Closed
        /\ \A b \in Actors \ {e} : txn'[b] = txn[b]
        /\ \A b \in Actors \ {e} : \A r \in txn[e].rows \cap txn[b].rows : r[1] = "plan"
    BY <1>0, Committed
  <1>2. main[e] = "none" /\ ToDispatch(e, e) /\ TargetsHold(e) /\ FanInHolds(e)
    BY <1>1 DEF TxnHolds, StartHolds
  <1>3. \A t \in StepsOf[e] : t \in AllSteps /\ Of[t] = e /\ child[t] = "none" /\ seat[t].status = "none"
    BY <1>2, StepsOfPlans DEF FanoutInv, StepsInOrder
  <1>4. CASE txn[e].target = <<>>
    <2>1. progress' = [progress EXCEPT ![e] = "no-machine"] /\ UNCHANGED <<main, exec, child, seat>>
      BY <1>4 DEF StartCommits
    <2>2. FanoutTypeOK'
      BY <1>0, <1>1, <2>1 DEF FanoutTypeOK
    <2>3. Gentle({e}, txn[e].rows)
      BY <1>0, <1>1, <2>1 DEF Gentle
    <2>4. StepsInOrder' /\ SlotsRespected'
      BY <1>0, <2>1 DEF FanoutInv, StepsInOrder, SlotsRespected, Reserved, Used
    <2>5. PlansCount'
      <3>1. \A f \in Plans \ {e} : progress'[f] = progress[f]
        BY <1>0, <2>1 DEF FanoutTypeOK
      <3>. QED  BY <1>0, <1>2, <2>1, <3>1 DEF FanoutInv, PlansCount
    <2>. QED  BY <1>1, <2>2, <2>3, <2>4, <2>5, WritingStep
  <1>5. CASE txn[e].target # <<>>
    <2>. DEFINE roots == txn[e].ready
                target == txn[e].target
    <2>1. /\ main' = [main EXCEPT ![e] = "queued"] /\ progress' = [progress EXCEPT ![e] = "queued"]
          /\ child' = [s \in AllSteps |->
                IF s \in roots THEN "queued" ELSE IF s \in StepsOf[e] THEN "pending" ELSE child[s]]
          /\ seat' = [s \in AllSteps |->
                IF s \in roots THEN [status |-> "queued", machine |-> target[s]] ELSE seat[s]]
      BY <1>5 DEF StartCommits
    <2>2. /\ roots # {} /\ target \in [roots -> Machines] /\ roots \subseteq StepsOf[e]
          /\ \A t \in roots : <<"beat", target[t]>> \in txn[e].rows
          /\ \A t \in roots : node[t] = "planned" /\ \A d \in DependsOn[t] : node[d] = "completed"
      BY <1>2, <1>5 DEF TargetsHold, ToDispatch, Locks
    <2>3. \A t \in roots : t \in AllSteps /\ target[t] \in Machines
      BY <1>3, <2>2
    <2>. HIDE DEF roots, target
    <2>4. /\ \A t \in roots : /\ child'[t] = "queued" /\ seat'[t] \in SeatRow
                               /\ seat'[t].status = "queued" /\ seat'[t].machine = target[t]
          /\ \A t \in AllSteps \ roots : seat'[t] = seat[t]
          /\ \A t \in StepsOf[e] \ roots : child'[t] = "pending"
          /\ \A t \in AllSteps \ StepsOf[e] : child'[t] = child[t] /\ t \notin roots
      BY <1>3, <2>1, <2>2, <2>3 DEF SeatRow
    <2>5. main'[e] = "queued" /\ progress'[e] = "queued" /\ \A f \in Plans \ {e} : main'[f] = main[f] /\ progress'[f] = progress[f]
      BY <1>0, <2>1 DEF FanoutTypeOK
    <2>6. FanoutTypeOK'
      <3>1. child' \in [AllSteps -> TaskStates]
        BY <1>0, <2>1 DEF FanoutTypeOK, TaskStates
      <3>2. seat' \in [AllSteps -> SeatRow]
        <4>1. \A t \in AllSteps : seat'[t] \in SeatRow
          BY <1>0, <2>4 DEF FanoutTypeOK
        <4>. QED  BY <2>1, <4>1
      <3>3. /\ main' \in [Plans -> {"none", "queued", "cancelled", "completed"}]
            /\ progress' \in [Plans -> {"none", "queued", "no-machine", "aggregation-pending"}]
        BY <1>0, <2>1 DEF FanoutTypeOK
      <3>. QED  BY <1>0, <1>1, <3>1, <3>2, <3>3 DEF FanoutTypeOK
    <2>7. Gentle({e}, txn[e].rows)
      <3>1. \A t \in AllSteps :
              /\ seat'[t] # seat[t] => main[Of[t]] = "none"
              /\ child'[t] # child[t] => seat[t].status = "none" /\ main[Of[t]] = "none"
              /\ seat'[t].status \in ActiveSeat =>
                    \/ <<"beat", seat'[t].machine>> \in txn[e].rows
                    \/ seat[t].status \in ActiveSeat /\ seat[t].machine = seat'[t].machine
        BY <1>2, <1>3, <2>2, <2>4
      <3>. QED  BY <1>0, <1>1, <2>5, <3>1 DEF Gentle
    <2>8. StepsInOrder'
      <3>1. \A f \in Plans : main'[f] = "none" => \A t \in StepsOf[f] : child'[t] = "none"
        BY <2>4, <2>5, StepsOfPlans DEF FanoutInv, StepsInOrder
      <3>2. \A t \in AllSteps :
              /\ child'[t] \in {"none", "pending"} <=> seat'[t].status = "none"
              /\ node[t] # "planned" => seat'[t].status # "none"
              /\ seat'[t].status # "none" => \A d \in DependsOn[t] : node[d] = "completed"
              /\ child'[t] \in ActiveTask => seat'[t].status # "cancelled"
        <4>. SUFFICES ASSUME NEW t \in AllSteps
                      PROVE  /\ child'[t] \in {"none", "pending"} <=> seat'[t].status = "none"
                             /\ node[t] # "planned" => seat'[t].status # "none"
                             /\ seat'[t].status # "none" => \A d \in DependsOn[t] : node[d] = "completed"
                             /\ child'[t] \in ActiveTask => seat'[t].status # "cancelled"
          OBVIOUS
        <4>1. CASE t \in roots
          BY <2>2, <2>4, <4>1
        <4>2. CASE t \in StepsOf[e] \ roots
          BY <1>3, <2>4, <4>2 DEF FanoutInv, StepsInOrder
        <4>3. CASE t \notin StepsOf[e]
          BY <2>4, <4>3 DEF FanoutInv, StepsInOrder
        <4>. QED  BY <4>1, <4>2, <4>3
      <3>. QED  BY <1>0, <3>1, <3>2 DEF StepsInOrder
    <2>9. PlansCount'
      <3>. SUFFICES ASSUME NEW f \in Plans
                    PROVE  /\ main'[f] = "completed" => \A t \in StepsOf[f] : node'[t] = "completed" /\ child'[t] = "completed"
                           /\ main'[f] = "queued" /\ progress'[f] = "queued" =>
                                 \E t \in StepsOf[f] : \/ child'[t] \in ActiveTask
                                                       \/ child'[t] = "cancelled" /\ seat'[t].status # "cancelled"
        BY DEF PlansCount
      <3>1. CASE f = e
        BY <2>2, <2>4, <2>5, <3>1 DEF ActiveTask
      <3>2. CASE f # e
        <4>1. \A t \in StepsOf[f] : child'[t] = child[t] /\ seat'[t] = seat[t]
          BY <2>4, <3>2, StepsOfPlans
        <4>. QED  BY <1>0, <2>5, <3>2, <4>1 DEF FanoutInv, PlansCount
      <3>. QED  BY <3>1, <3>2
    <2>10. SlotsRespected'
      <3>1. \A t \in AllSteps : SyncedSeats(e)[t] = seat[t]
        BY <1>0, <1>1, <1>2, SyncedKeeps DEF Keeps
      <3>2. /\ \A t \in AllSteps : SyncedSeats(e)[t].status \in ActiveSeat =>
                  seat[t].status \in ActiveSeat /\ seat[t].machine = SyncedSeats(e)[t].machine
            /\ \A t \in AllSteps : seat'[t] = IF t \in txn[e].ready THEN [status |-> "queued", machine |-> txn[e].target[t]]
                                               ELSE SyncedSeats(e)[t]
        BY <2>1, <3>1 DEF roots, target
      <3>. QED  BY <1>0, <1>2, <1>5, <2>6, <3>2, DispatchedFit
    <2>. QED  BY <1>1, <2>6, <2>7, <2>8, <2>9, <2>10, WritingStep
  <1>. QED  BY <1>4, <1>5

-----------------------------------------------------------------------------
(* Fan-ins. *)

\* What a fan-in that commits has checked, and holds.
LEMMA FanInCommitted ==
    ASSUME FanoutInv, NEW s \in AllSteps, StoreCallback(s)
    PROVE  /\ s \in Actors /\ Plan(s) = Of[s] /\ Of[s] \in Plans /\ s \in StepsOf[Of[s]] /\ FanoutTypeOK
           /\ txn[s].kind = "fan-in" /\ txn[s] \in TxnRow /\ TxnHolds(s) /\ txn' \in [Actors -> TxnRow] /\ txn'[s] = Closed
           /\ \A b \in Actors \ {s} : txn'[b] = txn[b]
           /\ \A b \in Actors \ {s} : \A r \in txn[s].rows \cap txn[b].rows : r[1] = "plan"
           /\ FanInHolds(s) /\ child[s] \in {"running", "cancel_requested"}
           /\ <<"main", Of[s]>> \in txn[s].rows /\ main[Of[s]] # "none" /\ main[Of[s]] # "completed"
           /\ \A t \in StepsOf[Of[s]] : <<"seat", t>> \in txn[s].rows
           /\ \A t \in txn[s].ready : /\ t \in StepsOf[Of[s]] /\ seat[t].status = "none" /\ node[t] = "planned"
                                      /\ \A d \in DependsOn[t] : node[d] = "completed"
           /\ \A t \in AllSteps : Keeps(s, t)
           /\ Outcome(s) \in {"cancelled", "completed", "failed"}
           /\ node' = node /\ fresh' = fresh
  <1>0. s \in Actors /\ Plan(s) = Of[s] /\ Of[s] \in Plans /\ s \in StepsOf[Of[s]] /\ FanoutTypeOK
    BY StepsOfPlans DEF FanoutInv
  <1>1. Commit(s, "fan-in") /\ node' = node /\ fresh' = fresh
    BY DEF StoreCallback
  <1>2. /\ txn[s].kind = "fan-in" /\ txn[s] \in TxnRow /\ TxnHolds(s) /\ txn' \in [Actors -> TxnRow] /\ txn'[s] = Closed
        /\ \A b \in Actors \ {s} : txn'[b] = txn[b]
        /\ \A b \in Actors \ {s} : \A r \in txn[s].rows \cap txn[b].rows : r[1] = "plan"
        /\ ~Pending(s) /\ txn[s].at \in 0 .. 5
    BY <1>0, <1>1, Committed
  <1>3. txn[s].at >= 3
    BY <1>0, <1>2, Entire
  <1>4. txn[s].at >= 1
    BY <1>2, <1>3
  <1>5. FanInHolds(s)
    BY <1>2 DEF TxnHolds
  <1>6. /\ child[s] \in {"running", "cancel_requested"} /\ txn[s].arg \in {"completed", "failed"}
        /\ <<"main", Of[s]>> \in txn[s].rows /\ main[Of[s]] # "none"
        /\ \A t \in StepsOf[Of[s]] : <<"seat", t>> \in txn[s].rows
        /\ \A t \in txn[s].ready : /\ t \in StepsOf[Of[s]] /\ seat[t].status = "none" /\ node[t] = "planned"
                                   /\ \A d \in DependsOn[t] : node[d] = "completed"
    BY <1>2, <1>3, <1>4, <1>5 DEF FanInHolds, Locks, ToDispatch
  <1>7. main[Of[s]] # "completed"
    BY <1>0, <1>6 DEF FanoutInv, PlansCount
  <1>8. \A t \in AllSteps : Keeps(s, t)
    BY <1>0, <1>5, SyncedKeeps
  <1>9. Outcome(s) \in {"cancelled", "completed", "failed"}
    BY <1>6 DEF Outcome
  <1>. QED  BY <1>0, <1>1, <1>2, <1>5, <1>6, <1>7, <1>8, <1>9

\* A fan-in stores its callback and what the children came to, and dispatches the steps of D.
LEMMA FanInStores ==
    ASSUME FanoutInv, NEW s \in AllSteps, StoreCallback(s), NEW D \in SUBSET AllSteps,
           D # {} => D = txn[s].ready /\ txn[s].target # <<>>,
           seat' = [t \in AllSteps |-> IF t \in D THEN [status |-> "queued", machine |-> txn[s].target[t]]
                                       ELSE SyncedSeats(s)[t]],
           child' = [t \in AllSteps |-> IF t \in D THEN "queued" ELSE [child EXCEPT ![s] = Outcome(s)][t]],
           main' \in [Plans -> {"none", "queued", "cancelled", "completed"}],
           progress' \in [Plans -> {"none", "queued", "no-machine", "aggregation-pending"}],
           \A f \in Plans \ {Of[s]} : main'[f] = main[f] /\ progress'[f] = progress[f],
           main'[Of[s]] \in {main[Of[s]], "completed"},
           main'[Of[s]] = "completed" => \A t \in StepsOf[Of[s]] : node[t] = "completed" /\ child'[t] = "completed",
           main'[Of[s]] = "queued" /\ progress'[Of[s]] = "queued" => \E t \in StepsOf[Of[s]] : child'[t] \in ActiveTask
    PROVE  FanoutInv'
  <1>. DEFINE R == txn[s].rows
              target == txn[s].target
  <1>1. /\ s \in Actors /\ Plan(s) = Of[s] /\ Of[s] \in Plans /\ s \in StepsOf[Of[s]] /\ FanoutTypeOK
        /\ txn[s].kind = "fan-in" /\ txn[s] \in TxnRow /\ TxnHolds(s) /\ txn' \in [Actors -> TxnRow] /\ txn'[s] = Closed
        /\ \A b \in Actors \ {s} : txn'[b] = txn[b]
        /\ \A b \in Actors \ {s} : \A r \in R \cap txn[b].rows : r[1] = "plan"
        /\ child[s] \in {"running", "cancel_requested"}
        /\ <<"main", Of[s]>> \in R /\ main[Of[s]] # "none"
        /\ \A t \in StepsOf[Of[s]] : <<"seat", t>> \in R
        /\ \A t \in AllSteps : Keeps(s, t)
        /\ Outcome(s) \in {"cancelled", "completed", "failed"} /\ node' = node /\ fresh' = fresh
    BY FanInCommitted
  <1>2. \A t \in D : /\ t \in StepsOf[Of[s]] /\ t \in AllSteps /\ Of[t] = Of[s]
                     /\ seat[t].status = "none" /\ node[t] = "planned"
                     /\ \A d \in DependsOn[t] : node[d] = "completed"
    BY <1>1, FanInCommitted, StepsOfPlans
  <1>3. \A t \in D : target[t] \in Machines /\ <<"beat", target[t]>> \in R
    BY <1>1 DEF TxnHolds, TargetsHold, Locks
  <1>. HIDE DEF R, target
  <1>4. /\ \A t \in D : /\ child'[t] = "queued" /\ seat'[t] = [status |-> "queued", machine |-> target[t]]
                        /\ seat'[t].status = "queued" /\ seat'[t].machine = target[t]
        /\ \A t \in AllSteps \ D : seat'[t] = SyncedSeats(s)[t]
        /\ s \notin D /\ child'[s] = Outcome(s)
        /\ \A t \in AllSteps : t \notin D /\ t # s => child'[t] = child[t]
    <2>1. s \notin D
      BY <1>1, <1>2 DEF FanoutInv, StepsInOrder, ActiveTask
    <2>2. \A t \in D : child'[t] = "queued" /\ seat'[t] = [status |-> "queued", machine |-> target[t]]
      BY DEF target
    <2>3. /\ \A t \in AllSteps \ D : seat'[t] = SyncedSeats(s)[t]
          /\ \A t \in AllSteps \ D : child'[t] = [child EXCEPT ![s] = Outcome(s)][t]
      OBVIOUS
    <2>4. child'[s] = Outcome(s) /\ \A t \in AllSteps : t \notin D /\ t # s => child'[t] = child[t]
      BY <1>1, <2>1, <2>3 DEF FanoutTypeOK
    <2>. QED  BY <2>1, <2>2, <2>3, <2>4
  <1>5. FanoutTypeOK'
    <2>1. \A t \in AllSteps : child'[t] \in TaskStates
      BY <1>1, <1>4 DEF FanoutTypeOK, TaskStates
    <2>2. \A t \in AllSteps : seat'[t] \in SeatRow
      <3>. TAKE t \in AllSteps
      <3>1. CASE t \in D
        BY <1>3, <1>4, <3>1 DEF SeatRow
      <3>2. CASE t \notin D
        BY <1>1, <1>4, <3>2 DEF Keeps
      <3>. QED  BY <3>1, <3>2
    <2>3. child' \in [AllSteps -> TaskStates] /\ seat' \in [AllSteps -> SeatRow]
      BY <2>1, <2>2
    <2>. QED  BY <1>1, <2>3 DEF FanoutTypeOK
  <1>6. Gentle({s}, R)
    <2>1. \A t \in AllSteps : seat'[t] # seat[t] => <<"seat", t>> \in R
      BY <1>1, <1>2, <1>4, StepsOfPlans DEF Keeps
    <2>2. \A t \in AllSteps : child'[t] # child[t] => t \in {s} \/ seat[t].status = "none"
      BY <1>2, <1>4
    <2>3. \A t \in AllSteps : child'[t] \in ActiveTask /\ child[t] \notin ActiveTask => <<"main", Of[t]>> \in R
      BY <1>1, <1>2, <1>4 DEF ActiveTask
    <2>4. \A t \in AllSteps : seat'[t].status \in ActiveSeat =>
              \/ <<"beat", seat'[t].machine>> \in R
              \/ seat[t].status \in ActiveSeat /\ seat[t].machine = seat'[t].machine
      BY <1>1, <1>3, <1>4 DEF Keeps
    <2>5. /\ \A e \in Plans : main[e] # "none" => main'[e] # "none"
          /\ \A e \in Plans : main[e] = "none" => main'[e] = "none"
      BY <1>1
    <2>. QED  BY <1>1, <2>1, <2>2, <2>3, <2>4, <2>5 DEF Gentle
  <1>7. StepsInOrder'
    <2>1. \A e \in Plans : main'[e] = "none" => \A t \in StepsOf[e] : child'[t] = "none"
      <3>. SUFFICES ASSUME NEW e \in Plans, main'[e] = "none", NEW t \in StepsOf[e] PROVE child'[t] = "none"
        OBVIOUS
      <3>1. main[e] = "none" /\ e # Of[s] /\ child[t] = "none" /\ t \in AllSteps /\ Of[t] = e
        BY <1>1, StepsOfPlans DEF FanoutInv, StepsInOrder
      <3>. QED  BY <1>1, <1>2, <1>4, <3>1
    <2>2. ASSUME NEW t \in AllSteps
          PROVE  /\ child'[t] \in {"none", "pending"} <=> seat'[t].status = "none"
                 /\ node[t] # "planned" => seat'[t].status # "none"
                 /\ seat'[t].status # "none" => \A d \in DependsOn[t] : node[d] = "completed"
                 /\ child'[t] \in ActiveTask => seat'[t].status # "cancelled"
      <3>0. /\ child[t] \in {"none", "pending"} <=> seat[t].status = "none"
            /\ node[t] # "planned" => seat[t].status # "none"
            /\ seat[t].status # "none" => \A d \in DependsOn[t] : node[d] = "completed"
            /\ child[t] \in ActiveTask => seat[t].status # "cancelled"
            /\ Keeps(s, t)
        BY <1>1 DEF FanoutInv, StepsInOrder
      <3>1. CASE t \in D
        BY <1>2, <1>4, <3>1
      <3>2. CASE t = s
        BY <1>1, <1>4, <3>0, <3>2 DEF Keeps, ActiveTask
      <3>3. CASE t \notin D /\ t # s
        BY <1>1, <1>4, <3>0, <3>3 DEF Keeps
      <3>. QED  BY <3>1, <3>2, <3>3
    <2>. QED  BY <1>1, <2>1, <2>2 DEF StepsInOrder
  <1>8. SlotsRespected'
    <2>1. \A t \in AllSteps : SyncedSeats(s)[t].status \in ActiveSeat =>
             seat[t].status \in ActiveSeat /\ seat[t].machine = SyncedSeats(s)[t].machine
      BY <1>1 DEF Keeps
    <2>2. CASE D = {}
      <3>. SUFFICES ASSUME NEW m \in Machines PROVE Reserved(m)' <= Capacity[m]
        BY DEF SlotsRespected
      <3>1. \A t \in AllSteps : seat'[t].machine = m /\ seat'[t].status \in ActiveSeat =>
                                  seat[t].machine = m /\ seat[t].status \in ActiveSeat
        BY <1>4, <2>1, <2>2
      <3>2. SlotsRespected
        BY DEF FanoutInv
      <3>. QED  BY <1>5, <3>1, <3>2, FewerSlots
    <2>3. CASE D # {}
      <3>1. D = txn[s].ready /\ txn[s].target # <<>> /\ TargetsHold(s)
        BY <1>1, <2>3 DEF TxnHolds
      <3>2. \A t \in AllSteps : seat'[t] = IF t \in txn[s].ready THEN [status |-> "queued", machine |-> txn[s].target[t]]
                                          ELSE SyncedSeats(s)[t]
        BY <3>1
      <3>. QED  BY <1>1, <1>5, <2>1, <3>1, <3>2, DispatchedFit
    <2>. QED  BY <2>2, <2>3
  <1>9. PlansCount'
    <2>. SUFFICES ASSUME NEW e \in Plans
                  PROVE  /\ main'[e] = "completed" => \A t \in StepsOf[e] : node'[t] = "completed" /\ child'[t] = "completed"
                         /\ main'[e] = "queued" /\ progress'[e] = "queued" =>
                               \E t \in StepsOf[e] : \/ child'[t] \in ActiveTask
                                                     \/ child'[t] = "cancelled" /\ seat'[t].status # "cancelled"
      BY DEF PlansCount
    <2>1. CASE e = Of[s]
      BY <1>1, <2>1
    <2>2. CASE e # Of[s]
      <3>1. \A t \in StepsOf[e] : child'[t] = child[t] /\ seat'[t] = seat[t]
        BY <1>1, <1>2, <1>4, <2>2, StepsOfPlans DEF Keeps
      <3>2. main'[e] = main[e] /\ progress'[e] = progress[e] /\ node' = node /\ PlansCount
        BY <1>1, <2>2 DEF FanoutInv
      <3>3. main[e] = "completed" => \A t \in StepsOf[e] : node[t] = "completed" /\ child[t] = "completed"
        BY <3>2 DEF PlansCount
      <3>4. ASSUME main[e] = "queued", progress[e] = "queued"
            PROVE  \E t \in StepsOf[e] : \/ child'[t] \in ActiveTask
                                         \/ child'[t] = "cancelled" /\ seat'[t].status # "cancelled"
        <4>1. PICK t \in StepsOf[e] : \/ child[t] \in ActiveTask
                                      \/ child[t] = "cancelled" /\ seat[t].status # "cancelled"
          BY <3>2, <3>4 DEF PlansCount
        <4>2. child'[t] = child[t] /\ seat'[t].status = seat[t].status
          BY <3>1
        <4>3. CASE child[t] \in ActiveTask
          <5>1. child'[t] \in ActiveTask
            BY <4>2, <4>3, Zenon
          <5>. QED  BY <5>1, Zenon
        <4>4. CASE child[t] = "cancelled" /\ seat[t].status # "cancelled"
          <5>1. child'[t] = "cancelled" /\ seat'[t].status # "cancelled"
            BY <4>2, <4>4, Zenon
          <5>. QED  BY <5>1, Zenon
        <4>. QED  BY <4>1, <4>3, <4>4, Zenon
      <3>5. /\ main'[e] = "completed" => main[e] = "completed"
            /\ main'[e] = "queued" /\ progress'[e] = "queued" => main[e] = "queued" /\ progress[e] = "queued"
            /\ \A t \in StepsOf[e] : node'[t] = node[t] /\ child'[t] = child[t]
        BY <3>1, <3>2
      <3>. QED  BY <3>3, <3>4, <3>5, Zenon
    <2>. QED  BY <2>1, <2>2
  <1>. QED  BY <1>1, <1>5, <1>6, <1>7, <1>8, <1>9, WritingStep

\* The same when it dispatches nothing.
LEMMA FanInStoresAlone ==
    ASSUME FanoutInv, NEW s \in AllSteps, StoreCallback(s),
           seat' = [t \in AllSteps |-> SyncedSeats(s)[t]],
           child' = [t \in AllSteps |-> [child EXCEPT ![s] = Outcome(s)][t]],
           main' \in [Plans -> {"none", "queued", "cancelled", "completed"}],
           progress' \in [Plans -> {"none", "queued", "no-machine", "aggregation-pending"}],
           \A f \in Plans \ {Of[s]} : main'[f] = main[f] /\ progress'[f] = progress[f],
           main'[Of[s]] \in {main[Of[s]], "completed"},
           main'[Of[s]] = "completed" => \A t \in StepsOf[Of[s]] : node[t] = "completed" /\ child'[t] = "completed",
           main'[Of[s]] = "queued" /\ progress'[Of[s]] = "queued" => \E t \in StepsOf[Of[s]] : child'[t] \in ActiveTask
    PROVE  FanoutInv'
  <1>. DEFINE D == {}
  <1>1. /\ seat' = [t \in AllSteps |-> IF t \in D THEN [status |-> "queued", machine |-> txn[s].target[t]]
                                       ELSE SyncedSeats(s)[t]]
        /\ child' = [t \in AllSteps |-> IF t \in D THEN "queued" ELSE [child EXCEPT ![s] = Outcome(s)][t]]
    OBVIOUS
  <1>2. D \in SUBSET AllSteps /\ (D # {} => D = txn[s].ready /\ txn[s].target # <<>>)
    OBVIOUS
  <1>. HIDE DEF D
  <1>. QED  BY <1>1, <1>2, FanInStores

\* A fan-in that dispatches leaves a queued child, or says that no machine was free.
LEMMA FanInDispatchesKeeps ==
    ASSUME FanoutInv, NEW s \in AllSteps, FanInDispatches(s)
    PROVE  FanoutInv'
  <1>1. StoreCallback(s) /\ txn[s].ready # {} /\ UNCHANGED <<main, exec>>
    BY DEF FanInDispatches
  <1>2. /\ Of[s] \in Plans /\ FanoutTypeOK /\ s \in Actors /\ txn[s].ready \subseteq AllSteps
        /\ main[Of[s]] # "completed" /\ \A t \in txn[s].ready : t \in StepsOf[Of[s]]
    BY <1>1, FanInCommitted, StepsOfPlans
  <1>3. CASE txn[s].target # <<>>
    <2>. DEFINE D == txn[s].ready
    <2>1. /\ seat' = [t \in AllSteps |-> IF t \in D THEN [status |-> "queued", machine |-> txn[s].target[t]]
                                         ELSE SyncedSeats(s)[t]]
          /\ child' = [t \in AllSteps |-> IF t \in D THEN "queued" ELSE [child EXCEPT ![s] = Outcome(s)][t]]
          /\ progress' = [progress EXCEPT ![Of[s]] = "queued"]
      BY <1>3 DEF FanInDispatches
    <2>2. D \in SUBSET AllSteps /\ D # {} /\ D = txn[s].ready
      BY <1>1, <1>2
    <2>. HIDE DEF D
    <2>3. \E t \in StepsOf[Of[s]] : child'[t] \in ActiveTask
      <3>1. PICK t \in D : TRUE
        BY <2>2
      <3>2. t \in StepsOf[Of[s]] /\ t \in AllSteps
        BY <1>2, <2>2, <3>1
      <3>3. child'[t] = "queued"
        BY <2>1, <3>1, <3>2
      <3>. QED  BY <3>2, <3>3 DEF ActiveTask
    <2>4. /\ main' \in [Plans -> {"none", "queued", "cancelled", "completed"}]
          /\ progress' \in [Plans -> {"none", "queued", "no-machine", "aggregation-pending"}]
          /\ \A f \in Plans \ {Of[s]} : main'[f] = main[f] /\ progress'[f] = progress[f]
          /\ main'[Of[s]] \in {main[Of[s]], "completed"} /\ main'[Of[s]] # "completed"
      BY <1>1, <1>2, <2>1 DEF FanoutTypeOK
    <2>. QED  BY <1>1, <1>3, <2>1, <2>2, <2>3, <2>4, FanInStores
  <1>4. CASE txn[s].target = <<>>
    <2>1. /\ seat' = SyncedSeats(s) /\ child' = [child EXCEPT ![s] = Outcome(s)]
          /\ progress' = [progress EXCEPT ![Of[s]] = "no-machine"]
      BY <1>4 DEF FanInDispatches
    <2>2. /\ main' \in [Plans -> {"none", "queued", "cancelled", "completed"}]
          /\ progress' \in [Plans -> {"none", "queued", "no-machine", "aggregation-pending"}]
          /\ \A f \in Plans \ {Of[s]} : main'[f] = main[f] /\ progress'[f] = progress[f]
          /\ main'[Of[s]] \in {main[Of[s]], "completed"} /\ main'[Of[s]] # "completed" /\ progress'[Of[s]] # "queued"
      BY <1>1, <1>2, <2>1 DEF FanoutTypeOK
    <2>3. seat' = [t \in AllSteps |-> SyncedSeats(s)[t]] /\ child' = [t \in AllSteps |-> [child EXCEPT ![s] = Outcome(s)][t]]
      BY <1>2, <2>1 DEF SyncedSeats, FanoutTypeOK
    <2>. QED  BY <1>1, <2>2, <2>3, FanInStoresAlone
  <1>. QED  BY <1>3, <1>4

\* A fan-in that waits has seen an active child.
LEMMA FanInWaitsKeeps ==
    ASSUME FanoutInv, NEW s \in AllSteps, FanInWaits(s)
    PROVE  FanoutInv'
  <1>1. /\ StoreCallback(s) /\ Waiting(s) /\ seat' = SyncedSeats(s) /\ child' = [child EXCEPT ![s] = Outcome(s)]
        /\ UNCHANGED <<main, exec, progress>>
    BY DEF FanInWaits
  <1>2. /\ Of[s] \in Plans /\ FanoutTypeOK /\ s \in Actors /\ main[Of[s]] # "completed"
        /\ Outcome(s) \in {"cancelled", "completed", "failed"}
    BY <1>1, FanInCommitted
  <1>3. \E t \in StepsOf[Of[s]] : child'[t] \in ActiveTask
    <2>1. PICK t \in StepsOf[Of[s]] : Overlaid(s, t) \in ActiveSeat
      BY <1>1 DEF Waiting
    <2>2. t \in AllSteps
      BY <1>2, StepsOfPlans
    <2>3. seat[t].status # "none" /\ Overlaid(s, t) = Effective(seat[t].status, Seen(s, t))
      BY <2>1 DEF Overlaid, ActiveSeat
    <2>4. Seen(s, t) \in ActiveTask
      BY <2>1, <2>3 DEF Effective, ActiveSeat
    <2>5. t # s
      BY <1>2, <2>4 DEF Seen, ActiveTask
    <2>6. child'[t] = Seen(s, t)
      BY <1>1, <1>2, <2>2, <2>5 DEF Seen, FanoutTypeOK
    <2>. QED  BY <2>4, <2>6
  <1>4. /\ main' \in [Plans -> {"none", "queued", "cancelled", "completed"}]
        /\ progress' \in [Plans -> {"none", "queued", "no-machine", "aggregation-pending"}]
        /\ \A f \in Plans \ {Of[s]} : main'[f] = main[f] /\ progress'[f] = progress[f]
        /\ main'[Of[s]] \in {main[Of[s]], "completed"} /\ main'[Of[s]] # "completed"
    BY <1>1, <1>2 DEF FanoutTypeOK
  <1>5. seat' = [t \in AllSteps |-> SyncedSeats(s)[t]] /\ child' = [t \in AllSteps |-> [child EXCEPT ![s] = Outcome(s)][t]]
    BY <1>1, <1>2 DEF SyncedSeats, FanoutTypeOK
  <1>. QED  BY <1>1, <1>3, <1>4, <1>5, FanInStoresAlone

\* When nothing failed and nothing is active, the integration that completed has every step
\* behind it: each step of the plan leads to it, and begins after what it depends on.
LEMMA IntegrationIsLast ==
    ASSUME FanoutInv, NEW s \in AllSteps, StoreCallback(s), MayComplete(s), ~Waiting(s)
    PROVE  \A t \in StepsOf[Of[s]] : node[t] = "completed" /\ (t # s => child[t] = "completed")
  <1>1. Of[s] \in Plans /\ FanoutTypeOK /\ s = Integration[Of[s]] /\ node[s] = "completed" /\ ~Failure(s)
    BY FanInCommitted DEF MayComplete
  <1>2. \A t \in StepsOf[Of[s]] : t \in AllSteps
    BY <1>1, StepsOfPlans
  <1>. DEFINE open == {t \in StepsOf[Of[s]] : node[t] # "completed"}
  <1>3. open = {}
    <2>. SUFFICES ASSUME open # {} PROVE FALSE
      OBVIOUS
    <2>1. open \in (SUBSET StepsOf[Of[s]]) \ {{}}
      OBVIOUS
    <2>. HIDE DEF open
    <2>2. PICK t \in open : \A u \in open : t \notin DependsOn[u]
      BY <1>1, <2>1, FanoutAssumption
    <2>3. t \in StepsOf[Of[s]] /\ node[t] # "completed" /\ t # Integration[Of[s]]
      BY <1>1, <2>2 DEF open
    <2>4. PICK u \in StepsOf[Of[s]] : t \in DependsOn[u]
      BY <1>1, <2>3, FanoutAssumption
    <2>5. node[u] = "completed"
      BY <2>2, <2>4 DEF open
    <2>6. seat[u].status # "none"
      BY <1>2, <2>5 DEF FanoutInv, StepsInOrder
    <2>7. node[t] = "completed"
      BY <1>2, <2>4, <2>6 DEF FanoutInv, StepsInOrder
    <2>. QED  BY <2>3, <2>7
  <1>4. ASSUME NEW t \in StepsOf[Of[s]], t # s PROVE child[t] = "completed"
    <2>1. node[t] = "completed"
      BY <1>3
    <2>2. seat[t].status # "none" /\ child[t] \notin {"none", "pending"} /\ child[t] \in TaskStates
      BY <1>1, <1>2, <2>1 DEF FanoutInv, StepsInOrder, FanoutTypeOK
    <2>3. Overlaid(s, t) = Effective(seat[t].status, child[t])
      BY <1>4, <2>2 DEF Overlaid, Seen
    <2>4. Overlaid(s, t) \notin FailedSeat /\ Overlaid(s, t) \notin ActiveSeat
      BY <1>1 DEF Failure, Waiting
    <2>5. child[t] \notin ActiveTask
      <3>1. \A x, y : y \in ActiveTask => Effective(x, y) = "running"
        BY DEF Effective, ActiveTask
      <3>. QED  BY <2>3, <2>4, <3>1 DEF ActiveSeat
    <2>6. child[t] \notin {"failed", "cancelled"}
      <3>1. child[t] \in {"failed", "cancelled"} => Effective(seat[t].status, child[t]) = child[t]
        BY <2>5 DEF Effective
      <3>. QED  BY <2>3, <2>4, <3>1 DEF FailedSeat
    <2>. QED  BY <2>2, <2>5, <2>6 DEF TaskStates, ActiveTask
  <1>. QED  BY <1>3, <1>4

\* The last fan-in completes the parent, or leaves the plan to be aggregated.
LEMMA FanInEndsKeeps ==
    ASSUME FanoutInv, NEW s \in AllSteps, FanInEnds(s)
    PROVE  FanoutInv'
  <1>1. /\ StoreCallback(s) /\ ~Waiting(s) /\ seat' = SyncedSeats(s) /\ child' = [child EXCEPT ![s] = Outcome(s)]
    BY DEF FanInEnds
  <1>2. /\ Of[s] \in Plans /\ FanoutTypeOK /\ s \in Actors /\ main[Of[s]] # "completed"
    BY <1>1, FanInCommitted
  <1>3. seat' = [t \in AllSteps |-> SyncedSeats(s)[t]] /\ child' = [t \in AllSteps |-> [child EXCEPT ![s] = Outcome(s)][t]]
    BY <1>1, <1>2 DEF SyncedSeats, FanoutTypeOK
  <1>4. CASE MayComplete(s) /\ main' = [main EXCEPT ![Of[s]] = "completed"] /\ UNCHANGED progress
    <2>1. /\ main' \in [Plans -> {"none", "queued", "cancelled", "completed"}]
          /\ progress' \in [Plans -> {"none", "queued", "no-machine", "aggregation-pending"}]
          /\ \A f \in Plans \ {Of[s]} : main'[f] = main[f] /\ progress'[f] = progress[f]
          /\ main'[Of[s]] \in {main[Of[s]], "completed"} /\ main'[Of[s]] # "queued"
      BY <1>2, <1>4 DEF FanoutTypeOK
    <2>2. \A t \in StepsOf[Of[s]] : node[t] = "completed" /\ child'[t] = "completed"
      <3>1. Outcome(s) = "completed" /\ \A t \in StepsOf[Of[s]] : t \in AllSteps
        BY <1>2, <1>4, StepsOfPlans DEF MayComplete
      <3>2. \A t \in StepsOf[Of[s]] : node[t] = "completed" /\ (t # s => child[t] = "completed")
        BY <1>1, <1>4, IntegrationIsLast
      <3>. QED  BY <1>1, <1>2, <3>1, <3>2 DEF FanoutTypeOK
    <2>. QED  BY <1>1, <1>3, <2>1, <2>2, FanInStoresAlone
  <1>5. CASE progress' = [progress EXCEPT ![Of[s]] = "aggregation-pending"] /\ UNCHANGED main
    <2>1. /\ main' \in [Plans -> {"none", "queued", "cancelled", "completed"}]
          /\ progress' \in [Plans -> {"none", "queued", "no-machine", "aggregation-pending"}]
          /\ \A f \in Plans \ {Of[s]} : main'[f] = main[f] /\ progress'[f] = progress[f]
          /\ main'[Of[s]] \in {main[Of[s]], "completed"} /\ main'[Of[s]] # "completed" /\ progress'[Of[s]] # "queued"
      BY <1>2, <1>5 DEF FanoutTypeOK
    <2>. QED  BY <1>1, <1>3, <2>1, FanInStoresAlone
  <1>. QED  BY <1>4, <1>5 DEF FanInEnds

-----------------------------------------------------------------------------
(* The theorems. *)

\* The invariant holds at first.
LEMMA FanoutStarts == FanoutInit => FanoutInv
  <1>. SUFFICES ASSUME FanoutInit PROVE FanoutInv
    OBVIOUS
  <1>1. /\ main = [e \in Plans |-> IF e \in Plans THEN "none" ELSE "never"]
        /\ exec = [e \in Plans |-> "none"] /\ progress = [e \in Plans |-> "none"]
        /\ child = [s \in AllSteps |-> "none"] /\ node = [s \in AllSteps |-> "planned"]
        /\ seat = [s \in AllSteps |-> Unseated] /\ fresh = [m \in Machines |-> TRUE]
        /\ txn = [a \in Actors |-> Closed]
    BY DEF FanoutInit, FanoutInitWith
  <1>2. Unseated \in SeatRow /\ Unseated.status = "none"
    BY DEF Unseated, SeatRow
  <1>3. FanoutTypeOK
    BY <1>1, <1>2, ClosedType DEF FanoutTypeOK, TaskStates
  <1>4. RowsApart
    BY <1>1, ClosedType DEF RowsApart
  <1>5. /\ \A e \in Plans : main[e] = "none" /\ progress[e] = "none"
        /\ \A s \in AllSteps : child[s] = "none" /\ seat[s].status = "none" /\ node[s] = "planned"
    BY <1>1, <1>2
  <1>6. StepsInOrder
    BY <1>5, StepsOfPlans DEF StepsInOrder, ActiveTask
  <1>7. PlansCount
    BY <1>5 DEF PlansCount
  <1>8. SlotsRespected
    <2>. SUFFICES ASSUME NEW m \in Machines PROVE Reserved(m) <= Capacity[m]
      BY DEF SlotsRespected
    <2>1. {s \in AllSteps : seat[s].machine = m /\ seat[s].status \in ActiveSeat} = {}
      BY <1>5 DEF ActiveSeat
    <2>2. Reserved(m) = 0
      BY <2>1, FS_EmptySet DEF Reserved, Used
    <2>. QED  BY <2>2, FanoutAssumption
  <1>9. \A a \in Actors : TxnHolds(a)
    BY <1>1, ClosedType DEF Closed, TxnHolds, StartHolds, FanInHolds, ClaimHolds, StepHolds, TargetsHold
  <1>. QED  BY <1>3, <1>4, <1>6, <1>7, <1>8, <1>9 DEF FanoutInv

\* Every step keeps the invariant.
LEMMA FanoutKeeps == FanoutInv /\ [FanoutNext]_fanoutVars => FanoutInv'
  <1>. SUFFICES ASSUME FanoutInv, [FanoutNext]_fanoutVars PROVE FanoutInv'
    OBVIOUS
  <1>1. CASE UNCHANGED fanoutVars
    <2>1. DOMAIN fresh' = Machines /\ UNCHANGED <<main, exec, progress, child, node, seat, txn>>
      BY <1>1 DEF fanoutVars, FanoutInv, FanoutTypeOK
    <2>. QED  BY <2>1, IdleKeeps
  <1>2. ASSUME NEW a \in Actors, Acquire(a) \/ Rollback(a) PROVE FanoutInv'
    BY <1>2, AcquireKeeps, RollbackKeeps
  <1>3. ASSUME NEW e \in Plans, StartAsked(e) \/ StartCommits(e) \/ CancelMain(e) PROVE FanoutInv'
    BY <1>3, AdmissionOpens, StartCommitsKeeps, OutsidersKeep
  <1>4. ASSUME NEW s \in AllSteps,
               \/ \E m \in DOMAIN fresh : ClaimArrives(s, m)
               \/ StepClaimArrives(s)
               \/ \E outcome \in {"completed", "failed"} : TransitionArrives(s, outcome) \/ CallbackArrives(s, outcome)
        PROVE  FanoutInv'
    BY <1>4, ArrivalsKeep
  <1>5. ASSUME NEW s \in AllSteps, ClaimCommits(s) \/ StepClaimCommits(s) \/ TransitionCommits(s) PROVE FanoutInv'
    BY <1>5, ClaimCommitsKeeps, StepCommitsKeep
  <1>6. ASSUME NEW s \in AllSteps, FanInDispatches(s) \/ FanInWaits(s) \/ FanInEnds(s) PROVE FanoutInv'
    BY <1>6, FanInDispatchesKeeps, FanInWaitsKeeps, FanInEndsKeeps
  <1>7. ASSUME NEW s \in AllSteps, CancelChild(s) \/ LeaseEnds(s) PROVE FanoutInv'
    BY <1>7, OutsidersKeep
  <1>8. ASSUME NEW m \in DOMAIN fresh, Silence(m) \/ Heartbeat(m) PROVE FanoutInv'
    BY <1>8, OutsidersKeep
  <1>9. CASE FanoutNext
    BY <1>2, <1>3, <1>4, <1>5, <1>6, <1>7, <1>8, <1>9 DEF FanoutNext
  <1>. QED  BY <1>1, <1>9

\* What holds in every state of the specification.
THEOREM FanoutInvariant == FanoutSpec => []FanoutInv
  BY FanoutStarts, FanoutKeeps, PTL DEF FanoutSpec

\* However admissions, fan-ins and failovers overlap, for any plans, machines and numbers of
\* transactions, a machine never has more active assignments than it reported it can run
\* (resolveAssignmentTargets, ValidateAssignmentWorker).
THEOREM FanoutSlotsRespected == FanoutSpec => []SlotsRespected
  <1>1. FanoutInv => SlotsRespected
    BY DEF FanoutInv
  <1>. QED  BY <1>1, FanoutInvariant, PTL

\* The last callback closes the run, and no earlier one does, for any plan without cycles
\* whose integration follows every branch (completeVerifiedPlanFanInInTransaction,
\* reconcilePlanStepChildTerminalInTransaction).
THEOREM FanoutLastFansIn == FanoutSpec => []LastFansIn
  <1>1. FanoutInv => LastFansIn
    BY DEF FanoutInv, PlansCount, LastFansIn
  <1>. QED  BY <1>1, FanoutInvariant, PTL

\* How far a fan-in or an admission is in the one order of the tables.
TableRank(t) == CASE t = "task" -> 0 [] t = "main" -> 1 [] t = "exec" -> 2 [] t = "seat" -> 3
                  [] t \in {"plan", "node"} -> 4 [] t = "beat" -> 5
Rank(a) == IF txn[a].kind = "start" THEN 4 + txn[a].at ELSE txn[a].at

\* It holds rows up to its rank, and locks next those of the rank above.
LEMMA RankedRows ==
    ASSUME FanoutInv, NEW a \in Actors, txn[a].kind \in {"fan-in", "start"}
    PROVE  /\ Rank(a) \in 0 .. 9
           /\ \A r \in txn[a].rows : TableRank(r[1]) \in 0 .. 5 /\ TableRank(r[1]) <= Rank(a)
           /\ Pending(a) => \A r \in NextRows(a) : TableRank(r[1]) = Rank(a) + 1
  <1>0. /\ TableRank("task") = 0 /\ TableRank("main") = 1 /\ TableRank("exec") = 2 /\ TableRank("seat") = 3
        /\ TableRank("plan") = 4 /\ TableRank("node") = 4 /\ TableRank("beat") = 5
    BY DEF TableRank
  <1>1. txn[a] \in TxnRow /\ TxnHolds(a) /\ txn[a].at \in 0 .. 5
    BY DEF FanoutInv, FanoutTypeOK, TxnRow
  <1>2. CASE txn[a].kind = "start"
    <2>1. Rank(a) = 4 + txn[a].at
      BY <1>2 DEF Rank
    <2>2. \A r \in txn[a].rows : r[1] \in {"plan", "node"} \/ (txn[a].at >= 1 /\ r[1] = "beat")
      BY <1>1, <1>2 DEF TxnHolds, StartHolds
    <2>3. ASSUME NEW r \in txn[a].rows PROVE TableRank(r[1]) \in 0 .. 5 /\ TableRank(r[1]) <= Rank(a)
      <3>1. CASE r[1] \in {"plan", "node"}
        <4>1. TableRank(r[1]) = 4
          BY <1>0, <3>1
        <4>. QED  BY <1>1, <2>1, <4>1
      <3>2. CASE txn[a].at >= 1 /\ r[1] = "beat"
        <4>1. TableRank(r[1]) = 5
          BY <1>0, <3>2
        <4>. QED  BY <1>1, <2>1, <3>2, <4>1
      <3>. QED  BY <2>2, <3>1, <3>2
    <2>4. ASSUME Pending(a), NEW r \in NextRows(a) PROVE TableRank(r[1]) = Rank(a) + 1
      <3>1. txn[a].at = 0 /\ NextRows(a) = BeatsToLock
        BY <1>1, <1>2, <2>4, NextGroup
      <3>2. r[1] = "beat"
        BY <2>4, <3>1 DEF BeatsToLock, Row
      <3>. QED  BY <1>0, <2>1, <3>1, <3>2
    <2>. QED  BY <1>1, <2>1, <2>3, <2>4
  <1>3. CASE txn[a].kind = "fan-in"
    <2>1. Rank(a) = txn[a].at
      BY <1>3 DEF Rank
    <2>2. \A r \in txn[a].rows : \/ r[1] = "task"
                                 \/ txn[a].at >= 1 /\ r[1] = "main"
                                 \/ txn[a].at >= 2 /\ r[1] = "exec"
                                 \/ txn[a].at >= 3 /\ r[1] = "seat"
                                 \/ txn[a].at >= 4 /\ r[1] \in {"plan", "node"}
                                 \/ txn[a].at >= 5 /\ r[1] = "beat"
      BY <1>1, <1>3 DEF TxnHolds, FanInHolds
    <2>3. ASSUME NEW r \in txn[a].rows PROVE TableRank(r[1]) \in 0 .. 5 /\ TableRank(r[1]) <= Rank(a)
      <3>1. \E k \in 0 .. 5 : TableRank(r[1]) = k /\ txn[a].at >= k
        <4>1. \/ TableRank(r[1]) = 0
              \/ txn[a].at >= 1 /\ TableRank(r[1]) = 1
              \/ txn[a].at >= 2 /\ TableRank(r[1]) = 2
              \/ txn[a].at >= 3 /\ TableRank(r[1]) = 3
              \/ txn[a].at >= 4 /\ TableRank(r[1]) = 4
              \/ txn[a].at >= 5 /\ TableRank(r[1]) = 5
          BY <1>0, <2>2
        <4>. QED  BY <1>1, <4>1
      <3>. QED  BY <1>1, <2>1, <3>1
    <2>4. ASSUME Pending(a), NEW r \in NextRows(a) PROVE TableRank(r[1]) = Rank(a) + 1
      <3>1. \/ txn[a].at = 0 /\ NextRows(a) = Row("main", {Plan(a)})
            \/ txn[a].at = 1 /\ NextRows(a) = Row("exec", {Plan(a)})
            \/ txn[a].at = 2 /\ NextRows(a) = Row("seat", StepsOf[Plan(a)])
            \/ txn[a].at = 3 /\ NextRows(a) = Whole(Plan(a))
            \/ txn[a].at = 4 /\ NextRows(a) = BeatsToLock
        BY <1>1, <1>3, <2>4, NextGroup
      <3>2. \/ txn[a].at = 0 /\ r[1] = "main"
            \/ txn[a].at = 1 /\ r[1] = "exec"
            \/ txn[a].at = 2 /\ r[1] = "seat"
            \/ txn[a].at = 3 /\ r[1] \in {"plan", "node"}
            \/ txn[a].at = 4 /\ r[1] = "beat"
        BY <2>4, <3>1 DEF Row, Whole, BeatsToLock
      <3>. QED  BY <1>0, <2>1, <3>2
    <2>. QED  BY <1>1, <2>1, <2>3, <2>4
  <1>. QED  BY <1>2, <1>3

\* Parallel callbacks and admissions never wait for each other in a circle: one that waits
\* for another has a lower rank, and among any of them one has the greatest
\* (reconcilePlanStepChildTerminalInTransaction, resolveAssignmentTargets).
THEOREM FanoutNoFanInCycle == FanoutSpec => []NoFanInCycle
  <1>1. FanoutInv => NoFanInCycle
    <2>. SUFFICES ASSUME FanoutInv, NEW A \in SUBSET {a \in Actors : txn[a].kind \in {"fan-in", "start"}}, A # {}
                  PROVE  \E a \in A : \A b \in A : ~WaitsFor(a, b)
      BY DEF NoFanInCycle
    <2>1. \A a \in A : /\ a \in Actors /\ Rank(a) \in 0 .. 9
                       /\ \A r \in txn[a].rows : TableRank(r[1]) \in 0 .. 5 /\ TableRank(r[1]) <= Rank(a)
                       /\ Pending(a) => \A r \in NextRows(a) : TableRank(r[1]) = Rank(a) + 1
      BY RankedRows
    <2>. DEFINE T == {Rank(a) + 1 : a \in A}
    <2>2. T \in SUBSET (1 .. 10) /\ T # {} /\ 10 \in Nat
      BY <2>1
    <2>3. Max(T) \in T /\ \A y \in T : Max(T) >= y
      <3>. HIDE DEF T
      <3>. QED  BY <2>2, Greatest
    <2>4. PICK a \in A : Max(T) = Rank(a) + 1
      BY <2>3
    <2>5. \A b \in A : Rank(a) + 1 >= Rank(b) + 1
      BY <2>3, <2>4
    <2>6. ASSUME NEW b \in A, WaitsFor(a, b) PROVE FALSE
      <3>1. PICK r \in NextRows(a) : r \in txn[b].rows /\ Pending(a)
        BY <2>6 DEF WaitsFor, Conflicts
      <3>2. /\ Rank(a) \in 0 .. 9 /\ Rank(b) \in 0 .. 9 /\ TableRank(r[1]) \in 0 .. 5
            /\ TableRank(r[1]) <= Rank(b) /\ TableRank(r[1]) = Rank(a) + 1
        BY <2>1, <3>1
      <3>. QED  BY <2>5, <3>2
    <2>. QED  BY <2>6
  <1>. QED  BY <1>1, FanoutInvariant, PTL
=============================================================================
