------------------------ MODULE CryptoProviderProofs ------------------------
(***************************************************************************)
(* Proofs about CryptoProvider, for every size of bytes, scalars and error *)
(* queue, every order of the group, set of calls and queues of the caller. *)
(***************************************************************************)
EXTENDS CryptoProvider, WellFoundedInduction, SequenceTheorems, TLAPS

USE CryptoAssumption

\* The points between ERR_set_mark and the clean-up, by what has been done.
BeforeKey == {"context", "init", "import"}
BeforeGive == {"order", "scalars", "range", "signature", "own"}
AfterGive == {"encode", "digest context", "digest init", "verify"}
InVerify == BeforeKey \cup BeforeGive \cup AfterGive \cup {"cleanup"}
InHash == {"digest", "discard"}
Marking == InVerify \cup InHash
Points == Marking \cup {"idle", "foreign", "enter", "return"}

\* Who is served at which point.
Control ==
  /\ pc \in Points
  /\ pc # "idle" <=> ret = "busy"
  /\ pc # "idle" => request.flaws = {}
  /\ pc = "foreign" => request.foreign
  /\ pc \in Marking \cup {"enter"} => ~request.foreign
  /\ pc \in InHash => request.op = "hash"
  /\ pc \in InVerify => request.op = "verify" /\ request.prefix

\* What is allocated is what the pointers free; the ECDSA_SIG owns the scalars
\* once they are given, and only then.
Pointers ==
  /\ live = held \cup (IF "ecdsa_signature" \in held THEN given ELSE {})
  /\ given \subseteq {"scalar_r", "scalar_s"} /\ given \cap held = {}
  /\ pc \notin InVerify => held = {}
  /\ pc \notin AfterGive \cup {"cleanup"} => given = {}
  /\ pc # "cleanup" => freed = 0
  /\ pc \in {"range", "signature", "own"} => {"scalar_r", "scalar_s"} \subseteq held
  /\ pc = "own" => "ecdsa_signature" \in held
  /\ \A i \in 1 .. freed : FreeOrder[i] \notin held

\* The provider's errors lie behind the caller's, and none of them is marked.
Behind(q) ==
  \A i \in 1 .. Len(q) : q[i].owner = "provider" =>
    q[i].marks = 0 /\ \A j \in i .. Len(q) : q[j].owner = "provider"

AllCaller(q) == \A i \in 1 .. Len(q) : q[i].owner = "caller"

\* q holds all that the caller brought, its newest error marked once more.
Keeps(q) ==
  /\ Len(saved) <= Len(q)
  /\ \A i \in 1 .. Len(saved) :
       q[i] = IF i = Len(saved) THEN [saved[i] EXCEPT !.marks = @ + 1] ELSE saved[i]
  /\ \A i \in Len(saved) + 1 .. Len(q) : q[i].owner = "provider"

\* The newest error is the provider's or the newest of the caller's.
NewestKnown(q) ==
  q # << >> /\ q[Len(q)].owner = "caller" =>
    saved # << >> /\ q[Len(q)].decoding = saved[Len(saved)].decoding

QueueInCall ==
  /\ marked = (saved # << >>)
  /\ Behind(queue) /\ NewestKnown(queue)
  /\ ~dropped => Keeps(queue)

NoneDecoding ==
  \A i \in 1 .. Len(queue) : queue[i].owner = "provider" => ~queue[i].decoding

ErrorQueue ==
  /\ saved \in CallerQueues
  /\ pc \in Marking => QueueInCall
  /\ pc \in BeforeKey => NoneDecoding
  /\ pc \notin Marking => AllCaller(queue) /\ (~dropped => queue = saved)
  /\ pc \in {"foreign", "enter"} \/ ret = "none" => queue = saved

\* What a status says of a verification that is over but for the clean-up.
Means(s) ==
  /\ s = "OK" => Genuine(request)
  /\ s = "SIGNATURE" =>
       ~Genuine(request) \/ (faulted /\ StaleDecodingError(saved))
  /\ s = "CRYPTO_PROVIDER" => faulted
  /\ s # "KEY_REVOKED"

\* The status on the way is the one of a failure that has not happened yet.
Verdict ==
  /\ pc \in InVerify \ {"cleanup"} => status = "CRYPTO_PROVIDER"
  /\ pc \in BeforeGive \cup AfterGive => request.point = "on curve"
  /\ pc \in {"signature", "own"} \cup AfterGive =>
       ScalarInRange(request.r) /\ ScalarInRange(request.s)
  /\ pc \in {"cleanup", "return"} /\ request.op = "verify" /\ ~request.foreign =>
       Means(status)
  /\ VerdictMeansIt

Published ==
  /\ pc = "digest" => status = "CRYPTO_PROVIDER"
  /\ pc \in {"discard", "return"} /\ request.op = "hash" /\ status = "OK" =>
       buffer = "digest"
  /\ pc # "idle" \/ ret = "none" => digest = "old"
  /\ DigestAllOrNothing

\* The inductive invariant.
IInv == TypeOK /\ Control /\ Pointers /\ ErrorQueue /\ Verdict /\ Published
-----------------------------------------------------------------------------
\* A set of numbers that is not empty has a least one: the induction the
\* library offers for an operator, for a set.
LEMMA Least ==
  ASSUME NEW T \in SUBSET Nat, T # {}
  PROVE  \E m \in T : \A n \in T : m <= n
<1>1. PICK m \in T : \A n \in T : ~(<<n, m>> \in OpToRel(<, Nat))
  BY WFMin, NatLessThanWellFounded
<1>2. ASSUME NEW n \in T
      PROVE  ~(n < m)
  BY <1>1 DEF OpToRel
<1>3. \A n \in T : m <= n
  BY <1>2
<1> QED  BY <1>3

\* A set of positions that is not empty has a last one.
LEMMA Greatest ==
  ASSUME NEW n \in Nat, NEW T \in SUBSET (1 .. n), T # {}
  PROVE  \E m \in T : \A k \in T : k <= m
<1> DEFINE D == {n - k : k \in T}
<1>1. \A k \in T : n - k \in Nat
  OBVIOUS
<1>2. \A k \in T : n - k \in D
  OBVIOUS
<1>3. \A d \in D : \E k \in T : d = n - k
  OBVIOUS
<1> HIDE DEF D
<1>4. D \in SUBSET Nat /\ D # {}
  BY <1>1, <1>2, <1>3
<1>5. PICK d \in D : \A e \in D : d <= e
  BY <1>4, Least
<1>6. PICK m \in T : d = n - m
  BY <1>3
<1>7. ASSUME NEW k \in T PROVE k <= m
  <2>1. n - m <= n - k
    BY <1>2, <1>5, <1>6
  <2> QED  BY <2>1
<1> QED  BY <1>7

\* The DER INTEGER of a scalar has at most one octet more than the scalar.
LEMMA Der ==
  ASSUME NEW v \in 0 .. Base ^ Width - 1
  PROVE  DerInteger(v) \in 1 .. Width + 1
<1> DEFINE T == {k \in 1 .. Width : v < Base ^ k}
           P(k) == v < Base ^ k /\ (k = 1 \/ v >= Base ^ (k - 1))
<1>1. T \in SUBSET Nat /\ Width \in T
  OBVIOUS
<1>2. T \subseteq 1 .. Width /\ \A k \in 1 .. Width : k \in T <=> v < Base ^ k
  OBVIOUS
<1> HIDE DEF T
<1>3. PICK m \in T : \A k \in T : m <= k
  BY <1>1, Least
<1>4. m \in 1 .. Width /\ v < Base ^ m
  BY <1>2
<1>5. m = 1 \/ v >= Base ^ (m - 1)
  <2> SUFFICES ASSUME m # 1 PROVE v >= Base ^ (m - 1)
    OBVIOUS
  <2>1. m - 1 \in 1 .. Width /\ m - 1 \notin T
    BY <1>3, <1>4
  <2>2. ~(v < Base ^ (m - 1))
    BY <1>2, <2>1
  <2>3. Base ^ (m - 1) \in Int
    BY <1>4
  <2> QED  BY <2>2, <2>3
<1> DEFINE n == CHOOSE k \in 1 .. Width : P(k)
<1>6. n \in 1 .. Width
  BY <1>4, <1>5
<1>7. DerInteger(v) = n + (IF 2 * v >= Base ^ n THEN 1 ELSE 0)
  BY DEF DerInteger
<1> HIDE DEF n
<1> QED  BY <1>6, <1>7

\* der holds the encoding of every signature: der_len never exceeds 72 bytes
\* (openssl_crypto.c:86-87, 138-142).
THEOREM DerAlwaysFits ==
  ASSUME NEW q \in Requests
  PROVE  DerFits(q)
<1>1. q.r \in 0 .. Base ^ Width - 1 /\ q.s \in 0 .. Base ^ Width - 1
  BY DEF Request
<1>2. DerInteger(q.r) \in 1 .. Width + 1 /\ DerInteger(q.s) \in 1 .. Width + 1
  BY <1>1, Der
<1> QED  BY <1>2 DEF DerFits, DerLength
-----------------------------------------------------------------------------
\* What an OpenSSL call leaves: unmarked errors of the provider.
LEMMA RaisedErrors ==
  ASSUME NEW d \in BOOLEAN, NEW errors \in Raised(d)
  PROVE  /\ errors \in Seq(Error)
         /\ \A i \in 1 .. Len(errors) :
              errors[i] = [decoding |-> d, marks |-> 0, owner |-> "provider"]
<1> DEFINE e == [decoding |-> d, marks |-> 0, owner |-> "provider"]
<1>1. PICK n \in 0 .. MaxRaised : errors \in [1 .. n -> {e}]
  BY DEF Raised
<1>2. e \in Error
  BY DEF Error
<1>3. errors \in Seq({e}) /\ Len(errors) = n
  BY <1>1
<1> HIDE DEF e
<1>4. errors \in Seq(Error)
  BY <1>2, <1>3
<1>5. \A i \in 1 .. Len(errors) : errors[i] = e
  BY <1>1, <1>3
<1> QED  BY <1>4, <1>5 DEF e

\* The queue keeps the newest entries: over of the oldest have fallen off.
LEMMA EnqueueShape ==
  ASSUME NEW q \in Seq(Error), Len(q) <= QueueCap, NEW errors \in Seq(Error)
  PROVE  \E over \in Nat :
           /\ over <= Len(errors) /\ (over # 0 => over = Len(q) + Len(errors) - QueueCap)
           /\ Len(q) + Len(errors) <= QueueCap => over = 0
           /\ Enqueue(q, errors) \in Seq(Error)
           /\ Len(Enqueue(q, errors)) = Len(q) + Len(errors) - over
           /\ Len(Enqueue(q, errors)) <= QueueCap
           /\ \A i \in 1 .. Len(Enqueue(q, errors)) :
                Enqueue(q, errors)[i] =
                  IF i + over <= Len(q) THEN q[i + over]
                  ELSE errors[i + over - Len(q)]
<1> DEFINE all == q \o errors
           over == IF Len(all) > QueueCap THEN Len(all) - QueueCap ELSE 0
<1>1. /\ all \in Seq(Error) /\ Len(all) = Len(q) + Len(errors)
      /\ \A i \in 1 .. Len(all) :
           all[i] = IF i <= Len(q) THEN q[i] ELSE errors[i - Len(q)]
  BY ConcatProperties
<1>2. Enqueue(q, errors) = SubSeq(all, over + 1, Len(all))
  BY DEF Enqueue
<1> HIDE DEF all
<1>3. Len(all) \in Nat /\ Len(q) \in Nat /\ Len(errors) \in Nat
  BY <1>1
<1>4. over \in Nat /\ over <= Len(all) /\ Len(all) - over <= QueueCap
  BY <1>3
<1>5. /\ over <= Len(errors) /\ (over # 0 => over = Len(q) + Len(errors) - QueueCap)
      /\ Len(q) + Len(errors) <= QueueCap => over = 0
  BY <1>1, <1>3
<1> HIDE DEF over
<1>6. /\ Enqueue(q, errors) \in Seq(Error)
      /\ Len(Enqueue(q, errors)) = Len(all) - over
      /\ \A i \in 1 .. Len(all) - over : Enqueue(q, errors)[i] = all[i + over]
  <2>1. \A i \in over + 1 .. Len(all) : all[i] \in Error
    BY <1>1, <1>3, <1>4, ElementOfSeq
  <2>2. over + 1 \in Int /\ Len(all) \in Int
    BY <1>3, <1>4
  <2>3. /\ SubSeq(all, over + 1, Len(all)) \in Seq(Error)
        /\ Len(SubSeq(all, over + 1, Len(all))) =
             IF over + 1 <= Len(all) THEN Len(all) - (over + 1) + 1 ELSE 0
        /\ \A i \in 1 .. Len(all) - (over + 1) + 1 :
             SubSeq(all, over + 1, Len(all))[i] = all[over + 1 + i - 1]
    BY <2>1, <2>2, SubSeqProperties
  <2>4. /\ (IF over + 1 <= Len(all) THEN Len(all) - (over + 1) + 1 ELSE 0)
             = Len(all) - over
        /\ Len(all) - (over + 1) + 1 = Len(all) - over
        /\ \A i \in Nat : over + 1 + i - 1 = i + over
    BY <1>3, <1>4
  <2>5. \A i \in 1 .. Len(all) - over : i \in Nat
    BY <1>3, <1>4
  <2>6. \A i \in 1 .. Len(all) - over :
          SubSeq(all, over + 1, Len(all))[i] = all[i + over]
    BY <2>3, <2>4, <2>5
  <2> QED  BY <1>2, <2>3, <2>4, <2>6
<1>7. \A i \in 1 .. Len(all) - over :
        Enqueue(q, errors)[i] = IF i + over <= Len(q) THEN q[i + over]
                                ELSE errors[i + over - Len(q)]
  BY <1>1, <1>3, <1>4, <1>6
<1> QED  BY <1>1, <1>4, <1>5, <1>6, <1>7

\* Errors that come in lie behind the caller's, and with no overflow all that
\* the caller brought is still there.
LEMMA EnqueueKeeps ==
  ASSUME NEW q \in Seq(Error), Len(q) <= QueueCap, saved \in Seq(Error),
         NEW d \in BOOLEAN, NEW errors \in Raised(d),
         Behind(q), NewestKnown(q)
  PROVE  /\ Enqueue(q, errors) \in Seq(Error) /\ Len(Enqueue(q, errors)) <= QueueCap
         /\ Behind(Enqueue(q, errors)) /\ NewestKnown(Enqueue(q, errors))
         /\ Keeps(q) /\ Len(q) + Len(errors) <= QueueCap => Keeps(Enqueue(q, errors))
         /\ ~d /\ (\A i \in 1 .. Len(q) : q[i].owner = "provider" => ~q[i].decoding) =>
              \A i \in 1 .. Len(Enqueue(q, errors)) :
                Enqueue(q, errors)[i].owner = "provider" => ~Enqueue(q, errors)[i].decoding
         /\ errors # << >> =>
              /\ Enqueue(q, errors) # << >>
              /\ Enqueue(q, errors)[Len(Enqueue(q, errors))].decoding = d
<1>1. /\ errors \in Seq(Error)
      /\ \A i \in 1 .. Len(errors) :
           errors[i] = [decoding |-> d, marks |-> 0, owner |-> "provider"]
  BY RaisedErrors
<1> DEFINE k == Enqueue(q, errors)
<1>2. PICK over \in Nat :
        /\ over <= Len(errors) /\ (over # 0 => over = Len(q) + Len(errors) - QueueCap)
        /\ Len(q) + Len(errors) <= QueueCap => over = 0
        /\ k \in Seq(Error)
        /\ Len(k) = Len(q) + Len(errors) - over
        /\ Len(k) <= QueueCap
        /\ \A i \in 1 .. Len(k) :
             k[i] = IF i + over <= Len(q) THEN q[i + over]
                    ELSE errors[i + over - Len(q)]
  BY <1>1, EnqueueShape
<1> HIDE DEF k
<1>3. Len(q) \in Nat /\ Len(errors) \in Nat /\ Len(k) \in Nat /\ Len(saved) \in Nat
  BY <1>1, <1>2
<1>4. ASSUME NEW i \in 1 .. Len(k)
      PROVE  \/ i + over \in 1 .. Len(q) /\ k[i] = q[i + over]
             \/ /\ i + over > Len(q)
                /\ k[i] = [decoding |-> d, marks |-> 0, owner |-> "provider"]
  <2>1. CASE i + over <= Len(q)
    <3>1. i + over \in 1 .. Len(q)
      BY <1>3, <2>1
    <3>2. k[i] = q[i + over]
      BY <1>2, <2>1
    <3> QED  BY <3>1, <3>2
  <2>2. CASE i + over > Len(q)
    <3>1. i + over - Len(q) \in 1 .. Len(errors)
      BY <1>2, <1>3, <2>2
    <3>2. k[i] = errors[i + over - Len(q)]
      BY <1>2, <1>3, <2>2
    <3> QED  BY <1>1, <2>2, <3>1, <3>2
  <2>3. i + over <= Len(q) \/ i + over > Len(q)
    BY <1>3
  <2> QED  BY <2>1, <2>2, <2>3
<1>5. Behind(k)
  <2> SUFFICES ASSUME NEW i \in 1 .. Len(k), k[i].owner = "provider"
               PROVE  k[i].marks = 0 /\ \A j \in i .. Len(k) : k[j].owner = "provider"
    BY DEF Behind
  <2>1. k[i].marks = 0
    BY <1>4 DEF Behind
  <2>2. ASSUME NEW j \in i .. Len(k)
        PROVE  k[j].owner = "provider"
    <3>1. j \in 1 .. Len(k)
      BY <1>3
    <3>2. CASE j + over > Len(q)
      BY <1>3, <1>4, <3>1, <3>2
    <3>3. CASE j + over <= Len(q)
      <4>1. i + over \in 1 .. Len(q) /\ j + over \in i + over .. Len(q)
        BY <1>3, <3>1, <3>3
      <4>2. k[i] = q[i + over] /\ k[j] = q[j + over]
        BY <1>4, <3>1, <4>1
      <4> QED  BY <4>1, <4>2 DEF Behind
    <3> QED  BY <1>2, <1>3, <3>1, <3>2, <3>3
  <2> QED  BY <2>1, <2>2
<1>6. NewestKnown(k)
  <2> SUFFICES ASSUME k # << >>, k[Len(k)].owner = "caller"
               PROVE  saved # << >> /\ k[Len(k)].decoding = saved[Len(saved)].decoding
    BY DEF NewestKnown
  <2>1. Len(k) \in 1 .. Len(k)
    BY <1>2, <1>3
  <2>2. Len(k) + over \in 1 .. Len(q) /\ k[Len(k)] = q[Len(k) + over]
    BY <1>4, <2>1
  <2>3. Len(k) + over = Len(q)
    BY <1>2, <1>3, <2>2
  <2>4. q # << >>
    BY <2>2
  <2> QED  BY <2>2, <2>3, <2>4 DEF NewestKnown
<1>7. ASSUME Keeps(q), Len(q) + Len(errors) <= QueueCap
      PROVE  Keeps(k)
  <2>1. over = 0 /\ Len(k) = Len(q) + Len(errors)
    BY <1>2, <1>3, <1>7
  <2>2. Len(saved) <= Len(q) /\ Len(saved) <= Len(k)
    BY <1>3, <1>7, <2>1 DEF Keeps
  <2>3. \A i \in 1 .. Len(saved) : k[i] = q[i]
    BY <1>2, <1>3, <2>1, <2>2
  <2>4. ASSUME NEW i \in Len(saved) + 1 .. Len(k) PROVE k[i].owner = "provider"
    <3>1. i \in 1 .. Len(k) /\ i + over = i
      BY <1>3, <2>1
    <3>2. CASE i <= Len(q)
      <4>1. i \in Len(saved) + 1 .. Len(q) /\ k[i] = q[i]
        BY <1>2, <1>3, <2>1, <3>1, <3>2
      <4> QED  BY <1>7, <4>1 DEF Keeps
    <3>3. CASE i > Len(q)
      BY <1>3, <1>4, <3>1, <3>3
    <3> QED  BY <1>3, <3>1, <3>2, <3>3
  <2> QED  BY <1>7, <2>2, <2>3, <2>4 DEF Keeps
<1>8. ASSUME ~d, \A i \in 1 .. Len(q) : q[i].owner = "provider" => ~q[i].decoding
      PROVE  \A i \in 1 .. Len(k) : k[i].owner = "provider" => ~k[i].decoding
  <2> TAKE i \in 1 .. Len(k)
  <2>1. CASE i + over \in 1 .. Len(q) /\ k[i] = q[i + over]
    BY <1>8, <2>1
  <2>2. CASE k[i] = [decoding |-> d, marks |-> 0, owner |-> "provider"]
    BY <1>8, <2>2
  <2> QED  BY <1>4, <2>1, <2>2
<1>9. ASSUME errors # << >>
      PROVE  k # << >> /\ k[Len(k)].decoding = d
  <2>1. Len(errors) >= 1
    BY <1>1, <1>3, <1>9
  <2>2. Len(k) \in 1 .. Len(k) /\ Len(k) + over > Len(q)
    BY <1>2, <1>3, <2>1
  <2> QED  BY <1>3, <1>4, <2>2
<1> QED  BY <1>2, <1>5, <1>6, <1>7, <1>8, <1>9 DEF k

\* Taking a mark off undoes putting it on.
LEMMA MarkUndone ==
  ASSUME NEW r \in Error
  PROVE  LET m == [r EXCEPT !.marks = @ + 1] IN [m EXCEPT !.marks = @ - 1] = r
<1>1. PICK d \in BOOLEAN, n \in Nat, o \in {"caller", "provider"} :
        r = [decoding |-> d, marks |-> n, owner |-> o]
  BY DEF Error
<1> DEFINE m == [r EXCEPT !.marks = @ + 1]
           e == [m EXCEPT !.marks = @ - 1]
<1>2. m = [decoding |-> d, marks |-> n + 1, owner |-> o]
  BY <1>1
<1> HIDE DEF m
<1>3. e = [decoding |-> d, marks |-> n + 1 - 1, owner |-> o]
  BY <1>2
<1>4. n + 1 - 1 = n
  OBVIOUS
<1>5. e = r
  BY <1>1, <1>3, <1>4
<1> QED  BY <1>5 DEF m

\* ERR_set_mark marks the newest error of the caller.
LEMMA Marked ==
  ASSUME saved \in CallerQueues, saved # << >>
  PROVE  /\ Mark(saved) \in Seq(Error) /\ Len(Mark(saved)) = Len(saved)
         /\ AllCaller(Mark(saved)) /\ Keeps(Mark(saved)) /\ NewestKnown(Mark(saved))
<1> DEFINE n == Len(saved)
           e == [saved[n] EXCEPT !.marks = @ + 1]
<1>1. /\ saved \in Seq(Error) /\ n \in 1 .. Len(saved)
      /\ \A i \in 1 .. Len(saved) : saved[i].owner = "caller"
  OBVIOUS
<1>2. saved[n] \in Error
  BY <1>1, ElementOfSeq
<1>3. e \in Error /\ e.owner = saved[n].owner /\ e.decoding = saved[n].decoding
  BY <1>2 DEF Error
<1>4. Mark(saved) = [saved EXCEPT ![n] = e]
  BY DEF Mark
<1> HIDE DEF n, e
<1>5. /\ Mark(saved) \in Seq(Error) /\ Len(Mark(saved)) = Len(saved)
      /\ \A i \in 1 .. Len(saved) : Mark(saved)[i] = IF i = n THEN e ELSE saved[i]
  BY <1>1, <1>3, <1>4, ExceptSeq
<1>6. AllCaller(Mark(saved))
  BY <1>1, <1>3, <1>5 DEF AllCaller
<1>7. Len(saved) \in Nat
  BY <1>1
<1>8. Keeps(Mark(saved))
  BY <1>5, <1>7 DEF Keeps, n, e
<1>9. NewestKnown(Mark(saved))
  BY <1>1, <1>3, <1>5 DEF NewestKnown, n
<1> QED  BY <1>5, <1>6, <1>8, <1>9

\* ERR_pop_to_mark takes the provider's errors and, unless the queue overflowed,
\* the mark: what is left is what the caller brought.
LEMMA Discarded ==
  ASSUME saved \in CallerQueues, queue \in Seq(Error), Len(queue) <= QueueCap,
         marked = (saved # << >>), Behind(queue), ~dropped => Keeps(queue)
  PROVE  /\ discard_provider_errors(queue, marked) \in Seq(Error)
         /\ Len(discard_provider_errors(queue, marked)) <= QueueCap
         /\ AllCaller(discard_provider_errors(queue, marked))
         /\ ~dropped => discard_provider_errors(queue, marked) = saved
<1>1. /\ Len(queue) \in Nat /\ saved \in Seq(Error) /\ Len(saved) \in Nat
      /\ saved = << >> \/ Len(saved) >= 1
  OBVIOUS
<1>2. CASE ~(marked /\ MarkedAt(queue) # {})
  <2>1. discard_provider_errors(queue, marked) = << >>
    BY <1>2 DEF discard_provider_errors
  <2>2. ASSUME ~dropped PROVE saved = << >>
    <3> SUFFICES ASSUME saved # << >> PROVE FALSE
      OBVIOUS
    <3>1. Keeps(queue)
      BY <2>2
    <3>2. Len(saved) \in 1 .. Len(queue) /\ Len(saved) \in 1 .. Len(saved)
      BY <1>1, <3>1 DEF Keeps
    <3>3. queue[Len(saved)] = [saved[Len(saved)] EXCEPT !.marks = @ + 1]
      BY <3>1, <3>2 DEF Keeps
    <3>4. saved[Len(saved)] \in Error
      BY <1>1, <3>2, ElementOfSeq
    <3>5. saved[Len(saved)].marks \in Nat
      BY <3>4 DEF Error
    <3>6. queue[Len(saved)].marks = saved[Len(saved)].marks + 1
      BY <3>3, <3>4 DEF Error
    <3>7. queue[Len(saved)].marks # 0
      BY <3>5, <3>6
    <3> QED  BY <1>2, <3>2, <3>7 DEF MarkedAt
  <2>3. << >> \in Seq(Error) /\ Len(<< >>) = 0 /\ 0 <= QueueCap
    OBVIOUS
  <2>4. AllCaller(<< >>)
    BY DEF AllCaller
  <2> QED  BY <2>1, <2>2, <2>3, <2>4
<1>3. CASE marked /\ MarkedAt(queue) # {}
  <2> DEFINE top == CHOOSE i \in MarkedAt(queue) : \A j \in MarkedAt(queue) : j <= i
             e == [queue[top] EXCEPT !.marks = @ - 1]
             rest == SubSeq(queue, 1, top)
  <2>1. MarkedAt(queue) \in SUBSET (1 .. Len(queue))
    BY DEF MarkedAt
  <2>2. \E i \in MarkedAt(queue) : \A j \in MarkedAt(queue) : j <= i
    BY <1>1, <1>3, <2>1, Greatest
  <2>3. top \in MarkedAt(queue) /\ \A j \in MarkedAt(queue) : j <= top
    BY <2>2
  <2>4. discard_provider_errors(queue, marked) = [rest EXCEPT ![top] = e]
    <3>1. discard_provider_errors(queue, marked) = PopToMark(queue)
      BY <1>3 DEF discard_provider_errors
    <3>2. PopToMark(queue) = [rest EXCEPT ![top].marks = @ - 1]
      BY DEF PopToMark
    <3>3. rest[top] = queue[top]
      BY <2>1, <2>3
    <3> QED  BY <3>1, <3>2, <3>3
  <2> HIDE DEF top
  <2>5. top \in 1 .. Len(queue) /\ queue[top].marks # 0
    BY <2>3 DEF MarkedAt
  <2>6. queue[top] \in Error
    BY <2>5, ElementOfSeq
  <2>7. e \in Error /\ e.owner = queue[top].owner
    <3>1. queue[top].marks - 1 \in Nat
      BY <2>5, <2>6 DEF Error
    <3> QED  BY <2>6, <3>1 DEF Error
  <2>8. /\ rest \in Seq(Error) /\ Len(rest) = top
        /\ \A i \in 1 .. top : rest[i] = queue[i]
    BY <2>5
  <2> HIDE DEF e, rest
  <2> DEFINE left == [rest EXCEPT ![top] = e]
  <2>9. /\ left \in Seq(Error) /\ Len(left) = top
        /\ \A i \in 1 .. top : left[i] = IF i = top THEN e ELSE queue[i]
    BY <2>5, <2>7, <2>8, ExceptSeq
  <2> HIDE DEF left
  <2>10. AllCaller(left)
    <3>1. ASSUME NEW i \in 1 .. top PROVE queue[i].owner = "caller"
      <4>1. i \in 1 .. Len(queue) /\ top \in i .. Len(queue)
        BY <1>1, <2>5
      <4>2. queue[i] \in Error
        BY <4>1, ElementOfSeq
      <4>3. queue[i].owner # "provider"
        BY <2>5, <4>1 DEF Behind
      <4> QED  BY <4>2, <4>3 DEF Error
    <3> QED  BY <2>7, <2>9, <3>1 DEF AllCaller
  <2>11. ASSUME ~dropped PROVE left = saved
    <3>1. Keeps(queue) /\ saved # << >> /\ Len(saved) >= 1
      BY <1>1, <1>3, <2>11
    <3>2. Len(saved) \in 1 .. Len(queue) /\ Len(saved) \in 1 .. Len(saved)
      BY <1>1, <3>1 DEF Keeps
    <3>3. queue[Len(saved)] = [saved[Len(saved)] EXCEPT !.marks = @ + 1]
      BY <3>1, <3>2 DEF Keeps
    <3>4. saved[Len(saved)] \in Error
      BY <1>1, <3>2, ElementOfSeq
    <3>5. /\ saved[Len(saved)].marks \in Nat
          /\ queue[Len(saved)].marks = saved[Len(saved)].marks + 1
      BY <3>3, <3>4 DEF Error
    <3>6. Len(saved) \in MarkedAt(queue)
      BY <3>2, <3>5 DEF MarkedAt
    <3>7. ~(top > Len(saved))
      <4> SUFFICES ASSUME top > Len(saved) PROVE FALSE
        OBVIOUS
      <4>1. top \in Len(saved) + 1 .. Len(queue)
        BY <1>1, <2>5
      <4>2. queue[top].owner = "provider"
        BY <3>1, <4>1 DEF Keeps
      <4> QED  BY <2>5, <4>2 DEF Behind
    <3>8. top = Len(saved)
      BY <1>1, <2>3, <2>5, <3>6, <3>7
    <3>9. e = saved[top]
      <4>1. queue[top] = [saved[top] EXCEPT !.marks = @ + 1] /\ saved[top] \in Error
        BY <3>3, <3>4, <3>8
      <4> QED  BY <4>1, MarkUndone DEF e
    <3>10. \A i \in 1 .. top : i # top => queue[i] = saved[i]
      BY <3>1, <3>8 DEF Keeps
    <3>11. \A i \in 1 .. Len(left) : left[i] = saved[i]
      BY <2>9, <3>9, <3>10
    <3> QED  BY <1>1, <2>9, <3>8, <3>11, SeqEqual
  <2>12. top <= QueueCap
    BY <1>1, <2>5
  <2> QED  BY <2>4, <2>9, <2>10, <2>11, <2>12 DEF left
<1> QED  BY <1>2, <1>3

\* One OpenSSL call's errors, in the terms of the invariant.
LEMMA RaiseStep ==
  ASSUME queue \in Seq(Error), Len(queue) <= QueueCap, dropped \in BOOLEAN,
         saved \in CallerQueues, QueueInCall,
         NEW d \in BOOLEAN, NEW errors \in Raised(d), Raise(errors),
         saved' = saved, marked' = marked
  PROVE  /\ queue' \in Seq(Error) /\ Len(queue') <= QueueCap /\ dropped' \in BOOLEAN
         /\ QueueInCall'
         /\ ~d /\ NoneDecoding => NoneDecoding'
         /\ errors # << >> => queue' # << >> /\ queue'[Len(queue')].decoding = d
<1>1. /\ queue' = Enqueue(queue, errors)
      /\ dropped' = (dropped \/ Len(queue) + Len(errors) > QueueCap)
  BY DEF Raise
<1>2. saved \in Seq(Error) /\ errors \in Seq(Error)
  BY RaisedErrors
<1>3. Behind(queue) /\ NewestKnown(queue)
  BY DEF QueueInCall
<1>4. /\ queue' \in Seq(Error) /\ Len(queue') <= QueueCap
      /\ Behind(queue') /\ NewestKnown(queue')
      /\ Keeps(queue) /\ Len(queue) + Len(errors) <= QueueCap => Keeps(queue')
      /\ ~d /\ NoneDecoding =>
           \A i \in 1 .. Len(queue') :
             queue'[i].owner = "provider" => ~queue'[i].decoding
      /\ errors # << >> => queue' # << >> /\ queue'[Len(queue')].decoding = d
  BY <1>1, <1>2, <1>3, EnqueueKeeps DEF NoneDecoding
<1>5. ~dropped' => Keeps(queue')
  <2>1. Len(queue) \in Nat /\ Len(errors) \in Nat
    BY <1>2
  <2> SUFFICES ASSUME ~dropped' PROVE Keeps(queue')
    OBVIOUS
  <2>2. ~dropped /\ ~(Len(queue) + Len(errors) > QueueCap)
    BY <1>1
  <2>3. Len(queue) + Len(errors) <= QueueCap
    BY <2>1, <2>2
  <2> QED  BY <1>4, <2>2, <2>3 DEF QueueInCall
<1>6. NewestKnown(queue)' /\ (~dropped' => Keeps(queue)')
  BY <1>4, <1>5 DEF NewestKnown, Keeps
<1>7. QueueInCall'
  BY <1>4, <1>6 DEF QueueInCall, Behind
<1> QED  BY <1>1, <1>4, <1>7 DEF NoneDecoding
-----------------------------------------------------------------------------
\* The seven objects and the order they are freed in.
LEMMA FreeOrderFacts ==
  /\ Len(FreeOrder) = 7
  /\ FreeOrder[1] = "digest_context" /\ FreeOrder[2] = "ecdsa_signature"
  /\ FreeOrder[3] = "scalar_r" /\ FreeOrder[4] = "scalar_s"
  /\ FreeOrder[5] = "order" /\ FreeOrder[6] = "key" /\ FreeOrder[7] = "key_context"
  /\ Objects = {"digest_context", "ecdsa_signature", "scalar_r", "scalar_s",
                "order", "key", "key_context"}
<1>1. /\ Len(FreeOrder) = 7
      /\ FreeOrder[1] = "digest_context" /\ FreeOrder[2] = "ecdsa_signature"
      /\ FreeOrder[3] = "scalar_r" /\ FreeOrder[4] = "scalar_s"
      /\ FreeOrder[5] = "order" /\ FreeOrder[6] = "key"
      /\ FreeOrder[7] = "key_context"
  BY DEF FreeOrder
<1>2. 1 .. 7 = {1, 2, 3, 4, 5, 6, 7}
  OBVIOUS
<1> QED  BY <1>1, <1>2 DEF Objects

LEMMA InitIInv == Init => IInv
<1> SUFFICES ASSUME Init PROVE IInv
  OBVIOUS
<1>1. saved \in CallerQueues /\ queue = saved
  BY DEF Init
<1>2. TypeOK
  <2>1. queue \in Seq(Error) /\ Len(queue) <= QueueCap
    BY <1>1
  <2>2. freed \in 0 .. Len(FreeOrder)
    BY FreeOrderFacts DEF Init
  <2>3. {marked, dropped, faulted} \subseteq BOOLEAN
    BY DEF Init
  <2> QED  BY <2>1, <2>2, <2>3 DEF Init, TypeOK, Statuses
<1>3. AllCaller(queue)
  BY <1>1 DEF AllCaller
<1>4. ErrorQueue
  BY <1>1, <1>3 DEF Init, ErrorQueue, Marking, InVerify, InHash, BeforeKey,
                    BeforeGive, AfterGive
<1>5. Control /\ Pointers
  BY DEF Init, Control, Pointers, Points, Marking, InVerify, InHash, BeforeKey,
         BeforeGive, AfterGive
<1>6. Verdict /\ Published
  BY DEF Init, Verdict, VerdictMeansIt, Published, DigestAllOrNothing, InVerify,
         BeforeKey, BeforeGive, AfterGive
<1> QED  BY <1>2, <1>4, <1>5, <1>6 DEF IInv
-----------------------------------------------------------------------------
HIDE CryptoAssumption

\* The errors of a call in the state of an inductive step.
LEMMA Raising ==
  ASSUME IInv, pc \in Marking, saved' = saved, marked' = marked,
         NEW d \in BOOLEAN, \E errors \in Raised(d) : Raise(errors)
  PROVE  /\ queue' \in Seq(Error) /\ Len(queue') <= QueueCap
         /\ marked' \in BOOLEAN /\ dropped' \in BOOLEAN
         /\ QueueInCall'
         /\ ~d /\ NoneDecoding => NoneDecoding'
<1>1. /\ queue \in Seq(Error) /\ Len(queue) <= QueueCap
      /\ dropped \in BOOLEAN /\ marked \in BOOLEAN
  BY DEF IInv, TypeOK
<1>2. saved \in CallerQueues /\ QueueInCall
  BY DEF IInv, ErrorQueue
<1>3. PICK errors \in Raised(d) : Raise(errors)
  OBVIOUS
<1> QED  BY <1>1, <1>2, <1>3, RaiseStep

\* Some argument is refused for what is wrong with it.
LEMMA RefusalRange ==
  ASSUME NEW q \in Requests, q.flaws # {}
  PROVE  Refusal(q) \in {"INVALID_ARGUMENT", "UNSUPPORTED_ALGORITHM", "SIGNATURE",
                         "CRYPTO_PROVIDER"}
<1>1. q.flaws \subseteq {"null", "algorithm", "length", "callback"}
  BY CryptoAssumption DEF Request, Flaws
<1>2. CASE "null" \in q.flaws
  BY <1>2 DEF Refusal
<1>3. CASE "null" \notin q.flaws /\ "algorithm" \in q.flaws
  BY <1>3 DEF Refusal
<1>4. CASE q.flaws \cap {"null", "algorithm"} = {} /\ "length" \in q.flaws
  BY <1>4 DEF Refusal
<1>5. CASE q.flaws = {"callback"}
  BY <1>5 DEF Refusal
<1> QED  BY <1>1, <1>2, <1>3, <1>4, <1>5

\* Every step keeps the types.
LEMMA TypeStep ==
  ASSUME IInv, Next
  PROVE  TypeOK'
<1>0. TypeOK
  BY DEF IInv
<1>1. ASSUME NEW q \in CallerQueues, Prepare(q) PROVE TypeOK'
  <2>1. q \in Seq(Error) /\ Len(q) <= QueueCap
    BY CryptoAssumption
  <2>2. request' \in Requests
    BY <1>0, <1>1 DEF Prepare, TypeOK
  <2> QED  BY <1>0, <1>1, <2>1, <2>2 DEF Prepare, TypeOK, Statuses, locals, history
<1>2. ASSUME NEW q \in Requests, Call(q) PROVE TypeOK'
  <2>1. ret' = "busy" \/ (ret' = Refusal(q) /\ q.flaws # {})
    <3>1. CASE q.flaws # {}
      BY <1>2, <3>1 DEF Call
    <3>2. CASE q.flaws = {}
      BY <1>2, <3>2 DEF Call
    <3> QED  BY <3>1, <3>2
  <2> QED  BY <1>0, <1>2, <2>1, RefusalRange DEF Call, TypeOK, locals, history
<1>3. CASE Foreign
  BY <1>0, <1>3 DEF Foreign, TypeOK, Statuses, locals, history
<1>4. CASE Enter
  <2>1. CASE request.op = "verify" /\ ~request.prefix
    BY <1>0, <1>4, <2>1 DEF Enter, TypeOK, Statuses, locals, history
  <2>2. CASE ~(request.op = "verify" /\ ~request.prefix)
    <3>1. queue = saved /\ saved \in CallerQueues
      BY <1>4 DEF IInv, ErrorQueue, Enter
    <3>2. queue' = IF queue = << >> THEN queue ELSE Mark(queue)
      BY <1>4, <2>2 DEF Enter
    <3>3. queue' \in Seq(Error) /\ Len(queue') <= QueueCap
      BY <1>0, <3>1, <3>2, Marked, CryptoAssumption DEF TypeOK
    <3>4. marked' \in BOOLEAN /\ status' = "CRYPTO_PROVIDER"
      BY <1>4, <2>2 DEF Enter
    <3> QED  BY <1>0, <1>4, <3>3, <3>4 DEF Enter, TypeOK, Statuses, locals, history
  <2> QED  BY <2>1, <2>2
<1>5. CASE Digest
  <2>1. /\ queue' \in Seq(Error) /\ Len(queue') <= QueueCap
        /\ marked' \in BOOLEAN /\ dropped' \in BOOLEAN
    BY <1>5, Raising DEF Digest, Marking, InVerify, InHash, BeforeKey, BeforeGive,
       AfterGive
  <2> QED  BY <1>0, <1>5, <2>1 DEF Digest, TypeOK, Statuses, locals, history
<1>6. CASE Allocate("context", "key_context", "init")
  <2>1. /\ queue' \in Seq(Error) /\ Len(queue') <= QueueCap
        /\ marked' \in BOOLEAN /\ dropped' \in BOOLEAN
    BY <1>6, Raising DEF Allocate, Marking, InVerify, InHash, BeforeKey, BeforeGive,
       AfterGive
  <2> QED  BY <1>0, <1>6, <2>1, FreeOrderFacts
           DEF Allocate, TypeOK, Statuses, locals, history
<1>7. CASE Try("init", "import")
  <2>1. /\ queue' \in Seq(Error) /\ Len(queue') <= QueueCap
        /\ marked' \in BOOLEAN /\ dropped' \in BOOLEAN
    BY <1>7, Raising DEF Try, Marking, InVerify, InHash, BeforeKey, BeforeGive,
       AfterGive
  <2> QED  BY <1>0, <1>7, <2>1 DEF Try, TypeOK, Statuses, locals, history
<1>8. CASE Import
  <2>1. \/ UNCHANGED <<queue, dropped>>
        \/ \E d \in BOOLEAN : \E errors \in Raised(d) : Raise(errors)
    BY <1>8 DEF Import
  <2>2. /\ queue' \in Seq(Error) /\ Len(queue') <= QueueCap
        /\ marked' \in BOOLEAN /\ dropped' \in BOOLEAN
    BY <1>0, <1>8, <2>1, Raising DEF Import, TypeOK, Marking, InVerify, BeforeKey
  <2>3. status' \in {"CRYPTO_PROVIDER", "SIGNATURE"} \/ status' = status
    BY <1>8 DEF Import, key_import_failure
  <2>4. held' \subseteq Objects /\ live' \subseteq Objects /\ faulted' \in BOOLEAN
    BY <1>0, <1>8, FreeOrderFacts DEF Import, TypeOK
  <2> QED  BY <1>0, <1>8, <2>2, <2>3, <2>4 DEF Import, TypeOK, Statuses, locals, history
<1>9. CASE Allocate("order", "order", "scalars")
  <2>1. /\ queue' \in Seq(Error) /\ Len(queue') <= QueueCap
        /\ marked' \in BOOLEAN /\ dropped' \in BOOLEAN
    BY <1>9, Raising DEF Allocate, Marking, InVerify, InHash, BeforeKey, BeforeGive,
       AfterGive
  <2> QED  BY <1>0, <1>9, <2>1, FreeOrderFacts
           DEF Allocate, TypeOK, Statuses, locals, history
<1>10. CASE Scalars
  <2>1. /\ queue' \in Seq(Error) /\ Len(queue') <= QueueCap
        /\ marked' \in BOOLEAN /\ dropped' \in BOOLEAN
    BY <1>10, Raising DEF Scalars, Marking, InVerify, InHash, BeforeKey, BeforeGive,
       AfterGive
  <2> QED  BY <1>0, <1>10, <2>1, FreeOrderFacts
           DEF Scalars, TypeOK, Statuses, locals, history
<1>11. CASE InRange
  <2>1. status' \in {status, "SIGNATURE"}
    BY <1>11 DEF InRange
  <2> QED  BY <1>0, <1>11, <2>1 DEF InRange, TypeOK, Statuses, locals, history
<1>12. CASE Allocate("signature", "ecdsa_signature", "own")
  <2>1. /\ queue' \in Seq(Error) /\ Len(queue') <= QueueCap
        /\ marked' \in BOOLEAN /\ dropped' \in BOOLEAN
    BY <1>12, Raising DEF Allocate, Marking, InVerify, InHash, BeforeKey, BeforeGive,
       AfterGive
  <2> QED  BY <1>0, <1>12, <2>1, FreeOrderFacts
           DEF Allocate, TypeOK, Statuses, locals, history
<1>13. CASE Give
  <2>1. /\ queue' \in Seq(Error) /\ Len(queue') <= QueueCap
        /\ marked' \in BOOLEAN /\ dropped' \in BOOLEAN
    BY <1>13, Raising DEF Give, Marking, InVerify, InHash, BeforeKey, BeforeGive,
       AfterGive
  <2> QED  BY <1>0, <1>13, <2>1, FreeOrderFacts
           DEF Give, TypeOK, Statuses, locals, history
<1>14. CASE Encode
  <2>1. /\ queue' \in Seq(Error) /\ Len(queue') <= QueueCap
        /\ marked' \in BOOLEAN /\ dropped' \in BOOLEAN
    BY <1>14, Raising DEF Encode, Marking, InVerify, InHash, BeforeKey, BeforeGive,
       AfterGive
  <2> QED  BY <1>0, <1>14, <2>1 DEF Encode, TypeOK, Statuses, locals, history
<1>15. CASE Allocate("digest context", "digest_context", "digest init")
  <2>1. /\ queue' \in Seq(Error) /\ Len(queue') <= QueueCap
        /\ marked' \in BOOLEAN /\ dropped' \in BOOLEAN
    BY <1>15, Raising DEF Allocate, Marking, InVerify, InHash, BeforeKey, BeforeGive,
       AfterGive
  <2> QED  BY <1>0, <1>15, <2>1, FreeOrderFacts
           DEF Allocate, TypeOK, Statuses, locals, history
<1>16. CASE Try("digest init", "verify")
  <2>1. /\ queue' \in Seq(Error) /\ Len(queue') <= QueueCap
        /\ marked' \in BOOLEAN /\ dropped' \in BOOLEAN
    BY <1>16, Raising DEF Try, Marking, InVerify, InHash, BeforeKey, BeforeGive,
       AfterGive
  <2> QED  BY <1>0, <1>16, <2>1 DEF Try, TypeOK, Statuses, locals, history
<1>17. CASE Verify
  <2>1. /\ queue' \in Seq(Error) /\ Len(queue') <= QueueCap
        /\ marked' \in BOOLEAN /\ dropped' \in BOOLEAN
    BY <1>17, Raising DEF Verify, Marking, InVerify, InHash, BeforeKey, BeforeGive,
       AfterGive
  <2> QED  BY <1>0, <1>17, <2>1 DEF Verify, TypeOK, Statuses, locals, history
<1>18. CASE Free
  <2>1. freed' \in 0 .. Len(FreeOrder)
    BY <1>0, <1>18, FreeOrderFacts DEF Free, TypeOK
  <2> QED  BY <1>0, <1>18, <2>1 DEF Free, TypeOK, locals, history
<1>19. CASE Discard
  <2>1. pc \in Marking
    BY <1>19 DEF Discard, Marking, InVerify, InHash
  <2>2. queue' \in Seq(Error) /\ Len(queue') <= QueueCap
    <3>1. queue' = discard_provider_errors(queue, marked)
      BY <1>19 DEF Discard
    <3>2. saved \in CallerQueues /\ QueueInCall
      BY <2>1 DEF IInv, ErrorQueue
    <3> QED  BY <1>0, <3>1, <3>2, Discarded DEF TypeOK, QueueInCall, locals, history
  <2>3. freed' \in 0 .. Len(FreeOrder)
    BY <1>19, FreeOrderFacts DEF Discard
  <2> QED  BY <1>0, <1>19, <2>2, <2>3 DEF Discard, TypeOK, locals, history
<1>20. CASE Return
  <2>1. ret' \in {"OK", "SIGNATURE", "CRYPTO_PROVIDER"}
    BY <1>20 DEF Return, Normalised
  <2>2. digest' \in {"old", "garbage", "partial", "digest"}
    BY <1>0, <1>20 DEF Return, TypeOK
  <2> QED  BY <1>0, <1>20, <2>1, <2>2 DEF Return, TypeOK, locals, history
<1> QED
  BY <1>1, <1>2, <1>3, <1>4, <1>5, <1>6, <1>7, <1>8, <1>9, <1>10, <1>11,
     <1>12, <1>13, <1>14, <1>15, <1>16, <1>17, <1>18, <1>19, <1>20, Zenon DEF Next, Step

\* Every step leads where the next call is one for the request.
LEMMA ControlStep ==
  ASSUME IInv, Next
  PROVE  Control'
<1>0. Control /\ request \in Requests
  BY DEF IInv, TypeOK
<1> USE DEF Control, Points, Marking, InVerify, InHash, BeforeKey, BeforeGive, AfterGive
<1>1. ASSUME NEW q \in CallerQueues, Prepare(q) PROVE Control'
  BY <1>0, <1>1 DEF Prepare
<1>2. ASSUME NEW q \in Requests, Call(q) PROVE Control'
  <2>1. CASE q.flaws # {}
    <3>1. /\ request' = q /\ pc = "idle" /\ UNCHANGED pc
          /\ ret' \in {"INVALID_ARGUMENT", "UNSUPPORTED_ALGORITHM", "SIGNATURE",
                       "CRYPTO_PROVIDER"}
      BY <1>2, <2>1, RefusalRange DEF Call
    <3> QED  BY <3>1
  <2>2. CASE q.flaws = {}
    <3>1. /\ request' = q /\ ret' = "busy"
          /\ pc' = IF q.foreign THEN "foreign" ELSE "enter"
      BY <1>2, <2>2 DEF Call
    <3> QED  BY <2>2, <3>1
  <2> QED  BY <2>1, <2>2
<1>3. CASE Foreign
  BY <1>0, <1>3 DEF Foreign
<1>4. CASE Enter
  <2>1. request.op \in {"hash", "verify"}
    BY <1>0, CryptoAssumption DEF Request
  <2>2. pc = "enter" /\ UNCHANGED <<request, ret>>
    BY <1>4 DEF Enter
  <2>3. CASE request.op = "verify" /\ ~request.prefix
    <3>1. pc' = "return"
      BY <1>4, <2>3 DEF Enter
    <3> QED  BY <1>0, <2>2, <3>1
  <2>4. CASE ~(request.op = "verify" /\ ~request.prefix)
    <3>1. pc' = IF request.op = "hash" THEN "digest" ELSE "context"
      BY <1>4, <2>4 DEF Enter
    <3> QED  BY <1>0, <2>1, <2>2, <2>4, <3>1
  <2> QED  BY <2>3, <2>4
<1>5. CASE Digest
  BY <1>0, <1>5 DEF Digest
<1>6. CASE Allocate("context", "key_context", "init")
  BY <1>0, <1>6 DEF Allocate
<1>7. CASE Try("init", "import")
  BY <1>0, <1>7 DEF Try
<1>8. CASE Import
  BY <1>0, <1>8 DEF Import
<1>9. CASE Allocate("order", "order", "scalars")
  BY <1>0, <1>9 DEF Allocate
<1>10. CASE Scalars
  BY <1>0, <1>10 DEF Scalars
<1>11. CASE InRange
  BY <1>0, <1>11 DEF InRange
<1>12. CASE Allocate("signature", "ecdsa_signature", "own")
  BY <1>0, <1>12 DEF Allocate
<1>13. CASE Give
  BY <1>0, <1>13 DEF Give
<1>14. CASE Encode
  BY <1>0, <1>14 DEF Encode
<1>15. CASE Allocate("digest context", "digest_context", "digest init")
  BY <1>0, <1>15 DEF Allocate
<1>16. CASE Try("digest init", "verify")
  BY <1>0, <1>16 DEF Try
<1>17. CASE Verify
  BY <1>0, <1>17 DEF Verify
<1>18. CASE Free
  BY <1>0, <1>18 DEF Free
<1>19. CASE Discard
  BY <1>0, <1>19 DEF Discard
<1>20. CASE Return
  BY <1>0, <1>20 DEF Return, Normalised
<1> QED
  BY <1>1, <1>2, <1>3, <1>4, <1>5, <1>6, <1>7, <1>8, <1>9, <1>10, <1>11,
     <1>12, <1>13, <1>14, <1>15, <1>16, <1>17, <1>18, <1>19, <1>20, Zenon DEF Next, Step

\* Objects that are allocated are held, and are not yet owned by the ECDSA_SIG.
LEMMA Allocated ==
  ASSUME Pointers, NEW made, made \cap given = {},
         "ecdsa_signature" \in made => given = {},
         held' = held \cup made, live' = live \cup made, given' = given
  PROVE  /\ live' = held' \cup (IF "ecdsa_signature" \in held' THEN given' ELSE {})
         /\ given' \cap held' = {}
<1>1. /\ live = held \cup (IF "ecdsa_signature" \in held THEN given ELSE {})
      /\ given \cap held = {}
  BY DEF Pointers
<1>2. CASE given = {}
  BY <1>1, <1>2
<1>3. CASE given # {}
  BY <1>1, <1>3
<1> QED  BY <1>2, <1>3

\* Every step keeps what is allocated and what the pointers free the same.
LEMMA PointersStep ==
  ASSUME IInv, Next
  PROVE  Pointers'
<1>0. Pointers
  BY DEF IInv
<1> USE DEF Pointers, InVerify, BeforeKey, BeforeGive, AfterGive, locals
<1>1. ASSUME NEW q \in CallerQueues, Prepare(q) PROVE Pointers'
  BY <1>0, <1>1 DEF Prepare
<1>2. ASSUME NEW q \in Requests, Call(q) PROVE Pointers'
  BY <1>0, <1>2 DEF Call
<1>3. CASE Foreign
  BY <1>0, <1>3 DEF Foreign
<1>4. CASE Enter
  BY <1>0, <1>4 DEF Enter
<1>5. CASE Digest
  BY <1>0, <1>5 DEF Digest
<1>6. CASE Allocate("context", "key_context", "init")
  <2>1. /\ pc = "context" /\ UNCHANGED <<given, freed>>
        /\ \/ /\ held' = held \cup {"key_context"}
              /\ live' = live \cup {"key_context"}
              /\ pc' = "init"
           \/ pc' = "cleanup" /\ UNCHANGED <<held, live>>
    BY <1>6 DEF Allocate
  <2>2. CASE pc' = "cleanup" /\ UNCHANGED <<held, live>>
    BY <1>0, <2>1, <2>2
  <2>3. CASE /\ held' = held \cup {"key_context"} /\ pc' = "init"
             /\ live' = live \cup {"key_context"}
    <3>1. /\ live' = held' \cup (IF "ecdsa_signature" \in held' THEN given' ELSE {})
          /\ given' \cap held' = {}
      BY <1>0, <2>1, <2>3, Allocated
    <3> QED  BY <1>0, <2>1, <2>3, <3>1
  <2> QED  BY <2>1, <2>2, <2>3
<1>7. CASE Try("init", "import")
  BY <1>0, <1>7 DEF Try
<1>8. CASE Import
  <2>1. /\ pc = "import" /\ UNCHANGED <<given, freed>>
        /\ \/ /\ held' = held \cup {"key"}
              /\ live' = live \cup {"key"}
              /\ pc' = "order"
           \/ pc' = "cleanup" /\ UNCHANGED <<held, live>>
    BY <1>8 DEF Import
  <2>2. CASE pc' = "cleanup" /\ UNCHANGED <<held, live>>
    BY <1>0, <2>1, <2>2
  <2>3. CASE /\ held' = held \cup {"key"} /\ pc' = "order"
             /\ live' = live \cup {"key"}
    <3>1. /\ live' = held' \cup (IF "ecdsa_signature" \in held' THEN given' ELSE {})
          /\ given' \cap held' = {}
      BY <1>0, <2>1, <2>3, Allocated
    <3> QED  BY <1>0, <2>1, <2>3, <3>1
  <2> QED  BY <2>1, <2>2, <2>3
<1>9. CASE Allocate("order", "order", "scalars")
  <2>1. /\ pc = "order" /\ UNCHANGED <<given, freed>>
        /\ \/ /\ held' = held \cup {"order"}
              /\ live' = live \cup {"order"}
              /\ pc' = "scalars"
           \/ pc' = "cleanup" /\ UNCHANGED <<held, live>>
    BY <1>9 DEF Allocate
  <2>2. CASE pc' = "cleanup" /\ UNCHANGED <<held, live>>
    BY <1>0, <2>1, <2>2
  <2>3. CASE /\ held' = held \cup {"order"} /\ pc' = "scalars"
             /\ live' = live \cup {"order"}
    <3>1. /\ live' = held' \cup (IF "ecdsa_signature" \in held' THEN given' ELSE {})
          /\ given' \cap held' = {}
      BY <1>0, <2>1, <2>3, Allocated
    <3> QED  BY <1>0, <2>1, <2>3, <3>1
  <2> QED  BY <2>1, <2>2, <2>3
<1>10. CASE Scalars
  <2>1. pc = "scalars" /\ UNCHANGED <<given, freed>>
    BY <1>10 DEF Scalars
  <2>2. PICK made \in SUBSET {"scalar_r", "scalar_s"} :
          /\ held' = held \cup made /\ live' = live \cup made
          /\ IF made = {"scalar_r", "scalar_s"} THEN pc' = "range" ELSE pc' = "cleanup"
    BY <1>10 DEF Scalars
  <2>3. /\ live' = held' \cup (IF "ecdsa_signature" \in held' THEN given' ELSE {})
        /\ given' \cap held' = {}
    BY <1>0, <2>1, <2>2, Allocated
  <2>4. CASE made = {"scalar_r", "scalar_s"}
    BY <1>0, <2>1, <2>2, <2>3, <2>4
  <2>5. CASE made # {"scalar_r", "scalar_s"}
    BY <1>0, <2>1, <2>2, <2>3, <2>5
  <2> QED  BY <2>4, <2>5
<1>11. CASE InRange
  BY <1>0, <1>11 DEF InRange
<1>12. CASE Allocate("signature", "ecdsa_signature", "own")
  <2>1. /\ pc = "signature" /\ UNCHANGED <<given, freed>>
        /\ \/ /\ held' = held \cup {"ecdsa_signature"}
              /\ live' = live \cup {"ecdsa_signature"}
              /\ pc' = "own"
           \/ pc' = "cleanup" /\ UNCHANGED <<held, live>>
    BY <1>12 DEF Allocate
  <2>2. CASE pc' = "cleanup" /\ UNCHANGED <<held, live>>
    BY <1>0, <2>1, <2>2
  <2>3. CASE /\ held' = held \cup {"ecdsa_signature"} /\ pc' = "own"
             /\ live' = live \cup {"ecdsa_signature"}
    <3>1. /\ live' = held' \cup (IF "ecdsa_signature" \in held' THEN given' ELSE {})
          /\ given' \cap held' = {}
      BY <1>0, <2>1, <2>3, Allocated
    <3> QED  BY <1>0, <2>1, <2>3, <3>1
  <2> QED  BY <2>1, <2>2, <2>3
<1>13. CASE Give
  <2>1. /\ pc = "own" /\ UNCHANGED <<live, freed>>
        /\ \/ /\ given' = {"scalar_r", "scalar_s"} /\ held' = held \ given'
              /\ pc' = "encode"
           \/ pc' = "cleanup" /\ UNCHANGED <<given, held>>
    BY <1>13 DEF Give
  <2>2. CASE pc' = "cleanup" /\ UNCHANGED <<given, held>>
    BY <1>0, <2>1, <2>2
  <2>3. CASE /\ given' = {"scalar_r", "scalar_s"} /\ held' = held \ given'
             /\ pc' = "encode"
    <3>1. /\ live = held /\ "ecdsa_signature" \in held
          /\ {"scalar_r", "scalar_s"} \subseteq held
      BY <1>0, <2>1
    <3>2. live' = held' \cup (IF "ecdsa_signature" \in held' THEN given' ELSE {})
      BY <2>1, <2>3, <3>1
    <3> QED  BY <1>0, <2>1, <2>3, <3>2
  <2> QED  BY <2>1, <2>2, <2>3
<1>14. CASE Encode
  BY <1>0, <1>14 DEF Encode
<1>15. CASE Allocate("digest context", "digest_context", "digest init")
  <2>1. /\ pc = "digest context" /\ UNCHANGED <<given, freed>>
        /\ \/ /\ held' = held \cup {"digest_context"}
              /\ live' = live \cup {"digest_context"}
              /\ pc' = "digest init"
           \/ pc' = "cleanup" /\ UNCHANGED <<held, live>>
    BY <1>15 DEF Allocate
  <2>2. CASE pc' = "cleanup" /\ UNCHANGED <<held, live>>
    BY <1>0, <2>1, <2>2
  <2>3. CASE /\ held' = held \cup {"digest_context"} /\ pc' = "digest init"
             /\ live' = live \cup {"digest_context"}
    <3>1. /\ live' = held' \cup (IF "ecdsa_signature" \in held' THEN given' ELSE {})
          /\ given' \cap held' = {}
      <4>1. given \subseteq {"scalar_r", "scalar_s"} /\ "digest_context" \notin given
        BY <1>0
      <4> QED  BY <1>0, <2>1, <2>3, <4>1, Allocated
    <3>2. /\ given' \subseteq {"scalar_r", "scalar_s"} /\ freed' = 0
          /\ \A i \in 1 .. freed' : FreeOrder[i] \notin held'
      <4>1. freed = 0
        BY <1>0, <2>1
      <4>2. given \subseteq {"scalar_r", "scalar_s"}
        BY <1>0
      <4>3. given' = given /\ freed' = freed
        BY <2>1
      <4>4. 1 .. 0 = {}
        OBVIOUS
      <4> QED  BY <4>1, <4>2, <4>3, <4>4
    <3> QED  BY <2>3, <3>1, <3>2
  <2> QED  BY <2>1, <2>2, <2>3
<1>16. CASE Try("digest init", "verify")
  BY <1>0, <1>16 DEF Try
<1>17. CASE Verify
  BY <1>0, <1>17 DEF Verify
<1>18. CASE Free
  <2> DEFINE o == FreeOrder[freed']
  <2>1. /\ pc = "cleanup" /\ pc' = pc /\ given' = given /\ freed' = freed + 1
        /\ live' = live \ Frees(o) /\ held' = held \ {o}
    BY <1>18 DEF Free
  <2>2. freed \in Nat
    <3>1. freed \in 0 .. Len(FreeOrder)
      BY DEF IInv, TypeOK
    <3> QED  BY <3>1, FreeOrderFacts
  <2> HIDE DEF o
  <2>3. live' = held' \cup (IF "ecdsa_signature" \in held' THEN given' ELSE {})
    <3>1. CASE o \notin held
      BY <1>0, <2>1, <3>1 DEF Frees
    <3>2. CASE o \in held /\ o = "ecdsa_signature"
      BY <1>0, <2>1, <3>2 DEF Frees
    <3>3. CASE o \in held /\ o # "ecdsa_signature"
      BY <1>0, <2>1, <3>3 DEF Frees
    <3> QED  BY <3>1, <3>2, <3>3
  <2>4. ASSUME NEW i \in 1 .. freed'
        PROVE  FreeOrder[i] \notin held'
    <3>1. CASE i = freed'
      BY <2>1, <3>1 DEF o
    <3>2. CASE i # freed'
      <4>1. i \in 1 .. freed
        BY <2>1, <2>2, <3>2
      <4> QED  BY <1>0, <2>1, <4>1
    <3> QED  BY <3>1, <3>2
  <2> QED  BY <1>0, <2>1, <2>3, <2>4
<1>19. CASE Discard
  <2>1. pc' = "return" /\ freed' = 0 /\ given' = {} /\ UNCHANGED <<held, live>>
    BY <1>19 DEF Discard
  <2>2. held = {}
    <3>1. CASE pc = "discard"
      BY <1>0, <3>1
    <3>2. CASE freed = Len(FreeOrder)
      <4>1. held \subseteq Objects /\ \A i \in 1 .. 7 : FreeOrder[i] \notin held
        BY <1>0, <3>2, FreeOrderFacts DEF IInv, TypeOK
      <4> QED  BY <4>1, FreeOrderFacts
    <3> QED  BY <1>19, <3>1, <3>2 DEF Discard
  <2>3. live' = {} /\ held' = {}
    BY <1>0, <2>1, <2>2
  <2> QED  BY <2>1, <2>3
<1>20. CASE Return
  BY <1>0, <1>20 DEF Return
<1> QED
  BY <1>1, <1>2, <1>3, <1>4, <1>5, <1>6, <1>7, <1>8, <1>9, <1>10, <1>11,
     <1>12, <1>13, <1>14, <1>15, <1>16, <1>17, <1>18, <1>19, <1>20, Zenon DEF Next, Step

\* Steps that leave the queue alone.
LEMMA QueueUnchanged ==
  ASSUME UNCHANGED <<queue, marked, saved, dropped>>
  PROVE  /\ QueueInCall' <=> QueueInCall
         /\ NoneDecoding' <=> NoneDecoding
         /\ AllCaller(queue)' <=> AllCaller(queue)
BY DEF QueueInCall, Behind, NewestKnown, Keeps, NoneDecoding, AllCaller

\* A call begins with the caller's newest error marked, if there is one.
LEMMA MarkBegins ==
  ASSUME saved \in CallerQueues, queue = saved, saved' = saved,
         marked' = (queue # << >>),
         queue' = IF queue = << >> THEN queue ELSE Mark(queue)
  PROVE  QueueInCall' /\ NoneDecoding'
<1>1. AllCaller(queue') /\ Keeps(queue') /\ NewestKnown(queue')
  <2>1. CASE saved = << >>
    <3>1. queue' = << >> /\ saved = << >> /\ Len(<< >>) = 0
      BY <2>1
    <3> QED  BY <3>1 DEF AllCaller, Keeps, NewestKnown
  <2>2. CASE saved # << >>
    BY <2>2, Marked
  <2> QED  BY <2>1, <2>2
<1>2. Behind(queue') /\ NoneDecoding'
  BY <1>1 DEF AllCaller, Behind, NoneDecoding
<1>3. Keeps(queue)' /\ NewestKnown(queue)'
  BY <1>1 DEF Keeps, NewestKnown
<1>4. Behind(queue)'
  BY <1>2 DEF Behind
<1> QED  BY <1>2, <1>3, <1>4 DEF QueueInCall

\* Every step keeps the caller's errors apart from the provider's.
LEMMA QueueStep ==
  ASSUME IInv, Next
  PROVE  ErrorQueue'
<1>0. ErrorQueue /\ (pc # "idle" => ret = "busy")
  BY DEF IInv, Control
<1> USE DEF ErrorQueue, Marking, InVerify, InHash, BeforeKey, BeforeGive, AfterGive,
            locals, history
<1>1. ASSUME NEW q \in CallerQueues, Prepare(q) PROVE ErrorQueue'
  <2>1. /\ queue' = q /\ saved' = q /\ pc' = "idle"
    BY <1>1 DEF Prepare
  <2>2. AllCaller(queue)'
    BY <2>1, CryptoAssumption DEF AllCaller
  <2> QED  BY <2>1, <2>2
<1>2. ASSUME NEW q \in Requests, Call(q) PROVE ErrorQueue'
  <2>1. UNCHANGED <<queue, marked, saved, dropped>> /\ ret = "none" /\ pc = "idle"
    BY <1>2 DEF Call
  <2>2. pc' \in {"idle", "foreign", "enter"}
    BY <1>2, <2>1 DEF Call
  <2> QED  BY <1>0, <2>1, <2>2, QueueUnchanged
<1>3. CASE Foreign
  <2>1. UNCHANGED <<queue, marked, saved, dropped>>
    BY <1>3 DEF Foreign
  <2> QED  BY <1>0, <1>3, <2>1, QueueUnchanged DEF Foreign
<1>4. CASE Enter
  <2>1. saved' = saved /\ dropped' = dropped /\ queue = saved /\ ret' = "busy"
    BY <1>0, <1>4 DEF Enter
  <2>2. CASE request.op = "verify" /\ ~request.prefix
    <3>1. pc' = "return" /\ UNCHANGED <<queue, marked, saved, dropped>>
      BY <1>4, <2>2 DEF Enter
    <3> QED  BY <1>0, <1>4, <2>1, <3>1, QueueUnchanged DEF Enter
  <2>3. CASE ~(request.op = "verify" /\ ~request.prefix)
    <3>1. /\ marked' = (queue # << >>)
          /\ queue' = IF queue = << >> THEN queue ELSE Mark(queue)
          /\ pc' = IF request.op = "hash" THEN "digest" ELSE "context"
      BY <1>4, <2>3 DEF Enter
    <3>2. QueueInCall' /\ NoneDecoding'
      BY <1>0, <2>1, <3>1, MarkBegins
    <3> QED  BY <1>0, <2>1, <3>1, <3>2
  <2> QED  BY <2>2, <2>3
<1>5. CASE Digest
  <2>1. pc = "digest" /\ (pc' = "discard") /\ saved' = saved /\ ret' = ret
    BY <1>5 DEF Digest
  <2>2. QueueInCall'
    BY <1>0, <1>5, Raising DEF Digest
  <2> QED  BY <1>0, <2>1, <2>2
<1>6. CASE Allocate("context", "key_context", "init")
  <2>1. pc = "context" /\ pc' \in {"init", "cleanup"} /\ UNCHANGED <<saved, ret>>
    BY <1>6 DEF Allocate
  <2>2. QueueInCall' /\ NoneDecoding'
    BY <1>0, <1>6, Raising DEF Allocate
  <2> QED  BY <1>0, <2>1, <2>2
<1>7. CASE Try("init", "import")
  <2>1. pc = "init" /\ pc' \in {"import", "cleanup"} /\ UNCHANGED <<saved, ret>>
    BY <1>7 DEF Try
  <2>2. QueueInCall' /\ NoneDecoding'
    BY <1>0, <1>7, Raising DEF Try
  <2> QED  BY <1>0, <2>1, <2>2
<1>8. CASE Import
  <2>1. /\ pc = "import" /\ saved' = saved /\ marked' = marked /\ ret' = ret
        /\ pc' \in {"order", "cleanup"}
    BY <1>8 DEF Import
  <2>2. CASE UNCHANGED <<queue, dropped>>
    BY <1>0, <2>1, <2>2, QueueUnchanged
  <2>3. CASE \E d \in BOOLEAN : \E errors \in Raised(d) : Raise(errors)
    <3>1. QueueInCall'
      BY <2>1, <2>3, Raising
    <3> QED  BY <1>0, <2>1, <3>1
  <2>4. \/ UNCHANGED <<queue, dropped>>
        \/ \E d \in BOOLEAN : \E errors \in Raised(d) : Raise(errors)
    BY <1>8 DEF Import
  <2> QED  BY <2>2, <2>3, <2>4
<1>9. CASE Allocate("order", "order", "scalars")
  <2>1. pc = "order" /\ pc' \in {"scalars", "cleanup"} /\ UNCHANGED <<saved, ret>>
    BY <1>9 DEF Allocate
  <2>2. QueueInCall'
    BY <1>0, <1>9, Raising DEF Allocate
  <2> QED  BY <1>0, <2>1, <2>2
<1>10. CASE Scalars
  <2>1. pc = "scalars" /\ pc' \in {"range", "cleanup"} /\ UNCHANGED <<saved, ret>>
    BY <1>10 DEF Scalars
  <2>2. QueueInCall'
    BY <1>0, <1>10, Raising DEF Scalars
  <2> QED  BY <1>0, <2>1, <2>2
<1>11. CASE InRange
  <2>1. UNCHANGED <<queue, marked, saved, dropped>>
    BY <1>11 DEF InRange
  <2> QED  BY <1>0, <1>11, <2>1, QueueUnchanged DEF InRange
<1>12. CASE Allocate("signature", "ecdsa_signature", "own")
  <2>1. pc = "signature" /\ pc' \in {"own", "cleanup"} /\ UNCHANGED <<saved, ret>>
    BY <1>12 DEF Allocate
  <2>2. QueueInCall'
    BY <1>0, <1>12, Raising DEF Allocate
  <2> QED  BY <1>0, <2>1, <2>2
<1>13. CASE Give
  <2>1. pc = "own" /\ pc' \in {"encode", "cleanup"} /\ UNCHANGED <<saved, ret>>
    BY <1>13 DEF Give
  <2>2. QueueInCall'
    BY <1>0, <1>13, Raising DEF Give
  <2> QED  BY <1>0, <2>1, <2>2
<1>14. CASE Encode
  <2>1. pc = "encode" /\ pc' \in {"digest context", "cleanup"} /\ UNCHANGED <<saved, ret>>
    BY <1>14 DEF Encode
  <2>2. QueueInCall'
    BY <1>0, <1>14, Raising DEF Encode
  <2> QED  BY <1>0, <2>1, <2>2
<1>15. CASE Allocate("digest context", "digest_context", "digest init")
  <2>1. pc = "digest context" /\ pc' \in {"digest init", "cleanup"} /\ UNCHANGED <<saved, ret>>
    BY <1>15 DEF Allocate
  <2>2. QueueInCall'
    BY <1>0, <1>15, Raising DEF Allocate
  <2> QED  BY <1>0, <2>1, <2>2
<1>16. CASE Try("digest init", "verify")
  <2>1. pc = "digest init" /\ pc' \in {"verify", "cleanup"} /\ UNCHANGED <<saved, ret>>
    BY <1>16 DEF Try
  <2>2. QueueInCall'
    BY <1>0, <1>16, Raising DEF Try
  <2> QED  BY <1>0, <2>1, <2>2
<1>17. CASE Verify
  <2>1. pc = "verify" /\ (pc' = "cleanup") /\ saved' = saved /\ ret' = ret
    BY <1>17 DEF Verify
  <2>2. QueueInCall'
    BY <1>0, <1>17, Raising DEF Verify
  <2> QED  BY <1>0, <2>1, <2>2
<1>18. CASE Free
  <2>1. UNCHANGED <<queue, marked, saved, dropped>>
    BY <1>18 DEF Free
  <2> QED  BY <1>0, <1>18, <2>1, QueueUnchanged DEF Free
<1>19. CASE Discard
  <2>1. /\ pc \in Marking /\ pc' = "return" /\ UNCHANGED <<saved, dropped, ret>>
        /\ queue' = discard_provider_errors(queue, marked)
    BY <1>19 DEF Discard
  <2>2. queue \in Seq(Error) /\ Len(queue) <= QueueCap
    BY DEF IInv, TypeOK
  <2>3. AllCaller(queue') /\ (~dropped => queue' = saved)
    BY <1>0, <2>1, <2>2, Discarded DEF QueueInCall
  <2>4. AllCaller(queue)'
    BY <2>3 DEF AllCaller
  <2> QED  BY <1>0, <2>1, <2>3, <2>4
<1>20. CASE Return
  <2>1. UNCHANGED <<queue, marked, saved, dropped>>
    BY <1>20 DEF Return
  <2> QED  BY <1>0, <1>20, <2>1, QueueUnchanged DEF Return, Normalised
<1> QED
  BY <1>1, <1>2, <1>3, <1>4, <1>5, <1>6, <1>7, <1>8, <1>9, <1>10, <1>11,
     <1>12, <1>13, <1>14, <1>15, <1>16, <1>17, <1>18, <1>19, <1>20, Zenon DEF Next, Step
-----------------------------------------------------------------------------
\* What the test of the scalars establishes.
LEMMA ScalarsAccepted ==
  ASSUME NEW q \in Requests
  PROVE  /\ ScalarInRange(q.r) <=> q.r \in 1 .. Order - 1
         /\ ScalarInRange(q.s) <=> q.s \in 1 .. Order - 1
<1>1. q.r \in 0 .. Base ^ Width - 1 /\ q.s \in 0 .. Base ^ Width - 1
  BY CryptoAssumption DEF Request
<1>2. Base ^ Width \in Int
  BY CryptoAssumption
<1>3. q.r \in Nat /\ q.s \in Nat /\ Order \in Nat
  BY <1>1, <1>2, CryptoAssumption
<1> QED  BY <1>3 DEF ScalarInRange

\* Steps that leave the verdict alone.
LEMMA MeansUnchanged ==
  ASSUME UNCHANGED <<request, status, saved, faulted>>
  PROVE  Means(status)' <=> Means(status)
BY DEF Means, Genuine, StaleDecodingError

\* A call that failed, and a status that does not blame the input.
LEMMA FaultMeans ==
  ASSUME faulted' = TRUE, status' = "CRYPTO_PROVIDER"
  PROVE  Means(status)'
BY DEF Means

\* A status that blames an input that is to blame.
LEMMA BlameMeans ==
  ASSUME status' = "SIGNATURE", request' = request,
         ~Genuine(request)
  PROVE  Means(status)'
BY DEF Means, Genuine

\* Every step keeps the status true to what has happened so far.
LEMMA VerdictStep ==
  ASSUME IInv, Next
  PROVE  Verdict'
<1>0. Verdict /\ TypeOK /\ Control /\ ErrorQueue /\ request \in Requests
  BY DEF IInv, TypeOK
<1> USE DEF Verdict, InVerify, BeforeKey, BeforeGive, AfterGive
<1>1. ASSUME NEW q \in CallerQueues, Prepare(q) PROVE Verdict'
  BY <1>1 DEF Prepare, VerdictMeansIt
<1>2. ASSUME NEW q \in Requests, Call(q) PROVE Verdict'
  <2>1. CASE q.flaws # {}
    BY <1>2, <2>1 DEF Call, VerdictMeansIt
  <2>2. CASE q.flaws = {}
    <3>1. pc' \in {"foreign", "enter"}
      BY <1>2, <2>2 DEF Call
    <3> QED  BY <3>1 DEF VerdictMeansIt
  <2> QED  BY <2>1, <2>2
<1>3. CASE Foreign
  <2>1. pc' = "return" /\ request.foreign /\ request' = request
    BY <1>0, <1>3 DEF Foreign, Control
  <2> QED  BY <2>1 DEF VerdictMeansIt
<1>4. CASE Enter
  <2>1. CASE request.op = "verify" /\ ~request.prefix
    <3>1. status' = "SIGNATURE" /\ pc' = "return" /\ request' = request
      BY <1>4, <2>1 DEF Enter
    <3>2. Means(status)'
      BY <2>1, <3>1, BlameMeans DEF Genuine
    <3> QED  BY <3>1, <3>2 DEF VerdictMeansIt
  <2>2. CASE ~(request.op = "verify" /\ ~request.prefix)
    <3>1. status' = "CRYPTO_PROVIDER" /\ pc' \in {"digest", "context"}
      BY <1>4, <2>2 DEF Enter
    <3> QED  BY <3>1 DEF VerdictMeansIt
  <2> QED  BY <2>1, <2>2
<1>5. CASE Digest
  <2>1. pc' = "discard"
    BY <1>5 DEF Digest
  <2> QED  BY <2>1 DEF VerdictMeansIt
<1>6. CASE Allocate("context", "key_context", "init")
  <2>1. /\ UNCHANGED <<request, status>> /\ pc = "context"
        /\ pc' = "init" \/ (pc' = "cleanup" /\ faulted' = TRUE)
    BY <1>6 DEF Allocate
  <2>2. CASE pc' = "init"
    BY <1>0, <2>1, <2>2 DEF VerdictMeansIt
  <2>3. CASE pc' = "cleanup" /\ faulted' = TRUE
    BY <1>0, <2>1, <2>3, FaultMeans DEF VerdictMeansIt
  <2> QED  BY <2>1, <2>2, <2>3
<1>7. CASE Try("init", "import")
  <2>1. /\ UNCHANGED <<request, status>> /\ pc = "init"
        /\ pc' = "import" \/ (pc' = "cleanup" /\ faulted' = TRUE)
    BY <1>7 DEF Try
  <2>2. CASE pc' = "import"
    BY <1>0, <2>1, <2>2 DEF VerdictMeansIt
  <2>3. CASE pc' = "cleanup" /\ faulted' = TRUE
    BY <1>0, <2>1, <2>3, FaultMeans DEF VerdictMeansIt
  <2> QED  BY <2>1, <2>2, <2>3
<1>8. CASE Import
  <2>1. pc = "import" /\ UNCHANGED <<request, saved>>
    BY <1>8 DEF Import
  <2>2. CASE request.point = "on curve" /\ pc' = "order" /\ status' = status
    BY <1>0, <2>1, <2>2 DEF VerdictMeansIt
  <2>3. ASSUME request.point = "undecodable", NEW errors \in Raised(TRUE) \ {<< >>},
               Raise(errors), status' = key_import_failure(queue'), pc' = "cleanup"
        PROVE  Verdict'
    <3>1. queue' # << >> /\ queue'[Len(queue')].decoding
      BY <1>0, <1>8, <2>1, <2>3, RaiseStep DEF Import, TypeOK, ErrorQueue, Marking
    <3>2. status' = "SIGNATURE"
      BY <2>3, <3>1 DEF key_import_failure
    <3>3. Means(status)'
      BY <2>1, <2>3, <3>2, BlameMeans DEF Genuine
    <3> QED  BY <2>3, <3>3 DEF VerdictMeansIt
  <2>4. ASSUME NEW errors \in Raised(FALSE), Raise(errors), faulted' = TRUE,
               status' = key_import_failure(queue'), pc' = "cleanup"
        PROVE  Verdict'
    <3>1. queue' \in Seq(Error) /\ NewestKnown(queue)' /\ NoneDecoding'
      BY <1>0, <1>8, <2>1, <2>4, Raising DEF Import, ErrorQueue, Marking, QueueInCall
    <3>2. CASE queue' # << >> /\ queue'[Len(queue')].decoding
      <4>1. Len(queue') \in 1 .. Len(queue')
        BY <3>1, <3>2
      <4>2. queue'[Len(queue')] \in Error
        BY <3>1, <4>1, ElementOfSeq
      <4>3. queue'[Len(queue')].owner = "caller"
        BY <3>1, <3>2, <4>1, <4>2 DEF NoneDecoding, Error
      <4>4. StaleDecodingError(saved)'
        BY <3>1, <3>2, <4>3 DEF NewestKnown, StaleDecodingError
      <4>5. status' = "SIGNATURE"
        BY <2>4, <3>2 DEF key_import_failure
      <4> QED  BY <2>4, <4>4, <4>5 DEF Means, VerdictMeansIt
    <3>3. CASE ~(queue' # << >> /\ queue'[Len(queue')].decoding)
      <4>1. status' = "CRYPTO_PROVIDER"
        BY <2>4, <3>3 DEF key_import_failure
      <4> QED  BY <2>4, <4>1, FaultMeans DEF VerdictMeansIt
    <3> QED  BY <3>2, <3>3
  <2> QED  BY <1>8, <2>2, <2>3, <2>4 DEF Import
<1>9. CASE Allocate("order", "order", "scalars")
  <2>1. /\ UNCHANGED <<request, status>> /\ pc = "order"
        /\ pc' = "scalars" \/ (pc' = "cleanup" /\ faulted' = TRUE)
    BY <1>9 DEF Allocate
  <2>2. CASE pc' = "scalars"
    BY <1>0, <2>1, <2>2 DEF VerdictMeansIt
  <2>3. CASE pc' = "cleanup" /\ faulted' = TRUE
    BY <1>0, <2>1, <2>3, FaultMeans DEF VerdictMeansIt
  <2> QED  BY <2>1, <2>2, <2>3
<1>10. CASE Scalars
  <2>1. /\ UNCHANGED <<request, status>> /\ pc = "scalars"
        /\ pc' = "range" \/ (pc' = "cleanup" /\ faulted' = TRUE)
    BY <1>10 DEF Scalars
  <2>2. CASE pc' = "range"
    BY <1>0, <2>1, <2>2 DEF VerdictMeansIt
  <2>3. CASE pc' = "cleanup" /\ faulted' = TRUE
    BY <1>0, <2>1, <2>3, FaultMeans DEF VerdictMeansIt
  <2> QED  BY <2>1, <2>2, <2>3
<1>11. CASE InRange
  <2>1. pc = "range" /\ UNCHANGED request
    BY <1>11 DEF InRange
  <2>2. CASE ScalarInRange(request.r) /\ ScalarInRange(request.s)
    <3>1. pc' = "signature" /\ status' = status
      BY <1>11, <2>2 DEF InRange
    <3> QED  BY <1>0, <2>1, <2>2, <3>1 DEF VerdictMeansIt
  <2>3. CASE ~(ScalarInRange(request.r) /\ ScalarInRange(request.s))
    <3>1. pc' = "cleanup" /\ status' = "SIGNATURE"
      BY <1>11, <2>3 DEF InRange
    <3>2. ~Genuine(request)
      BY <1>0, <2>3, ScalarsAccepted DEF Genuine
    <3>3. Means(status)'
      BY <2>1, <3>1, <3>2, BlameMeans
    <3> QED  BY <3>1, <3>3 DEF VerdictMeansIt
  <2> QED  BY <2>2, <2>3
<1>12. CASE Allocate("signature", "ecdsa_signature", "own")
  <2>1. /\ UNCHANGED <<request, status>> /\ pc = "signature"
        /\ pc' = "own" \/ (pc' = "cleanup" /\ faulted' = TRUE)
    BY <1>12 DEF Allocate
  <2>2. CASE pc' = "own"
    BY <1>0, <2>1, <2>2 DEF VerdictMeansIt
  <2>3. CASE pc' = "cleanup" /\ faulted' = TRUE
    BY <1>0, <2>1, <2>3, FaultMeans DEF VerdictMeansIt
  <2> QED  BY <2>1, <2>2, <2>3
<1>13. CASE Give
  <2>1. /\ UNCHANGED <<request, status>> /\ pc = "own"
        /\ pc' = "encode" \/ (pc' = "cleanup" /\ faulted' = TRUE)
    BY <1>13 DEF Give
  <2>2. CASE pc' = "encode"
    BY <1>0, <2>1, <2>2 DEF VerdictMeansIt
  <2>3. CASE pc' = "cleanup" /\ faulted' = TRUE
    BY <1>0, <2>1, <2>3, FaultMeans DEF VerdictMeansIt
  <2> QED  BY <2>1, <2>2, <2>3
<1>14. CASE Encode
  <2>1. /\ UNCHANGED <<request, status>> /\ pc = "encode"
        /\ pc' = "digest context" \/ (pc' = "cleanup" /\ faulted' = TRUE)
    BY <1>0, <1>14, DerAlwaysFits DEF Encode
  <2>2. CASE pc' = "digest context"
    BY <1>0, <2>1, <2>2 DEF VerdictMeansIt
  <2>3. CASE pc' = "cleanup" /\ faulted' = TRUE
    BY <1>0, <2>1, <2>3, FaultMeans DEF VerdictMeansIt
  <2> QED  BY <2>1, <2>2, <2>3
<1>15. CASE Allocate("digest context", "digest_context", "digest init")
  <2>1. /\ UNCHANGED <<request, status>> /\ pc = "digest context"
        /\ pc' = "digest init" \/ (pc' = "cleanup" /\ faulted' = TRUE)
    BY <1>15 DEF Allocate
  <2>2. CASE pc' = "digest init"
    BY <1>0, <2>1, <2>2 DEF VerdictMeansIt
  <2>3. CASE pc' = "cleanup" /\ faulted' = TRUE
    BY <1>0, <2>1, <2>3, FaultMeans DEF VerdictMeansIt
  <2> QED  BY <2>1, <2>2, <2>3
<1>16. CASE Try("digest init", "verify")
  <2>1. /\ UNCHANGED <<request, status>> /\ pc = "digest init"
        /\ pc' = "verify" \/ (pc' = "cleanup" /\ faulted' = TRUE)
    BY <1>16 DEF Try
  <2>2. CASE pc' = "verify"
    BY <1>0, <2>1, <2>2 DEF VerdictMeansIt
  <2>3. CASE pc' = "cleanup" /\ faulted' = TRUE
    BY <1>0, <2>1, <2>3, FaultMeans DEF VerdictMeansIt
  <2> QED  BY <2>1, <2>2, <2>3
<1>17. CASE Verify
  <2>1. /\ pc = "verify" /\ pc' = "cleanup" /\ request' = request
        /\ \/ status' = IF request.math THEN "OK" ELSE "SIGNATURE"
           \/ faulted' = TRUE /\ status' = status
    BY <1>17 DEF Verify
  <2>2. Means(status)'
    <3>1. CASE status' = IF request.math THEN "OK" ELSE "SIGNATURE"
      <4>1. CASE request.math
        <5>1. Genuine(request)
          BY <1>0, <2>1, <4>1, ScalarsAccepted DEF Control, Genuine
        <5>2. status' = "OK"
          BY <3>1, <4>1
        <5> QED  BY <2>1, <4>1, <5>1, <5>2 DEF Means, Genuine
      <4>2. CASE ~request.math
        <5>1. status' = "SIGNATURE"
          BY <3>1, <4>2
        <5> QED  BY <2>1, <4>2, <5>1, BlameMeans DEF Genuine
      <4> QED  BY <4>1, <4>2
    <3>2. CASE faulted' = TRUE /\ status' = status
      BY <1>0, <2>1, <3>2, FaultMeans
    <3> QED  BY <2>1, <3>1, <3>2
  <2> QED  BY <2>1, <2>2 DEF VerdictMeansIt
<1>18. CASE Free
  <2>1. /\ pc' = "cleanup" /\ pc = "cleanup"
        /\ UNCHANGED <<request, status, saved, faulted>>
    BY <1>18 DEF Free, history
  <2> QED  BY <1>0, <2>1, MeansUnchanged DEF VerdictMeansIt
<1>19. CASE Discard
  <2>1. /\ pc \in {"cleanup", "discard"} /\ pc' = "return"
        /\ UNCHANGED <<request, status, saved, faulted>>
    BY <1>19 DEF Discard, history
  <2>2. pc = "discard" => request.op = "hash"
    BY <1>0 DEF Control, InHash
  <2> QED  BY <1>0, <2>1, <2>2, MeansUnchanged DEF VerdictMeansIt
<1>20. CASE Return
  <2>1. /\ pc = "return" /\ pc' = "idle" /\ ret' = Normalised(request.op, status)
        /\ UNCHANGED <<request, status, saved, faulted>>
    BY <1>20 DEF Return, history
  <2>2. ASSUME request.op = "verify", ~request.foreign
        PROVE  VerdictMeansIt'
    <3>1. Means(status)' /\ status \in Statuses
      BY <1>0, <2>1, <2>2, MeansUnchanged DEF TypeOK
    <3>2. ret' = status'
      BY <2>1, <2>2, <3>1 DEF Normalised, Means, Statuses
    <3> QED  BY <3>1, <3>2 DEF VerdictMeansIt, Means
  <2>3. VerdictMeansIt'
    BY <2>1, <2>2 DEF VerdictMeansIt
  <2> QED  BY <2>1, <2>3
<1> QED
  BY <1>1, <1>2, <1>3, <1>4, <1>5, <1>6, <1>7, <1>8, <1>9, <1>10, <1>11,
     <1>12, <1>13, <1>14, <1>15, <1>16, <1>17, <1>18, <1>19, <1>20, Zenon DEF Next, Step

\* Every step keeps a partial digest out of the caller's sight.
LEMMA PublishedStep ==
  ASSUME IInv, Next
  PROVE  Published'
<1>0. Published /\ Control
  BY DEF IInv
<1> USE DEF Published, DigestAllOrNothing, Control, InVerify, InHash, BeforeKey,
            BeforeGive, AfterGive
<1>1. ASSUME NEW q \in CallerQueues, Prepare(q) PROVE Published'
  BY <1>0, <1>1 DEF Prepare
<1>2. ASSUME NEW q \in Requests, Call(q) PROVE Published'
  <2>1. CASE q.flaws # {}
    BY <1>0, <1>2, <2>1, RefusalRange DEF Call
  <2>2. CASE q.flaws = {}
    <3>1. pc' \in {"foreign", "enter"}
      BY <1>2, <2>2 DEF Call
    <3> QED  BY <1>0, <1>2, <3>1 DEF Call
  <2> QED  BY <2>1, <2>2
<1>3. CASE Foreign
  <2>1. status' = "OK" => buffer' = "digest"
    BY <1>3 DEF Foreign
  <2> QED  BY <1>0, <1>3, <2>1 DEF Foreign
<1>4. CASE Enter
  BY <1>0, <1>4 DEF Enter
<1>5. CASE Digest
  BY <1>0, <1>5 DEF Digest
<1>6. CASE Allocate("context", "key_context", "init")
  BY <1>0, <1>6 DEF Allocate
<1>7. CASE Try("init", "import")
  BY <1>0, <1>7 DEF Try
<1>8. CASE Import
  BY <1>0, <1>8 DEF Import
<1>9. CASE Allocate("order", "order", "scalars")
  BY <1>0, <1>9 DEF Allocate
<1>10. CASE Scalars
  BY <1>0, <1>10 DEF Scalars
<1>11. CASE InRange
  BY <1>0, <1>11 DEF InRange
<1>12. CASE Allocate("signature", "ecdsa_signature", "own")
  BY <1>0, <1>12 DEF Allocate
<1>13. CASE Give
  BY <1>0, <1>13 DEF Give
<1>14. CASE Encode
  BY <1>0, <1>14 DEF Encode
<1>15. CASE Allocate("digest context", "digest_context", "digest init")
  BY <1>0, <1>15 DEF Allocate
<1>16. CASE Try("digest init", "verify")
  BY <1>0, <1>16 DEF Try
<1>17. CASE Verify
  BY <1>0, <1>17 DEF Verify
<1>18. CASE Free
  BY <1>0, <1>18 DEF Free
<1>19. CASE Discard
  BY <1>0, <1>19 DEF Discard
<1>20. CASE Return
  BY <1>0, <1>20 DEF Return, Normalised
<1> QED
  BY <1>1, <1>2, <1>3, <1>4, <1>5, <1>6, <1>7, <1>8, <1>9, <1>10, <1>11,
     <1>12, <1>13, <1>14, <1>15, <1>16, <1>17, <1>18, <1>19, <1>20, Zenon DEF Next, Step
-----------------------------------------------------------------------------
\* A step that changes nothing keeps the invariant.
LEMMA StutterIInv == IInv /\ UNCHANGED vars => IInv'
<1> SUFFICES ASSUME IInv, UNCHANGED vars PROVE IInv'
  OBVIOUS
<1> USE DEF vars
<1>1. UNCHANGED <<queue, marked, saved, dropped>>
  OBVIOUS
<1>2. TypeOK' /\ Control' /\ Pointers'
  BY DEF IInv, TypeOK, Control, Pointers
<1>3. ErrorQueue'
  BY <1>1, QueueUnchanged DEF IInv, ErrorQueue
<1>4. Verdict' /\ Published'
  BY MeansUnchanged
     DEF IInv, Verdict, VerdictMeansIt, StaleDecodingError, Published,
         DigestAllOrNothing
<1> QED  BY <1>2, <1>3, <1>4 DEF IInv

LEMMA StepIInv == IInv /\ [Next]_vars => IInv'
<1>1. ASSUME IInv, Next PROVE IInv'
  BY <1>1, TypeStep, ControlStep, PointersStep, QueueStep, VerdictStep, PublishedStep
     DEF IInv
<1> QED  BY <1>1, StutterIInv

LEMMA Inductive == Spec => []IInv
BY InitIInv, StepIInv, PTL DEF Spec

\* Type correctness: every call leaves one of the statuses of crypto.h, and the
\* thread's error queue never grows beyond its limit.
THEOREM Typed == Spec => []TypeOK
<1>1. IInv => TypeOK
  BY DEF IInv
<1> QED  BY Inductive, <1>1, PTL

\* Whichever calls fail, each object of openssl_verify is freed exactly once
\* (openssl_crypto.c:122-163).
THEOREM FreedExactlyOnceAlways == Spec => []FreedExactlyOnce
<1>1. ASSUME IInv PROVE FreedExactlyOnce
  <2>1. Pointers
    BY <1>1 DEF IInv
  <2>2. \A o \in held : Frees(o) \subseteq live
    BY <2>1 DEF Pointers, Frees
  <2>3. ASSUME NEW o \in held, NEW p \in held, o # p
        PROVE  Frees(o) \cap Frees(p) = {}
    BY <2>1, <2>3 DEF Pointers, Frees
  <2>4. pc = "idle" => live = {}
    BY <2>1 DEF Pointers, InVerify, BeforeKey, BeforeGive, AfterGive
  <2> QED  BY <2>2, <2>3, <2>4 DEF FreedExactlyOnce
<1> QED  BY Inductive, <1>1, PTL

\* Whatever errors a call raises, the thread's queue comes back as it was unless
\* it overflowed, and without an error of the call's own (openssl_crypto.c:10-19).
THEOREM QueueRestoredAlways == Spec => []QueueRestored
<1>1. IInv => QueueRestored
  BY DEF IInv, ErrorQueue, QueueRestored, AllCaller, Marking, InVerify, InHash,
         BeforeKey, BeforeGive, AfterGive
<1> QED  BY Inductive, <1>1, PTL

\* A status says of the verification what happened; the one exception is an error
\* of the caller's own that key_import_failure reads (openssl_crypto.c:53-64).
THEOREM VerdictMeansItAlways == Spec => []VerdictMeansIt
<1>1. IInv => VerdictMeansIt
  BY DEF IInv, Verdict
<1> QED  BY Inductive, <1>1, PTL

\* The caller's digest is whole or untouched, for any provider (crypto.c:33-39).
THEOREM DigestAllOrNothingAlways == Spec => []DigestAllOrNothing
<1>1. IInv => DigestAllOrNothing
  BY DEF IInv, Published
<1> QED  BY Inductive, <1>1, PTL
-----------------------------------------------------------------------------
\* CryptoDecision sees the same requests and the same refusals.
LEMMA SamePolicy ==
  /\ \A q : Abstract!Refusal(q) = Refusal(q)
  /\ \A q : Abstract!Genuine(q) <=> Genuine(q)
  /\ \A q : Abstract!StaleDecodingError(q) <=> StaleDecodingError(q)
BY DEF Abstract!Refusal, Refusal, Abstract!Genuine, Genuine,
       Abstract!StaleDecodingError, StaleDecodingError

\* What a call returns is a verdict on it or a failure of the provider.
LEMMA ReturnIsVerdict ==
  ASSUME IInv, Return
  PROVE  Abstract!Answer
<1>1. /\ pc = "return" /\ ret = "busy" /\ UNCHANGED <<request, saved>>
      /\ ret' = Normalised(request.op, status)
      /\ digest' = IF request.op = "hash" /\ status = "OK" THEN buffer ELSE digest
  BY DEF IInv, Control, Return, history
<1>2. request.op \in {"hash", "verify"} /\ request.foreign \in BOOLEAN
  BY CryptoAssumption DEF IInv, TypeOK, Request
<1>3. ret' \in {"OK", "SIGNATURE", "CRYPTO_PROVIDER"}
      /\ (ret' = "OK" <=> status = "OK")
      /\ (ret' = "SIGNATURE" => status = "SIGNATURE" /\ request.op = "verify")
  BY <1>1 DEF Normalised
<1>4. digest' = IF request.op = "hash" /\ ret' = "OK" THEN "digest" ELSE digest
  BY <1>1, <1>3 DEF IInv, Published
<1>5. ret' \in Abstract!Verdicts \cup {"CRYPTO_PROVIDER"}
  <2>1. CASE request.op = "hash"
    BY <1>3, <2>1 DEF Abstract!Verdicts
  <2>2. CASE request.op = "verify" /\ request.foreign
    BY <1>3, <2>2 DEF Abstract!Verdicts
  <2>3. CASE request.op = "verify" /\ ~request.foreign
    <3>1. Means(status)
      BY <1>1, <2>3 DEF IInv, Verdict
    <3>2. /\ ret' = "OK" => Abstract!Genuine(request)
          /\ ret' = "SIGNATURE" =>
               ~Abstract!Genuine(request) \/ Abstract!StaleDecodingError(saved)
      BY <1>3, <3>1, SamePolicy DEF Means
    <3> QED  BY <1>3, <2>3, <3>2 DEF Abstract!Verdicts
  <2> QED  BY <1>2, <2>1, <2>2, <2>3
<1> QED  BY <1>1, <1>4, <1>5 DEF Abstract!Answer

\* The initial state and every step into OpenSSL, failing or not, are ones of
\* CryptoDecision: one verdict on a call, and a digest that is whole or untouched
\* (crypto.c:11-75, openssl_crypto.c:40-166).
THEOREM Refinement == Spec => Abstract!Init /\ [][Abstract!Next]_Abstract!vars
<1>1. Init => Abstract!Init
  BY DEF Init, Abstract!Init
<1>2. IInv /\ [Next]_vars => [Abstract!Next]_Abstract!vars
  <2> SUFFICES ASSUME IInv, [Next]_vars
               PROVE  [Abstract!Next]_Abstract!vars
    OBVIOUS
  <2> USE DEF history, locals, Abstract!vars
  <2>0. /\ pc = "idle" <=> ret # "busy"
        /\ ret = "none" => digest = "old"
    BY DEF IInv, Control, Published
  <2>1. ASSUME NEW q \in CallerQueues, Prepare(q) PROVE Abstract!Prepare
    <3>1. request \in Requests
      BY DEF IInv, TypeOK
    <3>2. request' \in Requests
      BY <2>1, <3>1 DEF Prepare
    <3> QED  BY <2>0, <2>1, <3>2 DEF Prepare, Abstract!Prepare
  <2>2. ASSUME NEW q \in Requests, Call(q) PROVE Abstract!Call
    <3>1. ret' = IF q.flaws = {} THEN "busy" ELSE Refusal(q)
      BY <2>2 DEF Call
    <3>2. ret = "none" /\ request' = q /\ UNCHANGED <<digest, saved>>
      BY <2>2 DEF Call
    <3> QED  BY <3>1, <3>2, SamePolicy DEF Abstract!Call
  <2>3. CASE Return
    BY <2>3, ReturnIsVerdict DEF Abstract!Next
  <2>4. CASE Step /\ ~Return
    <3>1. UNCHANGED <<request, ret, digest, saved>>
      BY <2>4 DEF Step, Foreign, Enter, Digest, Allocate, Try, Import, Scalars, InRange,
                  Give, Encode, Verify, Free, Discard, Raise
    <3> QED  BY <3>1
  <2>5. CASE UNCHANGED vars
    BY <2>5 DEF vars
  <2> QED  BY <2>1, <2>2, <2>3, <2>4, <2>5 DEF Next, Abstract!Next
<1> QED  BY <1>1, <1>2, Inductive, PTL DEF Spec
=============================================================================
