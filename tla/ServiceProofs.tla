---------------------------- MODULE ServiceProofs ----------------------------
(***************************************************************************)
(* Proofs about the data of a service call.  Of ServiceFrames, for all     *)
(* limits that fit the fields of a frame and all sizes: that the two ends  *)
(* of the helper's socket stay in step.  Of ServiceData, for all types,    *)
(* documents and texts: what JsonCodec takes for an integer, what it reads *)
(* back, and how its errors end a call.                                    *)
(***************************************************************************)
EXTENDS ServiceData, WellFoundedInduction, TLAPS

-----------------------------------------------------------------------------
(* The frames.                                                             *)

\* The request as Parse and Prepare leave it.
Admitted ==
  /\ call.valid /\ call.hex
  /\ call.service \in 1..kMaximumServiceNameBytes
  /\ call.md5 = kServiceMd5Bytes
  /\ call.payload \in 0..kMaximumServicePayloadBytes
  /\ call.wait \in 0..kMaximumServiceWaitMilliseconds

\* FramesExact with what each step of the call knows of the frames.
FInv ==
  /\ call \in ServiceRequests
  /\ next_id \in 0..IdModulus - 1
  /\ ~refused
  /\ step = "prepare" =>
       call.valid /\ call.wait \in 0..kMaximumServiceWaitMilliseconds
  /\ step \in {"send", "read", "ready", "fence", "commit", "response", "result"} => Admitted
  /\ step \in {"read", "ready", "fence", "commit", "response"} => request_id \in Nat \ {0}
  /\ step \in {"read", "ready", "fence"} =>
       /\ sent = makeServiceHelperRequest(request_id, call.service, call.md5,
                                          call.payload, call.wait)
       /\ contents = <<call.service, call.md5, call.payload>>
  /\ step \in {"ready", "fence"} => taken = contents
  /\ step = "fence" =>
       \E status \in ReadyStatus : reply = makeServiceHelperReady(request_id, status)
  /\ step = "commit" =>
       sent = makeServiceHelperCommit(request_id) /\ reply.request_id = request_id
  /\ step = "response" =>
       /\ validateServiceHelperResponse(reply, request_id)
       /\ reply.status = "kCompleted" => reply.payload_bytes = returned
  /\ step = "result" => received = returned

-----------------------------------------------------------------------------
\* A size below the modulus survives static_cast<std::uint32_t>.
LEMMA CastExact == ASSUME NEW n \in Nat, n < UInt32Modulus PROVE UInt32(n) = n
BY ProtocolAssumption DEF UInt32

\* Every request that the invoker admits is one the helper accepts, and the
\* frame carries its sizes.
LEMMA RequestExact ==
  ASSUME Admitted, NEW id \in Nat \ {0}
  PROVE LET frame == makeServiceHelperRequest(id, call.service, call.md5,
                                              call.payload, call.wait)
        IN /\ validateServiceHelperRequest(frame)
           /\ frame.service_name_bytes = call.service
           /\ frame.service_md5_bytes = call.md5
           /\ frame.payload_bytes = call.payload
<1>1. UInt32(call.service) = call.service
  BY CastExact, ProtocolAssumption DEF Admitted
<1>2. UInt32(call.md5) = call.md5
  BY CastExact, ProtocolAssumption, Zenon DEF Admitted
<1>3. UInt32(call.payload) = call.payload
  BY CastExact, ProtocolAssumption DEF Admitted
<1> QED
  BY <1>1, <1>2, <1>3, ProtocolAssumption
  DEF Admitted, makeServiceHelperRequest, Frame, validateServiceHelperRequest,
      validServiceHelperFrameBase

\* What the helper answers is what the invoker accepts.
LEMMA AnswersAccepted ==
  ASSUME NEW id \in Nat \ {0}
  PROVE /\ \A status \in ReadyStatus :
             validateServiceHelperReady(makeServiceHelperReady(id, status), id)
        /\ validateServiceHelperCommit(makeServiceHelperCommit(id), id)
BY Zenon DEF ReadyStatus, makeServiceHelperReady, makeServiceHelperCommit, Frame,
       validateServiceHelperReady, validateServiceHelperCommit,
       validServiceHelperFrameBase

\* A response the helper makes is taken by the parent, with its status.
LEMMA ResponseExact ==
  ASSUME NEW id \in Nat \ {0}, NEW status \in ResponseStatus,
         NEW size \in 0..kMaximumServicePayloadBytes,
         status # "kCompleted" => size = 0
  PROVE LET frame == makeServiceHelperResponse(id, status, size)
        IN /\ validateServiceHelperResponse(frame, id)
           /\ frame.status = status
           /\ frame.payload_bytes = size
<1>1. UInt32(size) = size
  BY CastExact, ProtocolAssumption
<1> QED
  BY <1>1, ProtocolAssumption
  DEF makeServiceHelperResponse, Frame, validateServiceHelperResponse,
      validServiceHelperFrameBase

\* FInv holds at the start.
LEMMA FramesInitially == FramesInit => FInv
BY SizesAssumption, Zenon DEF FramesInit, FInv

\* FInv holds at every step.
LEMMA FramesStep == FInv /\ [FramesNext]_frame_vars => FInv'
<1> SUFFICES ASSUME FInv, [FramesNext]_frame_vars PROVE FInv'
  BY Zenon
<1> USE DEF FInv, Admitted
<1>1. CASE Parse
  BY <1>1, WaitLimitsAgree, ProtocolAssumption DEF Parse, End
<1>0. CASE RefusePayload
  BY <1>0, Zenon DEF RefusePayload, End
<1>2. CASE Prepare
  BY <1>2, SizesAssumption, ProtocolAssumption DEF Prepare, End
<1>3. CASE WriteRequest
  <2>1. nextRequestId(next_id) \in Nat \ {0}
    BY SizesAssumption DEF nextRequestId
  <2>2. next_id' \in 0..IdModulus - 1
    BY <1>3, <2>1, SizesAssumption DEF WriteRequest
  <2> QED
    BY <1>3, <2>1, <2>2, Zenon DEF WriteRequest
<1>4. CASE HelperReads
  <2>1. /\ validateServiceHelperRequest(sent)
        /\ sent.service_name_bytes = call.service
        /\ sent.service_md5_bytes = call.md5
        /\ sent.payload_bytes = call.payload
    BY <1>4, RequestExact, Zenon DEF HelperReads
  <2> QED
    BY <1>4, <2>1, Zenon DEF HelperReads, End
<1>5. CASE HelperAnswers
  <2>1. sent.request_id = request_id
    BY <1>5 DEF HelperAnswers, makeServiceHelperRequest, Frame
  <2> QED
    BY <1>5, <2>1, Zenon DEF HelperAnswers
<1>6. CASE WriteCommit
  <2>1. validateServiceHelperReady(reply, request_id) /\ reply.request_id = request_id
    BY <1>6, AnswersAccepted DEF WriteCommit, makeServiceHelperReady, Frame
  <2> QED
    BY <1>6, <2>1, Zenon DEF WriteCommit, End
<1>7. CASE HelperCalls
  <2>1. validateServiceHelperCommit(sent, reply.request_id)
    BY <1>7, AnswersAccepted, Zenon DEF HelperCalls
  <2>2. CASE \E status \in {"kCallFailed", "kProtocolError"} :
               reply' = makeServiceHelperResponse(reply.request_id, status, 0)
               /\ returned' = returned
    <3>1. PICK status \in {"kCallFailed", "kProtocolError"} :
            reply' = makeServiceHelperResponse(request_id, status, 0)
      BY <1>7, <2>2, Zenon DEF HelperCalls
    <3>2. validateServiceHelperResponse(reply', request_id) /\ reply'.status # "kCompleted"
      BY <1>7, <3>1, ResponseExact, ProtocolAssumption DEF HelperCalls, ResponseStatus
    <3> QED
      BY <1>7, <2>1, <3>2, Zenon DEF HelperCalls
  <2>3. CASE \E size \in ResponseSizes :
               /\ returned' = size
               /\ reply' = IF size > kMaximumServicePayloadBytes
                           THEN makeServiceHelperResponse(reply.request_id,
                                                          "kResponseTooLarge", 0)
                           ELSE makeServiceHelperResponse(reply.request_id,
                                                          "kCompleted", size)
    <3>1. /\ validateServiceHelperResponse(reply', request_id)
          /\ reply'.status = "kCompleted" => reply'.payload_bytes = returned'
      <4>1. PICK size \in ResponseSizes :
              /\ returned' = size
              /\ reply' = IF size > kMaximumServicePayloadBytes
                          THEN makeServiceHelperResponse(request_id, "kResponseTooLarge", 0)
                          ELSE makeServiceHelperResponse(request_id, "kCompleted", size)
        BY <1>7, <2>3, Zenon DEF HelperCalls
      <4>2. CASE size > kMaximumServicePayloadBytes
        BY <1>7, <4>1, <4>2, ResponseExact, ProtocolAssumption DEF HelperCalls, ResponseStatus
      <4>3. CASE ~(size > kMaximumServicePayloadBytes)
        <5>1. size \in 0..kMaximumServicePayloadBytes
          BY <4>3, SizesAssumption, ProtocolAssumption
        <5> QED
          BY <1>7, <4>1, <4>3, <5>1, ResponseExact DEF HelperCalls, ResponseStatus
      <4> QED
        BY <4>2, <4>3, Zenon
    <3> QED
      BY <1>7, <2>1, <3>1, Zenon DEF HelperCalls
  <2> QED
    BY <1>7, <2>1, <2>2, <2>3, Zenon DEF HelperCalls
<1>8. CASE TakeResponse
  BY <1>8, Zenon DEF TakeResponse, End
<1>9. CASE Finish
  BY <1>9, Zenon DEF Finish, End
<1>10. CASE UNCHANGED frame_vars
  BY <1>10, Zenon DEF frame_vars
<1> QED
  BY <1>1, <1>2, <1>3, <1>4, <1>5, <1>6, <1>7, <1>8, <1>9, <1>10,
     <1>0, Zenon DEF FramesNext

\* For all limits that fit 32 bits, all requests and all responses: neither the
\* invoker nor the helper refuses a frame of the other, and neither reads more
\* or fewer bytes than the other wrote.
THEOREM FramesAreExact == FramesSpec => []FramesExact
<1>1. FInv => FramesExact
  BY Zenon DEF FInv, FramesExact
<1> QED
  BY <1>1, FramesInitially, FramesStep, PTL DEF FramesSpec

-----------------------------------------------------------------------------
(* Induction and recursion over the numbers.                               *)

\* A set of numbers that is not empty has a least one.
LEMMA LeastNumber ==
  ASSUME NEW S \in SUBSET Nat, S # {}
  PROVE  \E x \in S : \A y \in S : x <= y
<1>1. PICK x \in S : \A y \in S : ~(<<y, x>> \in OpToRel(<, Nat))
  BY NatLessThanWellFounded, WFMin, Zenon
<1>2. \A y \in S : ~(y < x)
  BY <1>1, Zenon DEF OpToRel
<1>3. QED
  BY <1>2

\* Induction over the numbers below: a set that takes a number as soon as it has
\* all the smaller ones has them all.
LEMMA StrongInduction ==
  ASSUME NEW S, \A n \in Nat : (\A k \in 0 .. n - 1 : k \in S) => n \in S
  PROVE  \A n \in Nat : n \in S
<1> SUFFICES ASSUME Nat \ S # {} PROVE FALSE
  BY Zenon
<1>1. PICK x \in Nat \ S : \A y \in Nat \ S : x <= y
  BY LeastNumber, Zenon
<1>2. \A k \in 0 .. x - 1 : k \in S
  BY <1>1
<1>3. QED
  BY <1>1, <1>2, Zenon

\* A recursion that starts below b and goes back to smaller numbers above it, and
\* what it computes.
WellFounded(V, b, start, before, advance) ==
  /\ b \in Nat /\ start \in [Nat -> V] /\ before \in [Nat -> Nat]
  /\ advance \in [Nat -> [V -> V]]
  /\ \A n \in Nat : n >= b => before[n] < n
Computes(f, V, b, start, before, advance) ==
  /\ f \in [Nat -> V]
  /\ \A n \in Nat : f[n] = IF n < b THEN start[n] ELSE advance[n][f[before[n]]]

\* Such a recursion has a solution.
LEMMA Recursion ==
  ASSUME NEW V, NEW b, NEW start, NEW before, NEW advance, WellFounded(V, b, start, before, advance)
  PROVE  \E f : Computes(f, V, b, start, before, advance)
<1> USE DEF WellFounded
<1> DEFINE Value(f, n) == IF n < b THEN start[n] ELSE advance[n][f[before[n]]]
           Solves(f, k) == f \in [0..k -> V] /\ \A n \in 0..k : f[n] = Value(f, n)
           Upto(k) == CHOOSE f : Solves(f, k)
           S == {k \in Nat : \E f : Solves(f, k)}
<1>1. ASSUME NEW k \in Nat, NEW m \in Nat, NEW f, NEW g, Solves(f, k), Solves(g, m), k <= m
      PROVE  \A n \in 0..k : f[n] = g[n]
  <2> DEFINE T == {n \in Nat : n <= k => f[n] = g[n]}
  <2>1. ASSUME NEW n \in Nat, \A i \in 0 .. n - 1 : i \in T PROVE n \in T
    <3> SUFFICES ASSUME n <= k PROVE f[n] = g[n]
      BY Zenon
    <3>1. f[n] = Value(f, n) /\ g[n] = Value(g, n)
      <4>1. n \in 0..k /\ n \in 0..m
        BY <1>1
      <4> HIDE DEF Value
      <4>2. QED
        BY <1>1, <4>1, Zenon
    <3>2. CASE n < b
      BY <3>1, <3>2, Zenon
    <3>3. CASE n >= b
      <4>1. before[n] \in 0 .. n - 1
        BY <3>3
      <4>2. before[n] \in T /\ before[n] <= k
        BY <2>1, <4>1
      <4>3. f[before[n]] = g[before[n]]
        BY <4>2, Zenon
      <4>4. QED
        BY <3>1, <3>3, <4>3, Zenon
    <3>4. QED
      BY <3>2, <3>3
  <2>2. \A n \in Nat : n \in T
    <3> HIDE DEF T
    <3>1. QED
      BY <2>1, StrongInduction, Zenon
  <2>3. QED
    BY <2>2
<1>2. ASSUME NEW k \in Nat, \A i \in 0 .. k - 1 : i \in S PROVE k \in S
  <2>1. CASE k = 0
    <3> DEFINE f == [n \in 0..0 |-> Value(start, 0)]
    <3>1. 0 < b
      <4>1. 0 >= b => before[0] < 0
        BY Zenon
      <4>2. QED
        BY <4>1
    <3>2. Solves(f, 0)
      BY <3>1
    <3>3. QED
      BY <2>1, <3>2, Zenon
  <2>2. CASE k > 0
    <3>1. k - 1 \in 0 .. k - 1
      BY <2>2
    <3>2. PICK f : Solves(f, k - 1)
      BY <1>2, <3>1, Zenon
    <3> DEFINE g == [n \in 0..k |-> IF n < k THEN f[n] ELSE Value(f, k)]
    <3>3. \A n \in 0 .. k - 1 : f[n] \in V /\ f[n] = Value(f, n) /\ n \in 0..k
      BY <3>2
    <3>4. \A n \in 0..k : n >= b => before[n] \in 0 .. k - 1
      OBVIOUS
    <3>5. Value(f, k) \in V
      BY <2>2, <3>3, <3>4
    <3>6. g \in [0..k -> V] /\ g[k] = Value(f, k) /\ \A n \in 0 .. k - 1 : g[n] = f[n]
      BY <3>3, <3>5
    <3> HIDE DEF g
    <3>7. ASSUME NEW n \in 0..k PROVE Value(g, n) = Value(f, n)
      <4>1. n >= b => g[before[n]] = f[before[n]]
        BY <3>4, <3>6, Zenon
      <4>2. n \in Nat
        OBVIOUS
      <4>3. QED
        BY <4>1, <4>2
    <3>8. \A n \in 0..k : g[n] = Value(g, n)
      <4> HIDE DEF Value
      <4>1. g[k] = Value(g, k)
        <5>1. k \in 0..k
          OBVIOUS
        <5>2. QED
          BY <3>6, <3>7, <5>1, Zenon
      <4>2. \A n \in 0 .. k - 1 : g[n] = Value(g, n)
        BY <3>3, <3>6, <3>7, Zenon
      <4>3. \A n \in 0..k : n = k \/ n \in 0 .. k - 1
        OBVIOUS
      <4>4. QED
        BY <4>1, <4>2, <4>3, Zenon
    <3>9. Solves(g, k)
      BY <3>6, <3>8, Zenon
    <3> HIDE DEF Solves
    <3>10. QED
      BY <3>9, Zenon
  <2> HIDE DEF S
  <2>3. QED
    BY <2>1, <2>2
<1>3. \A k \in Nat : k \in S
  <2> HIDE DEF S
  <2>1. QED
    BY <1>2, StrongInduction, Zenon
<1>4. \A k \in Nat : Solves(Upto(k), k)
  <2> HIDE DEF Solves
  <2>1. \A k \in Nat : \E f : Solves(f, k)
    BY <1>3, Zenon
  <2>2. QED
    BY <2>1, Zenon
<1> HIDE DEF Upto, S
<1> DEFINE F == [n \in Nat |-> Upto(n)[n]]
<1>5. F \in [Nat -> V]
  BY <1>4
<1>6. ASSUME NEW n \in Nat PROVE F[n] = Value(F, n)
  <2>1. F[n] = Value(Upto(n), n)
    BY <1>4
  <2>2. CASE n < b
    BY <2>1, <2>2, Zenon
  <2>3. CASE n >= b
    <3>1. before[n] \in Nat /\ before[n] <= n /\ before[n] \in 0..before[n]
      BY <2>3
    <3>2. Upto(before[n])[before[n]] = Upto(n)[before[n]]
      <4> HIDE DEF Solves
      <4>1. QED
        BY <1>1, <1>4, <3>1
    <3>3. QED
      BY <2>1, <2>3, <3>1, <3>2, Zenon
  <2>4. QED
    BY <2>2, <2>3
<1>7. QED
  <2> HIDE DEF F
  <2>1. Computes(F, V, b, start, before, advance)
    BY <1>5, <1>6, Zenon DEF Computes
  <2>2. QED
    BY <2>1, Zenon

\* Dividing makes smaller.
LEMMA QuotientSmaller ==
  ASSUME NEW b \in Nat \ {0, 1}, NEW n \in Nat
  PROVE  /\ n \div b \in Nat /\ n % b \in 0 .. b - 1
         /\ n >= b => n \div b < n
<1>1. n = b * (n \div b) + (n % b) /\ n % b < b /\ n \div b \in Nat /\ n % b \in Nat
  OBVIOUS
<1>2. PICK q \in Nat, r \in Nat : q = n \div b /\ r = n % b
  BY <1>1, Zenon
<1>3. ASSUME n >= b PROVE q < n
  <2>1. n = b * q + r
    BY <1>1, <1>2, Zenon
  <2>2. PICK c \in Nat : b = c + 2
    <3>1. b - 2 \in Nat /\ b = (b - 2) + 2
      OBVIOUS
    <3>2. QED
      BY <3>1, Zenon
  <2>3. b * q = c * q + 2 * q /\ c * q \in Nat
    BY <2>2
  <2>4. QED
    BY <1>3, <2>1, <2>3
<1>4. n % b \in 0 .. b - 1
  BY <1>1
<1>5. n >= b => n \div b < n
  BY <1>2, <1>3, Zenon
<1>6. n \div b \in Nat
  BY <1>1, Zenon
<1>7. QED
  BY <1>4, <1>5, <1>6, Zenon

\* A number is its quotient and its remainder.
LEMMA QuotientSum ==
  ASSUME NEW b \in Nat \ {0}, NEW n \in Nat
  PROVE  (n \div b) * b + (n % b) = n
<1>1. n = b * (n \div b) + (n % b) /\ n \div b \in Nat /\ n % b \in Nat
  OBVIOUS
<1>2. PICK q \in Nat, r \in Nat : q = n \div b /\ r = n % b
  BY <1>1, Zenon
<1>3. n = b * q + r /\ b * q = q * b
  BY <1>1, <1>2
<1>4. QED
  BY <1>2, <1>3, Zenon

\* A quotient and its remainder are unique.
LEMMA QuotientOf ==
  ASSUME NEW b \in Nat \ {0}, NEW q \in Nat, NEW r \in 0 .. b - 1
  PROVE  (q * b + r) \div b = q /\ (q * b + r) % b = r
<1>1. PICK n \in Nat : n = q * b + r
  <2>1. q * b \in Nat
    OBVIOUS
  <2>2. q * b + r \in Nat
    BY <2>1
  <2>3. QED
    BY <2>2, Zenon
<1>2. PICK p \in Nat, s \in Nat : p = n \div b /\ s = n % b /\ n = b * p + s /\ s < b
  OBVIOUS
<1>3. ~(p < q)
  <2> SUFFICES ASSUME p < q PROVE FALSE
    BY Zenon
  <2>1. PICK d \in Nat : q = p + 1 + d
    <3>1. q - p - 1 \in Nat /\ q = p + 1 + (q - p - 1)
      OBVIOUS
    <3>2. QED
      BY <3>1, Zenon
  <2>2. q * b = b * p + b + d * b /\ d * b \in Nat
    BY <2>1
  <2>3. QED
    BY <1>1, <1>2, <2>2
<1>4. ~(q < p)
  <2> SUFFICES ASSUME q < p PROVE FALSE
    BY Zenon
  <2>1. PICK d \in Nat : p = q + 1 + d
    <3>1. p - q - 1 \in Nat /\ p = q + 1 + (p - q - 1)
      OBVIOUS
    <3>2. QED
      BY <3>1, Zenon
  <2>2. b * p = q * b + b + d * b /\ d * b \in Nat
    BY <2>1
  <2>3. QED
    BY <1>1, <1>2, <2>2
<1>5. p = q
  BY <1>3, <1>4
<1>6. s = r
  <2>1. b * p = q * b
    BY <1>5
  <2>2. QED
    BY <1>1, <1>2, <2>1
<1>7. QED
  BY <1>1, <1>2, <1>5, <1>6, Zenon

-----------------------------------------------------------------------------
(* The recursive functions of the codec.                                   *)

\* What Power2 computes.
LEMMA Power2Def ==
  /\ Power2 \in [Nat -> Int]
  /\ \A n \in Nat : Power2[n] = IF n = 0 THEN 1 ELSE 2 * Power2[n - 1]
<1> DEFINE start == [n \in Nat |-> 1]
           before == [n \in Nat |-> IF n = 0 THEN 0 ELSE n - 1]
           advance == [n \in Nat |-> [v \in Int |-> 2 * v]]
<1>1. WellFounded(Int, 1, start, before, advance)
  BY DEF WellFounded
<1>2. PICK f : Computes(f, Int, 1, start, before, advance)
  <2> HIDE DEF start, before, advance
  <2>1. QED
    BY <1>1, Recursion, Zenon
<1> USE DEF Computes
<1>3. \A n \in Nat : f[n] = IF n = 0 THEN 1 ELSE 2 * f[n - 1]
  <2> SUFFICES ASSUME NEW n \in Nat PROVE f[n] = IF n = 0 THEN 1 ELSE 2 * f[n - 1]
    BY Zenon
  <2>1. CASE n = 0
    <3>1. n < 1 /\ start[n] = 1
      BY <2>1
    <3>2. QED
      BY <1>2, <2>1, <3>1, Zenon
  <2>2. CASE n # 0
    <3>1. ~(n < 1) /\ before[n] = n - 1 /\ n - 1 \in Nat /\ f[n - 1] \in Int
      BY <1>2, <2>2
    <3>2. advance[n][f[n - 1]] = 2 * f[n - 1]
      BY <3>1, Zenon
    <3>3. QED
      BY <1>2, <2>2, <3>1, <3>2, Zenon
  <2>3. QED
    BY <2>1, <2>2, Zenon
<1>4. f = [n \in Nat |-> IF n = 0 THEN 1 ELSE 2 * f[n - 1]]
  BY <1>2, <1>3, Zenon
<1>5. Power2 = [n \in Nat |-> IF n = 0 THEN 1 ELSE 2 * Power2[n - 1]]
  BY <1>4, Zenon DEF Power2
<1>6. \A n \in Nat : Power2[n] = IF n = 0 THEN 1 ELSE 2 * Power2[n - 1]
  BY <1>5, Zenon
<1>7. \A n \in Nat : Power2[n] \in Int
  <2> DEFINE S == {n \in Nat : Power2[n] \in Int}
  <2>1. ASSUME NEW n \in Nat, \A k \in 0 .. n - 1 : k \in S PROVE n \in S
    <3>1. CASE n = 0
      BY <1>6, <3>1
    <3>2. CASE n # 0
      <4>1. n - 1 \in 0 .. n - 1
        BY <3>2
      <4>2. Power2[n - 1] \in Int
        BY <2>1, <4>1, Zenon
      <4>3. QED
        BY <1>6, <3>2, <4>2
    <3>3. QED
      BY <3>1, <3>2, Zenon
  <2>2. \A n \in Nat : n \in S
    <3> HIDE DEF S
    <3>1. QED
      BY <2>1, StrongInduction, Zenon
  <2>3. QED
    BY <2>2, Zenon
<1>8. Power2 = [n \in Nat |-> Power2[n]]
  BY <1>5, Zenon
<1>9. QED
  BY <1>6, <1>7, <1>8, Zenon

\* Powers of two are positive and grow with the exponent.
LEMMA Power2Grows ==
  /\ \A n \in Nat : Power2[n] \in Nat \ {0} /\ Power2[n + 1] = 2 * Power2[n]
  /\ \A m, n \in Nat : m <= n => Power2[m] <= Power2[n]
<1>1. ASSUME NEW n \in Nat PROVE Power2[n + 1] = 2 * Power2[n]
  <2>1. n + 1 \in Nat /\ n + 1 # 0 /\ (n + 1) - 1 = n
    OBVIOUS
  <2>2. QED
    BY <2>1, Power2Def, Zenon
<1>2. \A n \in Nat : Power2[n] \in Nat \ {0}
  <2> DEFINE S == {n \in Nat : Power2[n] \in Nat \ {0}}
  <2>1. ASSUME NEW n \in Nat, \A k \in 0 .. n - 1 : k \in S PROVE n \in S
    <3>1. CASE n = 0
      BY <3>1, Power2Def
    <3>2. CASE n # 0
      <4>1. n - 1 \in 0 .. n - 1
        BY <3>2
      <4>2. Power2[n - 1] \in Nat \ {0}
        BY <2>1, <4>1, Zenon
      <4>3. QED
        BY <3>2, <4>2, Power2Def
    <3>3. QED
      BY <3>1, <3>2, Zenon
  <2>2. \A n \in Nat : n \in S
    <3> HIDE DEF S
    <3>1. QED
      BY <2>1, StrongInduction, Zenon
  <2>3. QED
    BY <2>2, Zenon
<1>3. ASSUME NEW m \in Nat, NEW n \in Nat, m <= n PROVE Power2[m] <= Power2[n]
  <2> DEFINE S == {d \in Nat : Power2[m] <= Power2[m + d]}
  <2>1. ASSUME NEW d \in Nat, \A k \in 0 .. d - 1 : k \in S PROVE d \in S
    <3>1. CASE d = 0
      <4>1. m + d = m /\ Power2[m] \in Nat
        BY <1>2, <3>1
      <4>2. QED
        BY <4>1
    <3>2. CASE d # 0
      <4>1. d - 1 \in 0 .. d - 1 /\ m + (d - 1) \in Nat /\ (m + (d - 1)) + 1 = m + d
        BY <3>2
      <4>2. Power2[m] <= Power2[m + (d - 1)]
        BY <2>1, <4>1, Zenon
      <4>3. Power2[m + d] = 2 * Power2[m + (d - 1)] /\ Power2[m + (d - 1)] \in Nat
            /\ Power2[m] \in Nat
        BY <1>1, <1>2, <4>1, Zenon
      <4>4. QED
        BY <4>2, <4>3
    <3>3. QED
      BY <3>1, <3>2, Zenon
  <2>2. \A d \in Nat : d \in S
    <3> HIDE DEF S
    <3>1. QED
      BY <2>1, StrongInduction, Zenon
  <2>3. n - m \in Nat /\ m + (n - m) = n
    BY <1>3
  <2>4. QED
    BY <2>2, <2>3, Zenon
<1>4. QED
  BY <1>1, <1>2, <1>3, Zenon

\* What decimal computes.
LEMMA DecimalDef ==
  /\ decimal \in [Nat -> Seq(Nat)]
  /\ \A n \in Nat : decimal[n] = IF n < Base THEN <<n>>
                                 ELSE Append(decimal[n \div Base], n % Base)
<1> DEFINE start == [n \in Nat |-> <<n>>]
           before == [n \in Nat |-> n \div Base]
           advance == [n \in Nat |-> [v \in Seq(Nat) |-> Append(v, n % Base)]]
<1>1. Base \in Nat \ {0, 1}
  BY PrimitivesAssumption, Zenon
<1>2. \A n \in Nat : /\ n \div Base \in Nat /\ n % Base \in Nat
                     /\ n >= Base => n \div Base < n
  BY <1>1, QuotientSmaller
<1>3. Base \in Nat /\ start \in [Nat -> Seq(Nat)] /\ before \in [Nat -> Nat]
  BY <1>1, <1>2
<1>4. advance \in [Nat -> [Seq(Nat) -> Seq(Nat)]] /\ \A n \in Nat : n >= Base => before[n] < n
  <2>1. ASSUME NEW n \in Nat, NEW v \in Seq(Nat) PROVE Append(v, n % Base) \in Seq(Nat)
    <3>1. PICK r \in Nat : r = n % Base
      BY <1>2, Zenon
    <3>2. Append(v, r) \in Seq(Nat)
      OBVIOUS
    <3>3. QED
      BY <3>1, <3>2, Zenon
  <2>2. \A n \in Nat : [v \in Seq(Nat) |-> Append(v, n % Base)] \in [Seq(Nat) -> Seq(Nat)]
    BY <2>1, Zenon
  <2>3. QED
    BY <1>2, <2>2, Zenon
<1>5. PICK f : Computes(f, Seq(Nat), Base, start, before, advance)
  <2> HIDE DEF start, before, advance
  <2>1. WellFounded(Seq(Nat), Base, start, before, advance)
    BY <1>3, <1>4, Zenon DEF WellFounded
  <2>2. QED
    BY <2>1, Recursion, Zenon
<1> USE DEF Computes
<1>6. \A n \in Nat : f[n] = IF n < Base THEN <<n>> ELSE Append(f[n \div Base], n % Base)
  <2> SUFFICES ASSUME NEW n \in Nat
               PROVE  f[n] = IF n < Base THEN <<n>> ELSE Append(f[n \div Base], n % Base)
    OBVIOUS
  <2>1. before[n] = n \div Base /\ f[n \div Base] \in Seq(Nat) /\ start[n] = <<n>>
    BY <1>2, <1>5, Zenon
  <2>2. advance[n][f[n \div Base]] = Append(f[n \div Base], n % Base)
    BY <2>1, Zenon
  <2> HIDE DEF start, before, advance
  <2>3. QED
    BY <1>5, <2>1, <2>2, Zenon
<1>7. f = [n \in Nat |-> IF n < Base THEN <<n>> ELSE Append(f[n \div Base], n % Base)]
  <2>1. f = [n \in Nat |-> f[n]]
    BY <1>5, Zenon
  <2>2. QED
    BY <1>6, <2>1, Zenon
<1>8. decimal = [n \in Nat |-> IF n < Base THEN <<n>>
                               ELSE Append(decimal[n \div Base], n % Base)]
  BY <1>7, Zenon DEF decimal
<1>9. \A n \in Nat : decimal[n] = IF n < Base THEN <<n>>
                                  ELSE Append(decimal[n \div Base], n % Base)
  BY <1>8, Zenon
<1>10. \A n \in Nat : decimal[n] \in Seq(Nat)
  <2> DEFINE S == {n \in Nat : decimal[n] \in Seq(Nat)}
  <2>1. ASSUME NEW n \in Nat, \A k \in 0 .. n - 1 : k \in S PROVE n \in S
    <3>1. CASE n < Base
      <4>1. <<n>> \in Seq(Nat)
        OBVIOUS
      <4>2. QED
        BY <1>9, <3>1, <4>1, Zenon
    <3>2. CASE ~(n < Base)
      <4>1. n \div Base \in 0 .. n - 1
        <5>0. n >= Base
          BY <1>1, <3>2
        <5>1. PICK q \in Nat : q = n \div Base /\ q < n
          BY <1>2, <5>0, Zenon
        <5>2. q \in 0 .. n - 1
          BY <5>1
        <5>3. QED
          BY <5>1, <5>2, Zenon
      <4>2. decimal[n \div Base] \in Seq(Nat)
        BY <2>1, <4>1, Zenon
      <4>3. decimal[n] = Append(decimal[n \div Base], n % Base) /\ n % Base \in Nat
        BY <1>2, <1>9, <3>2, Zenon
      <4>4. Append(decimal[n \div Base], n % Base) \in Seq(Nat)
        BY <4>2, <4>3
      <4>5. QED
        BY <4>3, <4>4, Zenon
    <3>3. QED
      BY <3>1, <3>2, Zenon
  <2>2. \A n \in Nat : n \in S
    <3> HIDE DEF S
    <3>1. QED
      BY <2>1, StrongInduction, Zenon
  <2>3. QED
    BY <2>2, Zenon
<1>11. decimal = [n \in Nat |-> decimal[n]]
  BY <1>8, Zenon
<1>12. QED
  BY <1>9, <1>10, <1>11, Zenon

\* The numbers that the first digits of a text spell.
LEMMA NumberStep ==
  ASSUME NEW digits \in Seq(Nat)
  PROVE  /\ \A n \in 0..Len(digits) : numberAfter(digits)[n] \in Nat
         /\ numberAfter(digits)[0] = 0
         /\ \A n \in 1..Len(digits) :
              numberAfter(digits)[n] = numberAfter(digits)[n - 1] * Base + digits[n]
<1>0. PICK N \in Nat : N = Len(digits)
  OBVIOUS
<1> DEFINE digit(n) == IF n \in 1..N THEN digits[n] ELSE 0
           start == [n \in Nat |-> 0]
           before == [n \in Nat |-> IF n = 0 THEN 0 ELSE n - 1]
           advance == [n \in Nat |-> [v \in Nat |-> v * Base + digit(n)]]
<1>1. \A n \in Nat : digit(n) \in Nat
  BY <1>0
<1>2. \A v, c \in Nat : v * Base + c \in Nat
  <2>1. Base \in Nat
    BY PrimitivesAssumption, Zenon
  <2>2. \A v \in Nat : v * Base \in Nat
    BY <2>1
  <2>3. QED
    BY <2>2, SMTT(30)
<1> HIDE DEF digit
<1>3. \A n \in Nat, v \in Nat : v * Base + digit(n) \in Nat
  BY <1>1, <1>2, Zenon
<1>4. advance \in [Nat -> [Nat -> Nat]]
  BY <1>3, Zenon
<1>5. 1 \in Nat /\ start \in [Nat -> Nat] /\ before \in [Nat -> Nat]
      /\ \A n \in Nat : n >= 1 => before[n] < n
  OBVIOUS
<1>6. PICK f : Computes(f, Nat, 1, start, before, advance)
  <2> HIDE DEF start, before, advance
  <2>1. WellFounded(Nat, 1, start, before, advance)
    BY <1>4, <1>5, Zenon DEF WellFounded
  <2>2. QED
    BY <2>1, Recursion, Zenon
<1> DEFINE g == [n \in 0..N |-> f[n]]
<1>7. \A n \in 0..N : f[n] \in Nat /\ g[n] = f[n]
  <2>1. f \in [Nat -> Nat]
    BY <1>6, Zenon DEF Computes
  <2>2. QED
    BY <2>1
<1>8. \A n \in 0..N : g[n] = IF n = 0 THEN 0 ELSE g[n - 1] * Base + digit(n)
  <2> SUFFICES ASSUME NEW n \in 0..N
               PROVE  g[n] = IF n = 0 THEN 0 ELSE g[n - 1] * Base + digit(n)
    BY Zenon
  <2>1. CASE n = 0
    <3>1. n \in Nat /\ n < 1 /\ start[n] = 0
      BY <2>1
    <3>2. f[n] = 0
      BY <1>6, <3>1, Zenon DEF Computes
    <3>3. QED
      BY <1>7, <2>1, <3>2, Zenon
  <2>2. CASE n # 0
    <3>1. n \in Nat /\ ~(n < 1) /\ before[n] = n - 1 /\ n - 1 \in 0..N
      BY <2>2
    <3>2. f[n] = advance[n][f[n - 1]]
      <4> HIDE DEF start, advance, before
      <4>1. QED
        BY <1>6, <3>1, Zenon DEF Computes
    <3>3. advance[n][f[n - 1]] = f[n - 1] * Base + digit(n)
      BY <1>7, <3>1, Zenon
    <3> HIDE DEF advance, g
    <3>4. QED
      BY <1>7, <2>2, <3>1, <3>2, <3>3, Zenon
  <2>3. QED
    BY <2>1, <2>2, Zenon
<1>9. g = [n \in 0..N |-> IF n = 0 THEN 0 ELSE g[n - 1] * Base + digit(n)]
  <2>1. g = [n \in 0..N |-> g[n]]
    BY Zenon
  <2> HIDE DEF g
  <2>2. QED
    BY <1>8, <2>1, Zenon
<1>10. \A n \in 0..N : n # 0 => n \in 1..N
  OBVIOUS
<1>11. g = [n \in 0..N |-> IF n = 0 THEN 0 ELSE g[n - 1] * Base + digits[n]]
  <2> HIDE DEF g
  <2>1. QED
    BY <1>9, <1>10, Zenon DEF digit
<1> HIDE DEF g
<1>12. numberAfter(digits) =
         [n \in 0..N |-> IF n = 0 THEN 0 ELSE numberAfter(digits)[n - 1] * Base + digits[n]]
  BY <1>0, <1>11, Zenon DEF numberAfter
<1>13. 0 \in 0..N /\ \A n \in 1..N : n \in 0..N /\ n # 0
  OBVIOUS
<1>14. /\ numberAfter(digits)[0] = 0
       /\ \A n \in 1..N : numberAfter(digits)[n] = numberAfter(digits)[n - 1] * Base + digits[n]
  BY <1>12, <1>13, Zenon
<1>15. \A n \in 0..N : numberAfter(digits)[n] \in Nat
  <2> DEFINE S == {n \in Nat : n <= N => numberAfter(digits)[n] \in Nat}
  <2>1. ASSUME NEW n \in Nat, \A k \in 0 .. n - 1 : k \in S PROVE n \in S
    <3>1. CASE n = 0
      BY <1>14, <3>1, Zenon
    <3>2. CASE n # 0 /\ n <= N
      <4>1. n - 1 \in 0 .. n - 1 /\ n - 1 <= N /\ n \in 1..N
        BY <3>2
      <4>2. numberAfter(digits)[n - 1] \in Nat
        BY <2>1, <4>1, Zenon
      <4>3. digits[n] \in Nat
        BY <1>0, <4>1
      <4>4. numberAfter(digits)[n] \in Nat
        BY <1>2, <1>14, <4>1, <4>2, <4>3, Zenon
      <4>5. QED
        BY <4>4, Zenon
    <3>3. QED
      BY <3>1, <3>2, Zenon
  <2>2. \A n \in Nat : n \in S
    <3> HIDE DEF S
    <3>1. QED
      BY <2>1, StrongInduction, Zenon
  <2>3. QED
    BY <2>2
<1>16. QED
  BY <1>0, <1>14, <1>15, Zenon

\* The number that the first digits spell does not depend on the others.
LEMMA SamePrefix ==
  ASSUME NEW s \in Seq(Nat), NEW t \in Seq(Nat), NEW k \in Nat, k <= Len(s), k <= Len(t),
         \A i \in 1..k : s[i] = t[i]
  PROVE  numberAfter(s)[k] = numberAfter(t)[k]
<1> DEFINE S == {n \in Nat : n <= k => numberAfter(s)[n] = numberAfter(t)[n]}
<1>1. ASSUME NEW n \in Nat, \A i \in 0 .. n - 1 : i \in S PROVE n \in S
  <2>1. CASE n = 0
    BY <2>1, NumberStep, Zenon
  <2>2. CASE n # 0 /\ n <= k
    <3>1. n - 1 \in 0 .. n - 1 /\ n - 1 <= k /\ n \in 1..Len(s) /\ n \in 1..Len(t) /\ n \in 1..k
      BY <2>2
    <3>2. numberAfter(s)[n - 1] = numberAfter(t)[n - 1]
      BY <1>1, <3>1, Zenon
    <3>3. numberAfter(s)[n] = numberAfter(t)[n]
      BY <3>1, <3>2, NumberStep, Zenon
    <3>4. QED
      BY <3>3, Zenon
  <2>3. QED
    BY <2>1, <2>2, Zenon
<1>2. \A n \in Nat : n \in S
  <2> HIDE DEF S
  <2>1. QED
    BY <1>1, StrongInduction, Zenon
<1>3. QED
  BY <1>2

\* One digit more.
LEMMA MagnitudeAppend ==
  ASSUME NEW s \in Seq(Nat), NEW d \in Nat
  PROVE  /\ Magnitude(s) \in Nat
         /\ Magnitude(Append(s, d)) = Magnitude(s) * Base + d
<1>1. PICK t \in Seq(Nat) : t = Append(s, d)
  <2>1. Append(s, d) \in Seq(Nat)
    OBVIOUS
  <2>2. QED
    BY <2>1, Zenon
<1>2. PICK k \in Nat : k = Len(s)
  OBVIOUS
<1>3. /\ Len(t) = k + 1 /\ t[k + 1] = d /\ \A i \in 1..k : s[i] = t[i]
      /\ k <= Len(s) /\ k <= Len(t) /\ k + 1 \in 1..Len(t) /\ (k + 1) - 1 = k /\ k \in 0..Len(s)
  BY <1>1, <1>2
<1>4. numberAfter(s)[k] = numberAfter(t)[k]
  BY <1>3, SamePrefix, Zenon
<1>5. numberAfter(t)[k + 1] = numberAfter(t)[k] * Base + t[k + 1]
  BY <1>3, NumberStep, Zenon
<1>6. numberAfter(s)[k] \in Nat
  BY <1>3, NumberStep, Zenon
<1>7. QED
  BY <1>1, <1>2, <1>3, <1>4, <1>5, <1>6, Zenon DEF Magnitude

\* One digit alone.
LEMMA MagnitudeOne ==
  ASSUME NEW d \in Nat PROVE Magnitude(<<d>>) = d
<1>1. <<d>> \in Seq(Nat) /\ Len(<<d>>) = 1 /\ <<d>>[1] = d /\ 1 \in 1..1 /\ 1 - 1 = 0
  OBVIOUS
<1>2. numberAfter(<<d>>)[1] = 0 * Base + d
  BY <1>1, NumberStep, Zenon
<1>3. 0 * Base + d = d
  BY PrimitivesAssumption
<1>4. QED
  BY <1>1, <1>2, <1>3, Zenon DEF Magnitude

\* Digits without a leading zero do not spell zero.
LEMMA MagnitudePositive ==
  ASSUME NEW s \in Seq(Nat), s # <<>>, s[1] # 0
  PROVE  Magnitude(s) >= 1
<1>0. PICK N \in Nat \ {0} : N = Len(s)
  OBVIOUS
<1> DEFINE S == {n \in Nat : n \in 1..N => numberAfter(s)[n] >= 1}
<1>1. ASSUME NEW n \in Nat, \A i \in 0 .. n - 1 : i \in S PROVE n \in S
  <2> SUFFICES ASSUME n \in 1..N PROVE numberAfter(s)[n] >= 1
    BY Zenon
  <2>1. PICK v \in Nat : v = numberAfter(s)[n - 1]
    <3>1. n - 1 \in 0..Len(s)
      BY <1>0
    <3>2. QED
      BY <3>1, NumberStep, Zenon
  <2>2. numberAfter(s)[n] = v * Base + s[n] /\ s[n] \in Nat
    BY <1>0, <2>1, NumberStep
  <2>3. v * Base \in Nat
    BY PrimitivesAssumption
  <2>4. CASE n = 1
    BY <2>2, <2>3, <2>4
  <2>5. CASE n # 1
    <3>1. n - 1 \in 0 .. n - 1 /\ n - 1 \in 1..N
      BY <2>5
    <3>2. v >= 1
      BY <1>1, <2>1, <3>1, Zenon
    <3>3. v * Base >= 1
      <4>1. PICK u \in Nat : v = u + 1
        <5>1. v - 1 \in Nat /\ v = (v - 1) + 1
          BY <3>2
        <5>2. QED
          BY <5>1, Zenon
      <4>2. v * Base = u * Base + Base /\ u * Base \in Nat
        BY <4>1, PrimitivesAssumption
      <4>3. QED
        BY <4>2, PrimitivesAssumption
    <3>4. QED
      BY <2>2, <2>3, <3>3
  <2>6. QED
    BY <2>4, <2>5, Zenon
<1>2. \A n \in Nat : n \in S
  <2> HIDE DEF S
  <2>1. QED
    BY <1>1, StrongInduction, Zenon
<1>3. N \in 1..N /\ N \in Nat
  OBVIOUS
<1>4. numberAfter(s)[N] >= 1
  BY <1>2, <1>3, Zenon
<1>5. QED
  BY <1>0, <1>4, Zenon DEF Magnitude

-----------------------------------------------------------------------------
(* The text of an integer.                                                 *)

\* The digits of a number are canonical and spell it.
LEMMA DecimalCanonical ==
  \A n \in Nat : /\ Canonical(decimal[n]) /\ Magnitude(decimal[n]) = n
                 /\ n # 0 => decimal[n][1] # 0
<1> DEFINE Right(n) == /\ Canonical(decimal[n]) /\ Magnitude(decimal[n]) = n
                       /\ n # 0 => decimal[n][1] # 0
           S == {n \in Nat : Right(n)}
<1>0. Base \in Nat \ {0, 1}
  BY PrimitivesAssumption, Zenon
<1>1. ASSUME NEW n \in Nat, \A k \in 0 .. n - 1 : k \in S PROVE Right(n)
  <2>1. CASE n < Base
    <3>1. decimal[n] = <<n>>
      BY <2>1, DecimalDef, Zenon
    <3>2. Canonical(<<n>>) /\ <<n>>[1] = n
      BY <1>0, <2>1 DEF Canonical
    <3>3. Magnitude(<<n>>) = n
      BY MagnitudeOne, Zenon
    <3>4. QED
      BY <3>1, <3>2, <3>3, Zenon
  <2>2. CASE ~(n < Base)
    <3>1. PICK q \in Nat, r \in 0 .. Base - 1 : q = n \div Base /\ r = n % Base
      BY <1>0, QuotientSmaller, Zenon
    <3>2. q * Base + r = n
      BY <1>0, <3>1, QuotientSum, Zenon
    <3>3. q \in 0 .. n - 1
      <4>1. n >= Base
        BY <1>0, <2>2
      <4>2. q < n
        BY <1>0, <3>1, <4>1, QuotientSmaller, Zenon
      <4>3. QED
        BY <4>2
    <3>4. q # 0
      BY <1>0, <2>2, <3>2
    <3>5. Right(q)
      <4> HIDE DEF Right
      <4>1. q \in S
        BY <1>1, <3>3, Zenon
      <4>2. QED
        BY <4>1, Zenon
    <3>6. PICK t \in Seq(Nat) : t = decimal[q]
      BY DecimalDef, Zenon
    <3>7. Canonical(t) /\ t[1] # 0 /\ Magnitude(t) = q
      BY <3>4, <3>5, <3>6, Zenon
    <3>8. decimal[n] = Append(t, r)
      BY <2>2, <3>1, <3>6, DecimalDef, Zenon
    <3>9. PICK u \in Seq(Nat) : u = Append(t, r)
      <4>1. r \in Nat
        BY <1>0
      <4>2. Append(t, r) \in Seq(Nat)
        BY <4>1
      <4>3. QED
        BY <4>2, Zenon
    <3>10. /\ u # <<>> /\ u[1] = t[1] /\ \A i \in DOMAIN u : u[i] \in 0 .. Base - 1
      <4>1. t # <<>> /\ \A i \in DOMAIN t : t[i] \in 0 .. Base - 1
        BY <3>7, Zenon DEF Canonical
      <4>2. QED
        BY <3>9, <4>1
    <3>11. Canonical(u)
      BY <3>7, <3>10, Zenon DEF Canonical
    <3>12. Magnitude(u) = n
      <4>1. r \in Nat
        BY <1>0
      <4>2. Magnitude(Append(t, r)) = Magnitude(t) * Base + r
        BY <4>1, MagnitudeAppend, Zenon
      <4>3. QED
        BY <3>2, <3>7, <3>9, <4>2, Zenon
    <3>13. QED
      BY <3>7, <3>8, <3>9, <3>10, <3>11, <3>12, Zenon
  <2>3. QED
    BY <2>1, <2>2, Zenon
<1> HIDE DEF Right
<1>2. \A n \in Nat : n \in S
  <2>1. ASSUME NEW n \in Nat, \A k \in 0 .. n - 1 : k \in S PROVE n \in S
    BY <1>1, <2>1, Zenon
  <2> HIDE DEF S
  <2>2. QED
    BY <2>1, StrongInduction, Zenon
<1>3. QED
  BY <1>2, Zenon DEF Right

\* No other canonical digits spell the same number.
LEMMA DecimalUnique ==
  \A n \in Nat : \A s \in Seq(Nat) : Canonical(s) /\ Magnitude(s) = n => s = decimal[n]
<1> DEFINE Unique(n) == \A s \in Seq(Nat) : Canonical(s) /\ Magnitude(s) = n => s = decimal[n]
           S == {n \in Nat : Unique(n)}
<1>0. Base \in Nat \ {0, 1}
  BY PrimitivesAssumption, Zenon
<1>1. ASSUME NEW n \in Nat, \A k \in 0 .. n - 1 : k \in S PROVE Unique(n)
  <2> SUFFICES ASSUME NEW s \in Seq(Nat), Canonical(s), Magnitude(s) = n PROVE s = decimal[n]
    BY Zenon
  <2>0. /\ s # <<>> /\ (\A i \in DOMAIN s : s[i] \in 0 .. Base - 1)
        /\ s[1] = 0 => Len(s) = 1
    BY Zenon DEF Canonical
  <2>1. CASE Len(s) = 1
    <3>1. PICK d \in Nat : s = <<d>> /\ d < Base
      <4>1. 1 \in DOMAIN s /\ s = <<s[1]>>
        BY <2>1
      <4>2. s[1] \in 0 .. Base - 1
        BY <2>0, <4>1, Zenon
      <4>3. s[1] \in Nat /\ s[1] < Base
        BY <1>0, <4>2
      <4>4. QED
        BY <4>1, <4>3, Zenon
    <3>2. d = n
      BY <3>1, MagnitudeOne, Zenon
    <3>3. QED
      BY <3>1, <3>2, DecimalDef, Zenon
  <2>2. CASE Len(s) # 1
    <3>1. PICK t \in Seq(Nat), d \in 0 .. Base - 1 :
            /\ s = Append(t, d) /\ t # <<>> /\ t[1] = s[1]
            /\ \A i \in DOMAIN t : t[i] \in 0 .. Base - 1
      <4> DEFINE t == SubSeq(s, 1, Len(s) - 1)
      <4>1. Len(s) \in Nat /\ Len(s) > 1 /\ Len(s) \in DOMAIN s
        <5>1. s # <<>>
          BY <2>0, Zenon
        <5>2. Len(s) \in Nat /\ DOMAIN s = 1..Len(s)
          OBVIOUS
        <5>3. Len(s) # 0
          BY <5>1
        <5>4. QED
          BY <2>2, <5>2, <5>3
      <4>2. t \in Seq(Nat) /\ Len(t) = Len(s) - 1 /\ \A i \in 1 .. Len(s) - 1 : t[i] = s[i]
        BY <4>1
      <4> HIDE DEF t
      <4>3. DOMAIN t = 1 .. Len(s) - 1 /\ t # <<>> /\ t[1] = s[1]
        BY <4>1, <4>2
      <4>4. \A i \in DOMAIN t : t[i] \in 0 .. Base - 1
        <5>1. \A i \in 1 .. Len(s) - 1 : i \in DOMAIN s
          BY <4>1
        <5>2. QED
          BY <2>0, <4>2, <4>3, <5>1, Zenon
      <4>5. s = Append(t, s[Len(s)])
        <5>1. PICK k \in Nat, d \in Nat : k = Len(s) /\ d = s[Len(s)] /\ k > 1
          BY <4>1
        <5>2. Len(t) = k - 1
          BY <4>2, <5>1, Zenon
        <5>3. /\ Len(Append(t, d)) = k /\ Append(t, d)[k] = d
              /\ \A i \in 1 .. k - 1 : Append(t, d)[i] = t[i]
          BY <4>2, <5>1, <5>2
        <5>4. \A i \in 1..k : Append(t, d)[i] = s[i]
          BY <4>2, <5>1, <5>3
        <5>5. Append(t, d) \in Seq(Nat)
          BY <4>2, <5>1
        <5>6. QED
          BY <5>1, <5>3, <5>4, <5>5
      <4>6. s[Len(s)] \in 0 .. Base - 1
        BY <2>0, <4>1, Zenon
      <4>7. QED
        BY <4>2, <4>3, <4>4, <4>5, <4>6, Zenon
    <3>2. t[1] # 0
      BY <2>0, <2>2, <3>1, Zenon
    <3>3. Canonical(t)
      BY <3>1, <3>2, Zenon DEF Canonical
    <3>4. PICK q \in Nat : q = Magnitude(t)
      <4>1. 0 \in Nat
        BY Zenon
      <4>2. QED
        BY <4>1, MagnitudeAppend, Zenon
    <3>5. q >= 1
      BY <3>1, <3>2, <3>4, MagnitudePositive, Zenon
    <3>6. d \in Nat
      BY <1>0
    <3>7. n = q * Base + d
      BY <3>1, <3>4, <3>6, MagnitudeAppend, Zenon
    <3>8. n \div Base = q /\ n % Base = d
      BY <1>0, <3>7, QuotientOf, Zenon
    <3>9. ~(n < Base)
      <4>1. PICK u \in Nat : q = u + 1
        <5>1. q - 1 \in Nat /\ q = (q - 1) + 1
          BY <3>5
        <5>2. QED
          BY <5>1, Zenon
      <4>2. q * Base = u * Base + Base /\ u * Base \in Nat
        BY <1>0, <4>1
      <4>3. PICK m \in Nat : m = u * Base
        BY <4>2, Zenon
      <4>4. n = (m + Base) + d
        BY <3>7, <4>2, <4>3, Zenon
      <4>5. QED
        BY <1>0, <3>6, <4>4
    <3>10. q \in 0 .. n - 1
      <4>1. n >= Base
        BY <1>0, <3>9
      <4>2. q < n
        BY <1>0, <3>8, <4>1, QuotientSmaller, Zenon
      <4>3. QED
        BY <4>2
    <3>11. t = decimal[q]
      <4>1. q \in S
        BY <1>1, <3>10, Zenon
      <4>2. Unique(q)
        <5> HIDE DEF Unique
        <5>1. QED
          BY <4>1, Zenon
      <4>3. QED
        BY <3>3, <3>4, <4>2, Zenon
    <3>12. QED
      BY <3>1, <3>8, <3>9, <3>11, DecimalDef, Zenon
  <2>3. QED
    BY <2>1, <2>2, Zenon
<1> HIDE DEF Unique
<1>2. \A n \in Nat : n \in S
  <2>1. ASSUME NEW n \in Nat, \A k \in 0 .. n - 1 : k \in S PROVE n \in S
    BY <1>1, <2>1, Zenon
  <2> HIDE DEF S
  <2>2. QED
    BY <2>1, StrongInduction, Zenon
<1>3. QED
  BY <1>2, Zenon DEF Unique

\* The text of an integer is taken for an integer, and read as this one.
THEOREM TextReads ==
  ASSUME NEW n \in Int
  PROVE  /\ Spells(to_string(n)) /\ Number(to_string(n)) = n
         /\ Head(to_string(n)) = Minus <=> n < 0
<1>0. Base \in Nat \ {0, 1}
  BY PrimitivesAssumption, Zenon
<1>1. CASE n < 0
  <2>1. PICK m \in Nat : m = -n /\ m # 0 /\ n = -m
    BY <1>1
  <2>2. PICK s \in Seq(Nat) : s = decimal[m]
    BY DecimalDef, Zenon
  <2>3. Canonical(s) /\ Magnitude(s) = m /\ s[1] # 0
    BY <2>1, <2>2, DecimalCanonical, Zenon
  <2>4. PICK t \in Seq(Int) : t = <<Minus>> \o s
    <3>1. <<Minus>> \in Seq(Int) /\ s \in Seq(Int)
      BY DEF Minus
    <3>2. <<Minus>> \o s \in Seq(Int)
      BY <3>1
    <3>3. QED
      BY <3>2, Zenon
  <2>5. t # <<>> /\ Head(t) = Minus /\ Tail(t) = s
    BY <2>4, SMTT(30) DEF Minus
  <2>6. t # <<Minus, 0>>
    <3>1. Tail(<<Minus, 0>>)[1] = 0
      BY DEF Minus
    <3>2. QED
      BY <2>3, <2>5, <3>1, Zenon
  <2>7. to_string(n) = t
    BY <1>1, <2>1, <2>2, <2>4, Zenon DEF to_string
  <2>8. Spells(t) /\ Number(t) = -m
    BY <2>3, <2>5, <2>6, Zenon DEF Spells, Number
  <2>9. QED
    BY <1>1, <2>1, <2>5, <2>7, <2>8, Zenon
<1>2. CASE ~(n < 0)
  <2>1. n \in Nat
    BY <1>2
  <2>2. PICK s \in Seq(Nat) : s = decimal[n]
    BY <2>1, DecimalDef, Zenon
  <2>3. Canonical(s) /\ Magnitude(s) = n
    BY <2>1, <2>2, DecimalCanonical, Zenon
  <2>4. s # <<>> /\ Head(s) # Minus
    <3>1. s # <<>>
      BY <2>3, Zenon DEF Canonical
    <3>2. QED
      BY <3>1 DEF Minus
  <2>5. s # <<Minus, 0>>
    <3>1. Head(<<Minus, 0>>) = Minus
      BY DEF Minus
    <3>2. QED
      BY <2>4, <3>1, Zenon
  <2>6. to_string(n) = s
    BY <1>2, <2>2, Zenon DEF to_string
  <2>7. Spells(s) /\ Number(s) = n
    BY <2>3, <2>4, <2>5, Zenon DEF Spells, Number
  <2>8. QED
    BY <1>2, <2>4, <2>6, <2>7, Zenon
<1>3. QED
  BY <1>1, <1>2, Zenon

\* A text that is taken for an integer is the one text of that integer.
THEOREM TextUnique ==
  ASSUME NEW text \in Seq(Int), Spells(text)
  PROVE  Number(text) \in Int /\ to_string(Number(text)) = text
<1>0. Base \in Nat \ {0, 1} /\ text # <<>>
  BY PrimitivesAssumption, Zenon DEF Spells
<1>1. CASE Head(text) = Minus
  <2>1. PICK s \in Seq(Int) : s = Tail(text) /\ text = <<Minus>> \o s
    <3>1. Tail(text) \in Seq(Int) /\ text = <<Head(text)>> \o Tail(text)
      BY <1>0
    <3>2. QED
      BY <1>1, <3>1, Zenon
  <2>2. Canonical(s) /\ text # <<Minus, 0>>
    BY <1>1, <2>1, Zenon DEF Spells
  <2>3. s # <<>> /\ \A i \in DOMAIN s : s[i] \in 0 .. Base - 1
    BY <2>2, Zenon DEF Canonical
  <2>4. s \in Seq(Nat)
    BY <1>0, <2>3, SMTT(30)
  <2>5. s[1] # 0
    <3> SUFFICES ASSUME s[1] = 0 PROVE FALSE
      BY Zenon
    <3>1. Len(s) = 1
      BY <2>2, Zenon DEF Canonical
    <3>2. s = <<0>>
      BY <3>1
    <3>3. Len(text) = 2 /\ text[1] = Minus /\ text[2] = 0
      <4>1. Len(Tail(text)) = Len(text) - 1 /\ Tail(text)[1] = text[2] /\ Head(text) = text[1]
        BY <1>0, <2>1, <3>1, SMTT(30)
      <4>2. QED
        BY <1>0, <1>1, <2>1, <3>1, <4>1
    <3>4. text = <<Minus, 0>>
      BY <3>3 DEF Minus
    <3>5. QED
      BY <2>2, <3>4, Zenon
  <2>6. PICK m \in Nat : m = Magnitude(s)
    <3>1. 0 \in Nat
      BY Zenon
    <3>2. QED
      BY <2>4, <3>1, MagnitudeAppend, Zenon
  <2>7. m >= 1
    BY <2>3, <2>4, <2>5, <2>6, MagnitudePositive, Zenon
  <2>8. s = decimal[m]
    BY <2>2, <2>4, <2>6, DecimalUnique, Zenon
  <2>9. Number(text) = -m
    BY <1>1, <2>1, <2>6, Zenon DEF Number
  <2>10. -m \in Int /\ -m < 0 /\ -(-m) = m
    BY <2>7
  <2>11. to_string(-m) = <<Minus>> \o decimal[m]
    BY <2>10, Zenon DEF to_string
  <2>12. QED
    BY <2>1, <2>8, <2>9, <2>10, <2>11, Zenon
<1>2. CASE Head(text) # Minus
  <2>1. Canonical(text)
    BY <1>2, Zenon DEF Spells
  <2>2. \A i \in DOMAIN text : text[i] \in 0 .. Base - 1
    BY <2>1, Zenon DEF Canonical
  <2>3. text \in Seq(Nat)
    BY <1>0, <2>2
  <2>4. PICK m \in Nat : m = Magnitude(text)
    <3>1. 0 \in Nat
      BY Zenon
    <3>2. QED
      BY <2>3, <3>1, MagnitudeAppend, Zenon
  <2>5. text = decimal[m]
    BY <2>1, <2>3, <2>4, DecimalUnique, Zenon
  <2>6. Number(text) = m
    BY <1>2, <2>4, Zenon DEF Number
  <2>7. ~(m < 0) /\ m \in Int
    OBVIOUS
  <2>8. QED
    BY <2>5, <2>6, <2>7, Zenon DEF to_string
<1>3. QED
  BY <1>1, <1>2, Zenon

-----------------------------------------------------------------------------
(* Integers.                                                               *)

\* What integerText makes of a JSON value stands for at most one integer.
LEMMA IntegerTextDenotes ==
  ASSUME NEW value, IsScalar(value)
  PROVE  LET text == integerText(value) IN
         /\ text = <<>> => \A n \in Int : ~Denotes(value, n)
         /\ text # <<>> => /\ Number(text) \in Int
                           /\ Head(text) = Minus <=> Number(text) < 0
                           /\ \A n \in Int : Denotes(value, n) <=> n = Number(text)
<1> DEFINE text == integerText(value)
<1>1. CASE value.json = "string" /\ Spells(value.text)
  <2>1. value.text \in Seq(Int) /\ text = value.text /\ text # <<>>
    BY <1>1, Zenon DEF IsScalar, integerText, Spells
  <2>2. Number(text) \in Int /\ to_string(Number(text)) = text
    BY <1>1, <2>1, TextUnique, Zenon
  <2>3. Head(text) = Minus <=> Number(text) < 0
    BY <2>2, TextReads, Zenon
  <2>4. ASSUME NEW n \in Int PROVE Denotes(value, n) <=> n = Number(text)
    <3>1. value.json # "integral"
      BY <1>1, Zenon
    <3>2. Denotes(value, n) <=> text = to_string(n)
      BY <1>1, <2>1, <3>1, Zenon DEF Denotes
    <3>3. Number(to_string(n)) = n
      BY TextReads, Zenon
    <3>4. QED
      BY <2>2, <3>2, <3>3, Zenon
  <2>5. QED
    BY <2>1, <2>2, <2>3, <2>4, Zenon
<1>2. CASE value.json = "string" /\ ~Spells(value.text)
  <2>1. text = <<>>
    BY <1>2, Zenon DEF integerText
  <2>2. ASSUME NEW n \in Int PROVE ~Denotes(value, n)
    <3>1. value.json # "integral"
      BY <1>2, Zenon
    <3>2. Spells(to_string(n))
      BY TextReads, Zenon
    <3>3. QED
      BY <1>2, <3>1, <3>2, Zenon DEF Denotes
  <2>3. QED
    BY <2>1, <2>2, Zenon
<1>3. CASE value.json = "integral"
  <2>0. value.json # "string" /\ value.number \in Int
    BY <1>3, Zenon DEF IsScalar
  <2>1. text = to_string(value.number)
    BY <1>3, <2>0, Zenon DEF integerText
  <2>2. Number(text) = value.number /\ (Head(text) = Minus <=> value.number < 0) /\ text # <<>>
    <3>1. /\ Spells(text) /\ Number(text) = value.number
          /\ Head(text) = Minus <=> value.number < 0
      BY <2>0, <2>1, TextReads, Zenon
    <3>2. QED
      BY <3>1, Zenon DEF Spells
  <2>3. ASSUME NEW n \in Int PROVE Denotes(value, n) <=> n = Number(text)
    BY <1>3, <2>0, <2>2, Zenon DEF Denotes
  <2>4. QED
    BY <2>0, <2>2, <2>3, Zenon
<1>4. CASE value.json \notin {"string", "integral"}
  <2>1. text = <<>>
    BY <1>4, Zenon DEF integerText
  <2>2. QED
    BY <1>4, <2>1, Zenon DEF Denotes
<1>5. QED
  BY <1>1, <1>2, <1>3, <1>4, Zenon

\* What the two integer readers accept, of a field of at most LongBits bits, are
\* the JSON values that stand for an integer of its range.
LEMMA SignedIntegerExact ==
  ASSUME NEW value, IsScalar(value), NEW bits \in 1..LongBits
  PROVE  LET range == -Power2[bits - 1]..Power2[bits - 1] - 1
             read == signedInteger(value, bits)
         IN \/ \E n \in range : /\ read = Ok(n) /\ Denotes(value, n)
                                /\ \A m \in Int : Denotes(value, m) => m = n
            \/ read = codecError /\ \A n \in range : ~Denotes(value, n)
<1> DEFINE text == integerText(value)
           low == -Power2[bits - 1]
           high == Power2[bits - 1] - 1
<1>0. LongBits \in Nat /\ bits - 1 \in Nat /\ LongBits - 1 \in Nat
  BY PrimitivesAssumption
<1>1. /\ Power2[bits - 1] \in Nat /\ Power2[LongBits - 1] \in Nat
      /\ Power2[bits - 1] <= Power2[LongBits - 1]
  BY <1>0, Power2Def, Power2Grows
<1>2. low \in Int /\ high \in Int /\ \A n \in low..high : n \in Int
  BY <1>1
<1>3. CASE text = <<>>
  <2>1. signedInteger(value, bits) = codecError
    BY <1>3, Zenon DEF signedInteger
  <2>2. \A n \in low..high : ~Denotes(value, n)
    BY <1>2, <1>3, IntegerTextDenotes, Zenon
  <2>3. QED
    BY <2>1, <2>2, Zenon
<1>4. CASE text # <<>>
  <2>1. PICK number \in Int : /\ number = Number(text)
                              /\ \A n \in Int : Denotes(value, n) <=> n = number
    BY <1>4, IntegerTextDenotes, Zenon
  <2>2. CASE number \in low..high
    <3>1. number \in -Power2[LongBits - 1]..Power2[LongBits - 1] - 1
      BY <1>1, <2>2
    <3>2. signedInteger(value, bits) = Ok(number)
      BY <1>4, <2>1, <2>2, <3>1, Zenon DEF signedInteger
    <3>3. QED
      BY <2>1, <2>2, <3>2, Zenon
  <2>3. CASE number \notin low..high
    <3>1. signedInteger(value, bits) = codecError
      BY <1>4, <2>1, <2>3, Zenon DEF signedInteger
    <3>2. QED
      BY <1>2, <2>1, <2>3, <3>1, Zenon
  <2>4. QED
    BY <2>2, <2>3, Zenon
<1>5. QED
  BY <1>3, <1>4, Zenon

\* The same of unsignedInteger.
LEMMA UnsignedIntegerExact ==
  ASSUME NEW value, IsScalar(value), NEW bits \in 1..LongBits
  PROVE  LET range == 0..Power2[bits] - 1
             read == unsignedInteger(value, bits)
         IN \/ \E n \in range : /\ read = Ok(n) /\ Denotes(value, n)
                                /\ \A m \in Int : Denotes(value, m) => m = n
            \/ read = codecError /\ \A n \in range : ~Denotes(value, n)
<1> DEFINE text == integerText(value)
           high == Power2[bits] - 1
<1>0. LongBits \in Nat /\ bits \in Nat
  BY PrimitivesAssumption
<1>1. /\ Power2[bits] \in Nat /\ Power2[LongBits] \in Nat
      /\ Power2[bits] <= Power2[LongBits]
  BY <1>0, Power2Def, Power2Grows
<1>2. high \in Int /\ \A n \in 0..high : n \in Int
  BY <1>1
<1>3. CASE text = <<>>
  <2>1. unsignedInteger(value, bits) = codecError
    BY <1>3, Zenon DEF unsignedInteger
  <2>2. \A n \in 0..high : ~Denotes(value, n)
    BY <1>2, <1>3, IntegerTextDenotes, Zenon
  <2>3. QED
    BY <2>1, <2>2, Zenon
<1>4. CASE text # <<>>
  <2>1. PICK number \in Int : /\ number = Number(text)
                              /\ Head(text) = Minus <=> number < 0
                              /\ \A n \in Int : Denotes(value, n) <=> n = number
    BY <1>4, IntegerTextDenotes, Zenon
  <2>2. CASE number \in 0..high
    <3>1. ~(number < 0) /\ ~(number > Power2[LongBits] - 1) /\ ~(number > high)
      BY <1>1, <2>2
    <3>2. unsignedInteger(value, bits) = Ok(number)
      BY <1>4, <2>1, <2>2, <3>1, Zenon DEF unsignedInteger
    <3>3. QED
      BY <2>1, <2>2, <3>2, Zenon
  <2>3. CASE number \notin 0..high
    <3>0. number < 0 \/ number > high
      BY <1>2, <2>3
    <3>1. unsignedInteger(value, bits) = codecError
      BY <1>4, <2>1, <3>0, Zenon DEF unsignedInteger
    <3>2. QED
      BY <1>2, <2>1, <2>3, <3>1, Zenon
  <2>4. QED
    BY <2>2, <2>3, Zenon
<1>5. QED
  BY <1>3, <1>4, Zenon
\* An integer field is read exactly.
LEMMA IntegerFieldExact ==
  ASSUME NEW value, IsScalar(value), NEW type, IsPrimitive(type), type.type \in {"UInt", "Int"}
  PROVE  LET denoted == {n \in RangeOf(type) : Denotes(value, n)}
             read == decodePrimitive(value, type)
         IN \/ \E n \in RangeOf(type) : read = Ok(n) /\ denoted = {n}
            \/ read = codecError /\ denoted = {}
<1> DEFINE denoted == {n \in RangeOf(type) : Denotes(value, n)}
           read == decodePrimitive(value, type)
<1>0. LongBits \in Nat /\ type.bits \in 1..LongBits
  BY PrimitivesAssumption, Zenon DEF IsPrimitive
<1>1. ASSUME \/ \E n \in RangeOf(type) : /\ read = Ok(n) /\ Denotes(value, n)
                                         /\ \A m \in Int : Denotes(value, m) => m = n
             \/ read = codecError /\ \A n \in RangeOf(type) : ~Denotes(value, n),
             RangeOf(type) \subseteq Int
      PROVE  \/ \E n \in RangeOf(type) : read = Ok(n) /\ denoted = {n}
             \/ read = codecError /\ denoted = {}
  <2> HIDE DEF read
  <2>1. CASE \E n \in RangeOf(type) : /\ read = Ok(n) /\ Denotes(value, n)
                                      /\ \A m \in Int : Denotes(value, m) => m = n
    <3>1. PICK n \in RangeOf(type) : /\ read = Ok(n) /\ Denotes(value, n)
                                     /\ \A m \in Int : Denotes(value, m) => m = n
      BY <2>1, Zenon
    <3>2. denoted = {n}
      BY <1>1, <3>1, Zenon
    <3>3. QED
      BY <3>1, <3>2, Zenon
  <2>2. CASE read = codecError /\ \A n \in RangeOf(type) : ~Denotes(value, n)
    BY <2>2, Zenon
  <2>3. QED
    BY <1>1, <2>1, <2>2, Zenon
<1>2. CASE type.type = "UInt"
  <2>1. read = unsignedInteger(value, type.bits)
    BY <1>2, Zenon DEF decodePrimitive
  <2>2. RangeOf(type) = 0..Power2[type.bits] - 1
    BY <1>2, Zenon DEF RangeOf
  <2>3. RangeOf(type) \subseteq Int
    BY <1>0, <2>2, Power2Def
  <2>4. QED
    BY <1>0, <1>1, <2>1, <2>2, <2>3, UnsignedIntegerExact, Zenon
<1>3. CASE type.type = "Int"
  <2>1. read = signedInteger(value, type.bits)
    BY <1>3, Zenon DEF decodePrimitive
  <2>2. type.type # "UInt" /\ type.bits - 1 \in Nat
    BY <1>0, <1>3
  <2>3. RangeOf(type) = -Power2[type.bits - 1]..Power2[type.bits - 1] - 1
    BY <2>2, Zenon DEF RangeOf
  <2>4. RangeOf(type) \subseteq Int
    BY <2>2, <2>3, Power2Def
  <2>5. QED
    BY <1>0, <1>1, <2>1, <2>3, <2>4, SignedIntegerExact, Zenon
<1>4. QED
  BY <1>2, <1>3, Zenon

-----------------------------------------------------------------------------
(* Results that are collected.                                             *)

\* Collect gives all values, or an error that is among the results.
LEMMA CollectResult ==
  ASSUME NEW results, NEW k \in Nat, DOMAIN results = 1..k
  PROVE  \/ /\ \A i \in 1..k : Accepted(results[i])
            /\ Collect(results) = Ok([i \in 1..k |-> results[i].value])
         \/ \E i \in 1..k : ~Accepted(results[i]) /\ Collect(results) = results[i]
<1> DEFINE bad == {i \in 1..k : ~Accepted(results[i])}
<1>1. CASE bad = {}
  BY <1>1, Zenon DEF Collect
<1>2. CASE bad # {}
  <2>1. bad \subseteq Nat
    OBVIOUS
  <2>2. \E i \in bad : \A j \in bad : i <= j
    <3> HIDE DEF bad
    <3> QED
      BY <1>2, <2>1, LeastNumber, Zenon
  <2>3. PICK i : /\ i = (CHOOSE x \in bad : \A j \in bad : x <= j)
                 /\ i \in bad
    BY <2>2, Zenon
  <2>4. Collect(results) = results[i]
    BY <1>2, <2>3, Zenon DEF Collect
  <2>5. QED
    BY <2>3, <2>4, Zenon
<1>3. QED
  BY <1>1, <1>2, Zenon

\* Whether it is accepted, and then its values.
LEMMA CollectAccepted ==
  ASSUME NEW results, NEW k \in Nat, DOMAIN results = 1..k
  PROVE  /\ Accepted(Collect(results)) <=> \A i \in 1..k : Accepted(results[i])
         /\ Accepted(Collect(results)) =>
              Collect(results) = Ok([i \in 1..k |-> results[i].value])
<1>1. Accepted(Ok([i \in 1..k |-> results[i].value]))
  BY Zenon DEF Accepted, Ok
<1>2. QED
  BY <1>1, CollectResult, Zenon

\* The two members of a stamp.
LEMMA CollectPair ==
  ASSUME NEW a, NEW b
  PROVE  \/ /\ Accepted(a) /\ Accepted(b)
            /\ Collect(<<a, b>>) = Ok(<<a.value, b.value>>)
         \/ \E r \in {a, b} : ~Accepted(r) /\ Collect(<<a, b>>) = r
<1> DEFINE pair == <<a, b>>
<1>1. DOMAIN pair = 1..2 /\ pair[1] = a /\ pair[2] = b /\ 1 \in 1..2 /\ 2 \in 1..2 /\ 2 \in Nat
  OBVIOUS
<1>2. \A i \in 1..2 : i = 1 \/ i = 2
  OBVIOUS
<1>3. [i \in 1..2 |-> pair[i].value] = <<a.value, b.value>>
  OBVIOUS
<1> HIDE DEF pair
<1>4. QED
  <2>1. \/ /\ \A i \in 1..2 : Accepted(pair[i])
           /\ Collect(pair) = Ok([i \in 1..2 |-> pair[i].value])
        \/ \E i \in 1..2 : ~Accepted(pair[i]) /\ Collect(pair) = pair[i]
    BY <1>1, CollectResult, Zenon
  <2>2. QED
    BY <1>1, <1>2, <1>3, <2>1, Zenon DEF pair
-----------------------------------------------------------------------------
(* Times and durations.                                                    *)

\* The fields of ros::Time and of ros::Duration.
Seconds == 0..Power2[SecondBits] - 1
SignedSeconds == -Power2[SecondBits - 1]..Power2[SecondBits - 1] - 1

\* Their bounds as numbers.
LEMMA SecondsBounds ==
  /\ SecondBits \in 1..LongBits
  /\ \E power \in Nat : /\ power = Power2[SecondBits - 1] /\ NanosPerSecond \in 1..power
                         /\ Seconds = 0..2 * power - 1 /\ SignedSeconds = -power..power - 1
<1>1. SecondBits \in 1..LongBits /\ SecondBits - 1 \in Nat /\ (SecondBits - 1) + 1 = SecondBits
  BY PrimitivesAssumption
<1>2. PICK power \in Nat : power = Power2[SecondBits - 1] /\ Power2[SecondBits] = 2 * power
  BY <1>1, Power2Grows, Zenon
<1>3. NanosPerSecond \in 1..power
  BY <1>2, PrimitivesAssumption
<1>4. QED
  BY <1>1, <1>2, <1>3, Zenon DEF Seconds, SignedSeconds

\* A result that is refused, an integer of a set, or two of them.
IntegerOf(S, r) == r = codecError \/ \E n \in S : r = Ok(n)
PairOf(S, r) == r = codecError \/ \E m, n \in S : r = Ok(<<m, n>>)

\* Two integers that are read one after the other.
LEMMA PairResult ==
  ASSUME NEW S, NEW a, NEW b, IntegerOf(S, a), IntegerOf(S, b)
  PROVE  PairOf(S, Collect(<<a, b>>))
<1>1. ~Accepted(codecError) /\ \A n : Ok(n).value = n /\ Accepted(Ok(n))
  BY Zenon DEF Accepted, codecError, Error, Ok
<1>2. /\ Accepted(a) => a.value \in S
      /\ Accepted(b) => b.value \in S
      /\ ~Accepted(a) => a = codecError
      /\ ~Accepted(b) => b = codecError
  BY <1>1, Zenon DEF IntegerOf
<1>3. CASE Accepted(a) /\ Accepted(b) /\ Collect(<<a, b>>) = Ok(<<a.value, b.value>>)
  BY <1>2, <1>3, Zenon DEF PairOf
<1>4. CASE \E r \in {a, b} : ~Accepted(r) /\ Collect(<<a, b>>) = r
  BY <1>2, <1>4, Zenon DEF PairOf
<1>5. QED
  BY <1>3, <1>4, CollectPair, Zenon

\* What the two members are read as.
LEMMA StampResult ==
  ASSUME NEW value, IsItem(value)
  PROVE  /\ PairOf(Seconds, unsignedStamp(value))
         /\ PairOf(SignedSeconds, signedStamp(value))
<1>1. CASE ~hasStamp(value)
  BY <1>1, Zenon DEF unsignedStamp, signedStamp, PairOf
<1>2. CASE hasStamp(value)
  <2>1. IsScalar(value.members["secs"]) /\ IsScalar(value.members["nsecs"])
    BY <1>2, Zenon DEF IsItem, IsJson, hasStamp
  <2>2. SecondBits \in 1..LongBits
    BY SecondsBounds, Zenon
  <2>3. \A v : IsScalar(v) => /\ IntegerOf(Seconds, unsignedInteger(v, SecondBits))
                              /\ IntegerOf(SignedSeconds, signedInteger(v, SecondBits))
    BY <2>2, UnsignedIntegerExact, SignedIntegerExact, Zenon
       DEF Seconds, SignedSeconds, IntegerOf
  <2>4. /\ unsignedStamp(value) = Collect(<<unsignedInteger(value.members["secs"], SecondBits),
                                            unsignedInteger(value.members["nsecs"], SecondBits)>>)
        /\ signedStamp(value) = Collect(<<signedInteger(value.members["secs"], SecondBits),
                                          signedInteger(value.members["nsecs"], SecondBits)>>)
    BY <1>2, Zenon DEF unsignedStamp, signedStamp
  <2>5. QED
    BY <2>1, <2>3, <2>4, PairResult, Zenon
<1>3. QED
  BY <1>1, <1>2, Zenon

\* A JSON number that the type has is read as this number.
LEMMA NumberRead ==
  ASSUME NEW n \in Int
  PROVE  /\ n \in Seconds =>
              unsignedInteger([json |-> "integral", number |-> n], SecondBits) = Ok(n)
         /\ n \in SignedSeconds =>
              signedInteger([json |-> "integral", number |-> n], SecondBits) = Ok(n)
<1> DEFINE value == [json |-> "integral", number |-> n]
<1>1. IsScalar(value) /\ Denotes(value, n)
  BY Zenon DEF IsScalar, Denotes
<1>2. SecondBits \in 1..LongBits
  BY SecondsBounds, Zenon
<1> HIDE DEF value
<1>3. n \in Seconds => unsignedInteger(value, SecondBits) = Ok(n)
  BY <1>1, <1>2, UnsignedIntegerExact, Zenon DEF Seconds
<1>4. n \in SignedSeconds => signedInteger(value, SecondBits) = Ok(n)
  BY <1>1, <1>2, SignedIntegerExact, Zenon DEF SignedSeconds
<1>5. QED
  BY <1>3, <1>4, Zenon DEF value

\* A time has the seconds and the nanoseconds of roscpp.
LEMMA TimeResult ==
  ASSUME NEW value, IsItem(value)
  PROVE  \/ timeValue(value) = codecError
         \/ \E sec \in Seconds, nsec \in 0..NanosPerSecond - 1 : timeValue(value) = Ok(<<sec, nsec>>)
<1> DEFINE stamp == unsignedStamp(value)
<1>0. timeValue(value) = IF Accepted(stamp) /\ stamp.value[2] >= NanosPerSecond THEN codecError
                         ELSE stamp
  BY Zenon DEF timeValue
<1>1. stamp = codecError \/ \E sec, nsec \in Seconds : stamp = Ok(<<sec, nsec>>)
  BY StampResult, Zenon DEF PairOf
<1> HIDE DEF stamp
<1>2. CASE stamp = codecError
  BY <1>0, <1>2, Zenon
<1>3. CASE \E sec, nsec \in Seconds : stamp = Ok(<<sec, nsec>>)
  <2>1. PICK sec \in Seconds, nsec \in Seconds : stamp = Ok(<<sec, nsec>>)
    BY <1>3, Zenon
  <2>2. Accepted(stamp) /\ stamp.value[2] = nsec
    BY <2>1, Zenon DEF Accepted, Ok
  <2>3. nsec >= NanosPerSecond \/ nsec \in 0..NanosPerSecond - 1
    BY SecondsBounds
  <2>4. QED
    BY <1>0, <2>1, <2>2, <2>3, Zenon
<1>4. QED
  BY <1>1, <1>2, <1>3, Zenon

\* A duration too, with one exception: the constructor of ros::Duration throws on
\* the lowest second with negative nanoseconds.
LEMMA DurationResult ==
  ASSUME NEW value, IsItem(value)
  PROVE  \/ durationValue(value) = codecError
         \/ \E sec \in SignedSeconds, nsec \in 0..NanosPerSecond - 1 :
              durationValue(value) = Ok(<<sec, nsec>>)
         \/ /\ durationValue(value) = Error("runtime_error")
            /\ Accepted(signedStamp(value))
            /\ signedStamp(value).value[1] = -Power2[SecondBits - 1]
            /\ signedStamp(value).value[2] < 0
<1> DEFINE stamp == signedStamp(value)
<1>0. durationValue(value) =
        IF ~Accepted(stamp) THEN stamp
        ELSE IF stamp.value[2] \notin 1 - NanosPerSecond..NanosPerSecond - 1 THEN codecError
        ELSE rosDuration(stamp.value[1], stamp.value[2])
  BY Zenon DEF durationValue
<1>1. stamp = codecError \/ \E sec, nsec \in SignedSeconds : stamp = Ok(<<sec, nsec>>)
  BY StampResult, Zenon DEF PairOf
<1> HIDE DEF stamp
<1>2. CASE stamp = codecError
  <2>1. ~Accepted(stamp)
    BY <1>2, Zenon DEF Accepted, codecError, Error
  <2>2. QED
    BY <1>0, <1>2, <2>1, Zenon
<1>3. CASE \E sec, nsec \in SignedSeconds : stamp = Ok(<<sec, nsec>>)
  <2>1. PICK sec \in SignedSeconds, nsec \in SignedSeconds : stamp = Ok(<<sec, nsec>>)
    BY <1>3, Zenon
  <2>2. Accepted(stamp) /\ stamp.value[1] = sec /\ stamp.value[2] = nsec
    BY <2>1, Zenon DEF Accepted, Ok
  <2>3. CASE nsec \notin 1 - NanosPerSecond..NanosPerSecond - 1
    BY <1>0, <2>2, <2>3, Zenon
  <2>4. CASE nsec \in 1 - NanosPerSecond..NanosPerSecond - 1
    <3>1. durationValue(value) = rosDuration(sec, nsec)
      BY <1>0, <2>2, <2>4, Zenon
    <3>2. PICK power \in Nat : /\ power = Power2[SecondBits - 1] /\ NanosPerSecond \in 1..power
                               /\ SignedSeconds = -power..power - 1
      BY SecondsBounds, Zenon
    <3>3. PICK carry \in {-1, 0}, rest \in 0..NanosPerSecond - 1 :
            /\ carry = nsec \div NanosPerSecond /\ rest = nsec % NanosPerSecond
            /\ carry = -1 => nsec < 0
      <4>1. NanosPerSecond \in Nat \ {0} /\ nsec \in Int
        BY <2>4, <3>2
      <4>2. CASE nsec >= 0
        <5>1. nsec \div NanosPerSecond = 0 /\ nsec % NanosPerSecond = nsec
          BY <2>4, <4>1, <4>2
        <5>2. nsec \in 0..NanosPerSecond - 1 /\ 0 # -1
          BY <2>4, <4>1, <4>2
        <5>3. QED
          BY <5>1, <5>2, Zenon
      <4>3. CASE nsec < 0
        <5>1. nsec \div NanosPerSecond = -1 /\ nsec % NanosPerSecond = nsec + NanosPerSecond
          BY <2>4, <4>1, <4>3
        <5>2. nsec + NanosPerSecond \in 0..NanosPerSecond - 1
          BY <2>4, <4>1, <4>3
        <5>3. QED
          BY <4>3, <5>1, <5>2, Zenon
      <4>4. QED
        BY <4>1, <4>2, <4>3
    <3>4. CASE sec + carry \in SignedSeconds
      <4>1. rosDuration(sec, nsec) = Ok(<<sec + carry, rest>>)
        BY <3>3, <3>4, Zenon DEF rosDuration, SignedSeconds
      <4>2. QED
        BY <3>1, <3>4, <4>1, Zenon
    <3>5. CASE sec + carry \notin SignedSeconds
      <4>1. rosDuration(sec, nsec) = Error("runtime_error")
        BY <3>3, <3>5, Zenon DEF rosDuration, SignedSeconds
      <4>2. sec = -power /\ nsec < 0
        BY <3>2, <3>3, <3>5, SMTT(30)
      <4>3. QED
        BY <2>2, <3>1, <3>2, <4>1, <4>2, Zenon DEF stamp
    <3>6. QED
      BY <3>4, <3>5, Zenon
  <2>5. QED
    BY <2>3, <2>4, Zenon
<1>4. QED
  BY <1>1, <1>2, <1>3, Zenon
-----------------------------------------------------------------------------
(* Primitive values.                                                       *)

\* A value of its type, with the nanoseconds of roscpp.
Sound(m, type) == IsValue(m, type) /\ NormalValue(m, type)

\* ros::Duration throws on what the JSON value says.
Throws(value) ==
  /\ Accepted(signedStamp(value))
  /\ signedStamp(value).value[1] = -Power2[SecondBits - 1]
  /\ signedStamp(value).value[2] < 0

\* What a primitive may be read as.
PrimitiveOf(value, type, r) ==
  \/ r = codecError
  \/ \E m : r = Ok(m) /\ Sound(m, type)
  \/ type.type = "Duration" /\ r = Error("runtime_error") /\ Throws(value)

\* decodeValue accepts only values of the type.
LEMMA PrimitiveResult ==
  ASSUME NEW value, IsItem(value), NEW type, IsPrimitive(type)
  PROVE  PrimitiveOf(value, type, decodePrimitive(value, type))
<1> DEFINE read == decodePrimitive(value, type)
<1>0. IsScalar(value)
  BY Zenon DEF IsItem, IsJson
<1>1. CASE type.type \in {"Bool", "String"}
  <2>1. read \in {booleanValue(value), stringValue(value)}
    BY <1>1, Zenon DEF decodePrimitive
  <2>2. \A m : Sound(m, type)
    BY <1>1, Zenon DEF Sound, IsValue, NormalValue
  <2>3. QED
    BY <2>1, <2>2, Zenon DEF PrimitiveOf, booleanValue, stringValue
<1>2. CASE type.type \in {"UInt", "Int"}
  <2>1. \A n \in RangeOf(type) : Sound(n, type)
    BY <1>2, Zenon DEF Sound, IsValue, NormalValue
  <2>2. read = codecError \/ \E n \in RangeOf(type) : read = Ok(n)
    BY <1>0, <1>2, IntegerFieldExact, Zenon
  <2>3. QED
    BY <2>1, <2>2, Zenon DEF PrimitiveOf
<1>3. CASE type.type \in {"Float32", "Float64"}
  <2>1. read = floatingPoint(value, type.type)
    BY <1>3, Zenon DEF decodePrimitive
  <2>2. \/ floatingPoint(value, type.type) = codecError
        \/ floatingPoint(value, type.type) = Ok("float")
        \/ type.type # "Float32" /\ floatingPoint(value, type.type) = Ok("double")
    BY <1>0, Zenon DEF IsScalar, floatingPoint
  <2>3. Sound("float", type) /\ (type.type # "Float32" => Sound("double", type))
    BY <1>3, Zenon DEF Sound, IsValue, NormalValue
  <2>4. QED
    BY <2>1, <2>2, <2>3, Zenon DEF PrimitiveOf
<1>4. CASE type.type = "Time"
  <2>1. read = timeValue(value)
    BY <1>4, Zenon DEF decodePrimitive
  <2>2. ASSUME NEW sec \in Seconds, NEW nsec \in 0..NanosPerSecond - 1
        PROVE  Sound(<<sec, nsec>>, type)
    <3>1. nsec \in Seconds
      BY SecondsBounds, SMTT(30)
    <3>2. <<sec, nsec>>[1] = sec /\ <<sec, nsec>>[2] = nsec
      BY Zenon
    <3>3. IsStamp(<<sec, nsec>>, Seconds)
      BY <3>1, <3>2, Zenon DEF IsStamp
    <3>4. QED
      BY <1>4, <3>2, <3>3, Zenon DEF Sound, IsValue, NormalValue, Seconds
  <2>3. QED
    BY <2>1, <2>2, TimeResult, Zenon DEF PrimitiveOf
<1>5. CASE type.type = "Duration"
  <2>1. read = durationValue(value)
    BY <1>5, Zenon DEF decodePrimitive
  <2>2. ASSUME NEW sec \in SignedSeconds, NEW nsec \in 0..NanosPerSecond - 1
        PROVE  Sound(<<sec, nsec>>, type)
    <3>1. nsec \in SignedSeconds
      BY SecondsBounds, SMTT(30)
    <3>2. <<sec, nsec>>[1] = sec /\ <<sec, nsec>>[2] = nsec
      BY Zenon
    <3>3. IsStamp(<<sec, nsec>>, SignedSeconds)
      BY <3>1, <3>2, Zenon DEF IsStamp
    <3>4. QED
      BY <1>5, <3>2, <3>3, Zenon DEF Sound, IsValue, NormalValue, SignedSeconds
  <2>3. QED
    BY <1>5, <2>1, <2>2, DurationResult, Zenon DEF PrimitiveOf, Throws
<1>6. QED
  BY <1>1, <1>2, <1>3, <1>4, <1>5, Zenon DEF IsPrimitive

\* So is what a field holds that no member is given for.
LEMMA PrimitiveEmpty ==
  ASSUME NEW type, IsPrimitive(type)
  PROVE  Sound(emptyPrimitive(type), type)
<1>1. CASE type.type \in {"Bool", "String", "Float32", "Float64"}
  BY <1>1, Zenon DEF Sound, IsValue, NormalValue, emptyPrimitive
<1>2. CASE type.type \in {"UInt", "Int"}
  <2>1. LongBits \in Nat /\ type.bits \in Nat /\ type.bits - 1 \in Nat
    BY <1>2, PrimitivesAssumption DEF IsPrimitive
  <2>2. /\ Power2[type.bits] \in Nat \ {0}
        /\ Power2[type.bits - 1] \in Nat \ {0}
    BY <2>1, Power2Grows, Zenon
  <2>3. 0 \in RangeOf(type)
    BY <2>2 DEF RangeOf
  <2>4. QED
    BY <1>2, <2>3, Zenon DEF Sound, IsValue, NormalValue, emptyPrimitive
<1>3. CASE type.type \in {"Time", "Duration"}
  <2>1. 0 \in Seconds /\ 0 \in SignedSeconds /\ 0 \in 0..NanosPerSecond - 1
    BY SecondsBounds, SMTT(30)
  <2>2. <<0, 0>>[1] = 0 /\ <<0, 0>>[2] = 0
    BY Zenon
  <2>3. IsStamp(<<0, 0>>, Seconds) /\ IsStamp(<<0, 0>>, SignedSeconds)
    BY <2>1, <2>2, Zenon DEF IsStamp
  <2>4. QED
    BY <1>3, <2>1, <2>2, <2>3, Zenon
    DEF Sound, IsValue, NormalValue, emptyPrimitive, Seconds, SignedSeconds
<1>4. QED
  BY <1>1, <1>2, <1>3, Zenon DEF IsPrimitive

\* What encodeTime and encodeDuration write is read back.
LEMMA StampSurvives ==
  ASSUME NEW m, m[2] \in 0..NanosPerSecond - 1
  PROVE  /\ IsStamp(m, Seconds) => timeValue(encodeStamp(m)) = Ok(m)
         /\ IsStamp(m, SignedSeconds) => durationValue(encodeStamp(m)) = Ok(m)
<1> DEFINE value == encodeStamp(m)
<1>1. /\ value.json = "object" /\ DOMAIN value.members = {"secs", "nsecs"}
      /\ value.members["secs"] = [json |-> "integral", number |-> m[1]]
      /\ value.members["nsecs"] = [json |-> "integral", number |-> m[2]]
  BY Zenon DEF encodeStamp
<1>2. \A r, s : Collect(<<Ok(r), Ok(s)>>) = Ok(<<r, s>>)
  <2>1. \A r : Accepted(Ok(r)) /\ Ok(r).value = r
    BY Zenon DEF Accepted, Ok
  <2>2. TAKE r, s
  <2>3. PICK a, b : a = Ok(r) /\ b = Ok(s)
    BY Zenon
  <2>4. Accepted(a) /\ Accepted(b) /\ a.value = r /\ b.value = s
    BY <2>1, <2>3, Zenon
  <2>5. Collect(<<a, b>>) = Ok(<<a.value, b.value>>)
    BY <2>4, CollectPair
  <2>6. QED
    BY <2>3, <2>4, <2>5, Zenon
<1>3. Seconds \subseteq Int /\ SignedSeconds \subseteq Int
  BY SecondsBounds
<1>4. /\ Accepted(Ok(m)) /\ Ok(m).value = m /\ ~(m[2] >= NanosPerSecond)
      /\ m[2] \in 1 - NanosPerSecond..NanosPerSecond - 1
  BY SecondsBounds, SMTT(30) DEF Accepted, Ok
<1> HIDE DEF value
<1>5. ASSUME IsStamp(m, Seconds) PROVE timeValue(value) = Ok(m)
  <2>1. /\ unsignedInteger(value.members["secs"], SecondBits) = Ok(m[1])
        /\ unsignedInteger(value.members["nsecs"], SecondBits) = Ok(m[2])
    BY <1>1, <1>3, <1>5, NumberRead, Zenon DEF IsStamp
  <2>2. unsignedStamp(value) = Ok(<<m[1], m[2]>>)
    BY <1>1, <1>2, <2>1, Zenon DEF unsignedStamp, hasStamp
  <2>3. unsignedStamp(value) = Ok(m)
    BY <1>5, <2>2, Zenon DEF IsStamp
  <2>4. QED
    BY <1>4, <2>3, Zenon DEF timeValue
<1>6. ASSUME IsStamp(m, SignedSeconds) PROVE durationValue(value) = Ok(m)
  <2>1. /\ signedInteger(value.members["secs"], SecondBits) = Ok(m[1])
        /\ signedInteger(value.members["nsecs"], SecondBits) = Ok(m[2])
    BY <1>1, <1>3, <1>6, NumberRead, Zenon DEF IsStamp
  <2>2. signedStamp(value) = Ok(<<m[1], m[2]>>)
    BY <1>1, <1>2, <2>1, Zenon DEF signedStamp, hasStamp
  <2>3. signedStamp(value) = Ok(m)
    BY <1>6, <2>2, Zenon DEF IsStamp
  <2>4. durationValue(value) = rosDuration(m[1], m[2])
    BY <1>4, <2>3, Zenon DEF durationValue
  <2>5. PICK sec \in SignedSeconds, nsec \in 0..NanosPerSecond - 1 : sec = m[1] /\ nsec = m[2]
    BY <1>6, Zenon DEF IsStamp
  <2>6. sec + nsec \div NanosPerSecond = sec /\ nsec % NanosPerSecond = nsec
    <3>1. NanosPerSecond \in Nat \ {0} /\ nsec \in Nat /\ sec \in Int
      BY <1>3, SecondsBounds
    <3>2. nsec \div NanosPerSecond = 0 /\ nsec % NanosPerSecond = nsec
      BY <3>1
    <3>3. sec + 0 = sec
      BY <3>1
    <3>4. QED
      BY <3>2, <3>3, Zenon
  <2>7. rosDuration(sec, nsec) = Ok(<<sec, nsec>>)
    BY <2>6, Zenon DEF rosDuration, SignedSeconds
  <2>8. QED
    BY <1>6, <2>4, <2>5, <2>7, Zenon DEF IsStamp
<1>7. QED
  BY <1>5, <1>6, Zenon DEF value

\* What encodeInteger writes is read back.
LEMMA IntegerSurvives ==
  ASSUME NEW type, IsPrimitive(type), type.type \in {"UInt", "Int"}, NEW n \in RangeOf(type)
  PROVE  decodePrimitive(encodeInteger(n, type.bits), type) = Ok(n)
<1> DEFINE value == encodeInteger(n, type.bits)
<1>1. LongBits \in Nat /\ type.bits \in Nat /\ type.bits - 1 \in Nat
  BY PrimitivesAssumption DEF IsPrimitive
<1>2. n \in Int
  BY <1>1, Power2Def DEF RangeOf
<1>3. IsScalar(value) /\ Denotes(value, n)
  <2>1. CASE type.bits = LongBits
    <3>2. to_string(n) \in Seq(Int)
      <4>1. CASE n < 0
        <5>1. decimal[-n] \in Seq(Nat) /\ <<Minus>> \in Seq(Int)
          BY <1>2, <4>1, DecimalDef DEF Minus
        <5>2. QED
          BY <4>1, <5>1 DEF to_string
      <4>2. CASE ~(n < 0)
        <5>1. n \in Nat
          BY <1>2, <4>2
        <5>2. decimal[n] \in Seq(Nat)
          BY <5>1, DecimalDef, Zenon
        <5>3. QED
          BY <4>2, <5>2 DEF to_string
      <4>3. QED
        BY <4>1, <4>2, Zenon
    <3>3. value = [json |-> "string", text |-> to_string(n)]
      BY <2>1, Zenon DEF encodeInteger
    <3> HIDE DEF value
    <3>4. value.json = "string" /\ value.text = to_string(n)
      BY <3>3, Zenon
    <3>5. QED
      BY <3>2, <3>4, Zenon DEF IsScalar, Denotes
  <2>2. CASE type.bits # LongBits
    <3>1. value = [json |-> "integral", number |-> n]
      BY <2>2, Zenon DEF encodeInteger
    <3>2. QED
      BY <1>2, <3>1 DEF IsScalar, Denotes
  <2>3. QED
    BY <2>1, <2>2, Zenon
<1> HIDE DEF value
<1>4. PICK denoted : denoted = {k \in RangeOf(type) : Denotes(value, k)}
  BY Zenon
<1>5. \/ \E k \in RangeOf(type) : decodePrimitive(value, type) = Ok(k) /\ denoted = {k}
      \/ decodePrimitive(value, type) = codecError /\ denoted = {}
  BY <1>3, <1>4, IntegerFieldExact, Zenon
<1>6. n \in denoted
  BY <1>3, <1>4, Zenon
<1>7. decodePrimitive(value, type) = Ok(n)
  BY <1>5, <1>6, Zenon
<1>8. QED
  BY <1>7, Zenon DEF value

\* What encodeValue writes for a primitive, decodeValue reads back.
LEMMA PrimitiveSurvives ==
  ASSUME NEW type, IsPrimitive(type), NEW m, Sound(m, type), Accepted(encodePrimitive(m, type))
  PROVE  decodePrimitive(encodePrimitive(m, type).value, type) = Ok(m)
<1>0. \A v : Ok(v).value = v
  BY Zenon DEF Ok
<1>1. CASE type.type = "Bool"
  BY <1>1, Zenon DEF decodePrimitive, encodePrimitive, booleanValue, Ok
<1>2. CASE type.type = "String"
  BY <1>2, Zenon DEF decodePrimitive, encodePrimitive, stringValue, Ok
<1>3. CASE type.type \in {"Float32", "Float64"}
  <2>1. m # "inf" /\ encodePrimitive(m, type) = Ok([json |-> "real", class |-> m])
    BY <1>3, Zenon DEF encodePrimitive, Accepted, codecError, Error
  <2>2. m \in {"float", "double"} /\ (type.type = "Float32" => m = "float")
    BY <1>3, <2>1, Zenon DEF Sound, IsValue
  <2>3. decodePrimitive([json |-> "real", class |-> m], type) =
          floatingPoint([json |-> "real", class |-> m], type.type)
    BY <1>3, Zenon DEF decodePrimitive
  <2>4. floatingPoint([json |-> "real", class |-> m], type.type) = Ok(m)
    BY <2>2, Zenon DEF floatingPoint
  <2>5. QED
    BY <1>0, <2>1, <2>3, <2>4, Zenon
<1>4. CASE type.type \in {"UInt", "Int"}
  <2>1. encodePrimitive(m, type) = Ok(encodeInteger(m, type.bits))
    BY <1>4, Zenon DEF encodePrimitive
  <2>2. m \in RangeOf(type)
    BY <1>4, Zenon DEF Sound, IsValue
  <2>3. QED
    BY <1>0, <1>4, <2>1, <2>2, IntegerSurvives, Zenon
<1>5. CASE type.type \in {"Time", "Duration"}
  <2>1. encodePrimitive(m, type) = Ok(encodeStamp(m))
    BY <1>5, Zenon DEF encodePrimitive
  <2>2. /\ m[2] \in 0..NanosPerSecond - 1
        /\ type.type = "Time" => IsStamp(m, Seconds)
        /\ type.type = "Duration" => IsStamp(m, SignedSeconds)
    BY <1>5, Zenon DEF Sound, IsValue, NormalValue, Seconds, SignedSeconds
  <2>3. \A v : /\ type.type = "Time" => decodePrimitive(v, type) = timeValue(v)
               /\ type.type = "Duration" => decodePrimitive(v, type) = durationValue(v)
    BY Zenon DEF decodePrimitive
  <2>4. QED
    BY <1>0, <1>5, <2>1, <2>2, <2>3, StampSurvives, Zenon
<1>6. QED
  BY <1>1, <1>2, <1>3, <1>4, <1>5, Zenon DEF IsPrimitive
-----------------------------------------------------------------------------
(* The fields that have no compound in them.                               *)

\* A function on 1..n is a sequence of length n.
LEMMA SequenceLength ==
  ASSUME NEW f, NEW n \in Nat, f = [i \in 1..n |-> f[i]]
  PROVE  Len(f) = n /\ DOMAIN f = 1..n /\ (n = 0 => f = <<>>)
<1>1. PICK S : S = {f[i] : i \in 1..n}
  BY Zenon
<1>2. f \in [1..n -> S]
  BY <1>1, Zenon
<1>3. f \in Seq(S)
  BY <1>2
<1>4. Len(f) = n /\ DOMAIN f = 1..n
  BY <1>2, <1>3
<1>5. QED
  BY <1>3, <1>4

SoundField(m, type) == IsField(m, type) /\ NormalField(m, type)

\* What SoundField says of a primitive and of an array of them.
LEMMA SoundFieldIs ==
  ASSUME NEW type, NEW m
  PROVE  /\ IsPrimitive(type) => (SoundField(m, type) <=> Sound(m, type))
         /\ IsFlat(type) /\ type.type = "Array" =>
              (SoundField(m, type) <=>
                 /\ Len(m) \in Nat /\ m = [i \in 1..Len(m) |-> m[i]]
                 /\ type.length >= 0 => Len(m) = type.length
                 /\ \A i \in 1..Len(m) : Sound(m[i], type.element))
<1>1. ASSUME IsPrimitive(type) PROVE type.type # "Array"
  BY <1>1, Zenon DEF IsPrimitive
<1>2. ASSUME IsPrimitive(type) PROVE SoundField(m, type) <=> Sound(m, type)
  BY <1>1, <1>2, Zenon DEF SoundField, Sound, IsField, NormalField
<1>3. ASSUME IsFlat(type), type.type = "Array"
      PROVE  SoundField(m, type) <=>
                 /\ Len(m) \in Nat /\ m = [i \in 1..Len(m) |-> m[i]]
                 /\ type.length >= 0 => Len(m) = type.length
                 /\ \A i \in 1..Len(m) : Sound(m[i], type.element)
  <2>1. ~IsPrimitive(type)
    BY <1>1, <1>3, Zenon
  <2>2. CASE Len(m) \in Nat /\ m = [i \in 1..Len(m) |-> m[i]]
    <3>1. DOMAIN m = 1..Len(m)
      BY <2>2, SequenceLength, Zenon
    <3>2. QED
      BY <1>3, <2>1, <2>2, <3>1, Zenon DEF SoundField, Sound, IsField, NormalField
  <2>3. CASE ~(Len(m) \in Nat /\ m = [i \in 1..Len(m) |-> m[i]])
    BY <1>3, <2>3, Zenon DEF SoundField, IsField
  <2>4. QED
    BY <2>2, <2>3, Zenon
<1>4. QED
  BY <1>2, <1>3, Zenon

\* The level of the fields, for each sort of type.
LEMMA FieldLevel ==
  ASSUME NEW type
  PROVE  /\ IsPrimitive(type) =>
              /\ ~HasParts(type)
              /\ \A value, m : decodeField(value, type, m, 1) = decodePrimitive(value, type)
              /\ \A m : encodeField(m, type, 1) = encodePrimitive(m, type)
              /\ emptyField(type) = emptyPrimitive(type)
         /\ IsFlat(type) /\ type.type = "Array" =>
              /\ HasParts(type)
              /\ \A value, m : decodeField(value, type, m, 1) =
                   IF validateArrayInput(value, type, m)
                   THEN Collect([i \in DOMAIN value.items |->
                                   decodePrimitive(value.items[i], type.element)])
                   ELSE codecError
              /\ \A m : \E inner : encodeField(m, type, 1) = encodeArray(inner, m, type)
              /\ emptyField(type) = [i \in 1..type.length |-> emptyPrimitive(type.element)]
         /\ IsNested(type) => HasParts(type)
<1>0. 1 <= maximum_depth /\ ~(1 > maximum_depth)
  BY CodecAssumption
<1>1. ASSUME IsPrimitive(type)
      PROVE  /\ ~HasParts(type)
             /\ \A value, m : decodeField(value, type, m, 1) = decodePrimitive(value, type)
             /\ \A m : encodeField(m, type, 1) = encodePrimitive(m, type)
             /\ emptyField(type) = emptyPrimitive(type)
  <2>1. type.type # "Compound" /\ type.type # "Array" /\ ~HasParts(type)
    BY <1>1, Zenon DEF IsPrimitive, HasParts
  <2>2. QED
    BY <1>0, <2>1, Zenon
    DEF decodeField, decodeLevel, encodeField, encodeLevel, emptyField, emptyLevel
<1>2. ASSUME IsFlat(type), type.type = "Array"
      PROVE  /\ HasParts(type)
             /\ \A value, m : decodeField(value, type, m, 1) =
                  IF validateArrayInput(value, type, m)
                  THEN Collect([i \in DOMAIN value.items |->
                                  decodePrimitive(value.items[i], type.element)])
                  ELSE codecError
             /\ \A m : \E inner : encodeField(m, type, 1) = encodeArray(inner, m, type)
             /\ emptyField(type) = [i \in 1..type.length |-> emptyPrimitive(type.element)]
  <2>1. type.type # "Compound" /\ HasParts(type) /\ ~IsPrimitive(type)
    BY <1>2, Zenon DEF IsPrimitive, HasParts
  <2>2. IsPrimitive(type.element)
    BY <1>2, <2>1, Zenon DEF IsFlat
  <2>3. type.element.type # "Compound" /\ ~HasParts(type.element)
    BY <2>2, Zenon DEF IsPrimitive, HasParts
  <2>4. \A value, m : \E inner : decodeField(value, type, m, 1) = decodeArray(inner, value, type, m)
    BY <1>0, <1>2, <2>1, Zenon DEF decodeField, decodeLevel
  <2>5. \A inner, value, m : decodeArray(inner, value, type, m) =
                  IF validateArrayInput(value, type, m)
                  THEN Collect([i \in DOMAIN value.items |->
                                  decodePrimitive(value.items[i], type.element)])
                  ELSE codecError
    BY <2>3, Zenon DEF decodeArray
  <2>6. \A m : \E inner : encodeField(m, type, 1) = encodeArray(inner, m, type)
    BY <1>0, <1>2, <2>1, Zenon DEF encodeField, encodeLevel
  <2>7. emptyField(type) = [i \in 1..type.length |-> emptyPrimitive(type.element)]
    BY <1>2, <2>1, <2>3, Zenon DEF emptyField, emptyLevel
  <2>8. ASSUME NEW value, NEW m
        PROVE  decodeField(value, type, m, 1) =
                 IF validateArrayInput(value, type, m)
                 THEN Collect([i \in DOMAIN value.items |->
                                 decodePrimitive(value.items[i], type.element)])
                 ELSE codecError
    <3>1. PICK inner : decodeField(value, type, m, 1) = decodeArray(inner, value, type, m)
      BY <2>4, Zenon
    <3>2. QED
      BY <2>5, <3>1, Zenon
  <2>9. QED
    BY <2>1, <2>6, <2>7, <2>8, Zenon
<1>3. IsNested(type) => HasParts(type)
  BY Zenon DEF IsNested, HasParts
<1>4. QED
  BY <1>1, <1>2, <1>3, Zenon

\* What a flat field is read as is of its type.
LEMMA FlatRead ==
  ASSUME NEW type, IsFlat(type), NEW value, IsMember(value), NEW was,
         Accepted(decodeField(value, type, was, 1))
  PROVE  \E m : decodeField(value, type, was, 1) = Ok(m) /\ SoundField(m, type)
<1> DEFINE read == decodeField(value, type, was, 1)
<1>0. ~Accepted(codecError) /\ ~Accepted(Error("runtime_error"))
  BY Zenon DEF Accepted, codecError, Error
<1>1. CASE IsPrimitive(type)
  <2>1. read = decodePrimitive(value, type)
    BY <1>1, FieldLevel, Zenon
  <2>2. IsItem(value)
    BY Zenon DEF IsMember, IsItem, IsJson
  <2>3. QED
    BY <1>0, <1>1, <2>1, <2>2, PrimitiveResult, SoundFieldIs, Zenon DEF PrimitiveOf
<1>2. CASE type.type = "Array" /\ ~IsPrimitive(type)
  <2> DEFINE items == [i \in DOMAIN value.items |-> decodePrimitive(value.items[i], type.element)]
  <2>1. validateArrayInput(value, type, was) /\ read = Collect(items)
    BY <1>0, <1>2, FieldLevel, Zenon
  <2>2. IsPrimitive(type.element) /\ type.length \in Nat \cup {-1}
    BY <1>2, Zenon DEF IsFlat
  <2>3. PICK k \in Nat : /\ k = Len(value.items) /\ DOMAIN value.items = 1..k
                         /\ \A i \in 1..k : IsItem(value.items[i])
    BY <2>1, Zenon DEF validateArrayInput, IsMember, IsJson
  <2>4. DOMAIN items = 1..k /\ \A i \in 1..k : items[i] = decodePrimitive(value.items[i], type.element)
    BY <2>3, Zenon
  <2> HIDE DEF items
  <2>5. /\ \A i \in 1..k : Accepted(items[i])
        /\ read = Ok([i \in 1..k |-> items[i].value])
    BY <2>1, <2>4, CollectAccepted, Zenon
  <2>6. ASSUME NEW i \in 1..k PROVE Sound(items[i].value, type.element)
    <3>1. PrimitiveOf(value.items[i], type.element, items[i])
      BY <2>2, <2>3, <2>4, PrimitiveResult, Zenon
    <3>2. PICK m : items[i] = Ok(m) /\ Sound(m, type.element)
      BY <1>0, <2>5, <3>1, Zenon DEF PrimitiveOf
    <3>3. items[i].value = m
      BY <3>2 DEF Ok
    <3>4. QED
      BY <3>2, <3>3, Zenon
  <2>7. PICK m : m = [i \in 1..k |-> items[i].value]
    BY Zenon
  <2>8. /\ Len(m) = k /\ m = [i \in 1..Len(m) |-> m[i]]
        /\ \A i \in 1..Len(m) : Sound(m[i], type.element)
    <3>1. m = [i \in 1..k |-> m[i]] /\ \A i \in 1..k : m[i] = items[i].value
      BY <2>7, Zenon
    <3>2. Len(m) = k
      BY <3>1, SequenceLength, Zenon
    <3>3. QED
      BY <2>6, <3>1, <3>2, Zenon
  <2>9. type.length >= 0 => Len(m) = type.length
    BY <2>1, <2>3, <2>8, Zenon DEF validateArrayInput
  <2>10. SoundField(m, type)
    BY <1>2, <2>8, <2>9, SoundFieldIs, Zenon
  <2>11. QED
    BY <2>5, <2>7, <2>10, Zenon
<1>3. QED
  BY <1>1, <1>2, Zenon DEF IsFlat

\* So is a flat field that no member is given for.
LEMMA FlatEmpty ==
  ASSUME NEW type, IsFlat(type)
  PROVE  SoundField(emptyField(type), type)
<1>1. CASE IsPrimitive(type)
  BY <1>1, FieldLevel, PrimitiveEmpty, SoundFieldIs, Zenon
<1>2. CASE type.type = "Array" /\ ~IsPrimitive(type)
  <2>1. IsPrimitive(type.element) /\ type.length \in Nat \cup {-1}
    BY <1>2, Zenon DEF IsFlat
  <2>2. PICK k \in Nat : 1..k = 1..type.length /\ (type.length >= 0 => k = type.length)
    <3>1. CASE type.length \in Nat
      BY <3>1, Zenon
    <3>2. CASE type.length = -1
      <4>1. 1..0 = 1..type.length /\ ~(type.length >= 0) /\ 0 \in Nat
        BY <3>2
      <4>2. QED
        BY <4>1, Zenon
    <3>3. QED
      BY <2>1, <3>1, <3>2, Zenon
  <2>3. PICK m : m = emptyField(type) /\ m = [i \in 1..k |-> emptyPrimitive(type.element)]
    BY <1>2, <2>2, FieldLevel, Zenon
  <2>4. m = [i \in 1..k |-> m[i]] /\ \A i \in 1..k : m[i] = emptyPrimitive(type.element)
    BY <2>3, Zenon
  <2>5. Len(m) = k
    BY <2>4, SequenceLength, Zenon
  <2>6. \A i \in 1..k : Sound(m[i], type.element)
    BY <2>1, <2>4, PrimitiveEmpty, Zenon
  <2>7. QED
    BY <1>2, <2>2, <2>3, <2>4, <2>5, <2>6, SoundFieldIs, ZenonT(30)
<1>3. QED
  BY <1>1, <1>2, Zenon DEF IsFlat
\* What is written for a flat field is read back.
LEMMA FlatSurvives ==
  ASSUME NEW type, IsFlat(type), NEW m, SoundField(m, type), Accepted(encodeField(m, type, 1))
  PROVE  decodeField(encodeField(m, type, 1).value, type, emptyField(type), 1) = Ok(m)
<1>0. ~Accepted(codecError) /\ \A v : Ok(v).value = v
  BY Zenon DEF Accepted, codecError, Error, Ok
<1>1. CASE IsPrimitive(type)
  <2>1. Sound(m, type) /\ encodeField(m, type, 1) = encodePrimitive(m, type)
    BY <1>1, FieldLevel, SoundFieldIs, Zenon
  <2>2. decodePrimitive(encodePrimitive(m, type).value, type) = Ok(m)
    BY <1>1, <2>1, PrimitiveSurvives, Zenon
  <2>3. QED
    BY <1>1, <2>1, <2>2, FieldLevel, Zenon
<1>2. CASE type.type = "Array" /\ ~IsPrimitive(type)
  <2>1. IsPrimitive(type.element) /\ type.length \in Nat \cup {-1}
    BY <1>2, Zenon DEF IsFlat
  <2>2. type.element.type # "Compound"
    BY <2>1, Zenon DEF IsPrimitive
  <2>3. PICK k \in Nat : /\ k = Len(m) /\ m = [i \in 1..k |-> m[i]]
                         /\ type.length >= 0 => k = type.length
                         /\ \A i \in 1..k : Sound(m[i], type.element)
    BY <1>2, SoundFieldIs, Zenon
  <2>4. DOMAIN m = 1..k
    BY <2>3, SequenceLength, Zenon
  <2>5. PICK items : items = [i \in 1..k |-> encodePrimitive(m[i], type.element)]
    BY Zenon
  <2>6. DOMAIN items = 1..k /\ \A i \in 1..k : items[i] = encodePrimitive(m[i], type.element)
    BY <2>5, Zenon
  <2>7. /\ k <= maximum_array_elements /\ Accepted(Collect(items))
        /\ encodeField(m, type, 1) = Ok([json |-> "array", items |-> Collect(items).value])
    <3>1. PICK inner : encodeField(m, type, 1) = encodeArray(inner, m, type)
      BY <1>2, FieldLevel, Zenon
    <3>2. encodeArray(inner, m, type) =
            CASE Len(m) > maximum_array_elements -> codecError
              [] Len(m) <= maximum_array_elements /\ ~Accepted(Collect(items)) -> Collect(items)
              [] Len(m) <= maximum_array_elements /\ Accepted(Collect(items)) ->
                   Ok([json |-> "array", items |-> Collect(items).value])
      BY <2>2, <2>4, <2>5, Zenon DEF encodeArray
    <3>3. k > maximum_array_elements <=> ~(k <= maximum_array_elements)
      BY CodecAssumption
    <3>4. QED
      BY <1>0, <2>3, <3>1, <3>2, <3>3, Zenon
  <2>8. /\ \A i \in 1..k : Accepted(items[i])
        /\ Collect(items) = Ok([i \in 1..k |-> items[i].value])
    BY <2>6, <2>7, CollectAccepted, Zenon
  <2>9. PICK values : values = [i \in 1..k |-> items[i].value]
    BY Zenon
  <2>10. /\ values = [i \in 1..k |-> values[i]] /\ DOMAIN values = 1..k
         /\ \A i \in 1..k : values[i] = items[i].value
    BY <2>9, Zenon
  <2>11. Len(values) = k
    BY <2>10, SequenceLength, Zenon
  <2>12. PICK value : value = [json |-> "array", items |-> values]
    BY Zenon
  <2>13. /\ encodeField(m, type, 1).value = value
         /\ value.json = "array" /\ value.items = values
    <3>1. encodeField(m, type, 1) = Ok(value)
      BY <1>0, <2>7, <2>8, <2>9, <2>12, Zenon
    <3>2. value.json = "array" /\ value.items = values
      BY <2>12, Zenon
    <3>3. QED
      BY <1>0, <3>1, <3>2, Zenon
  <2>14. validateArrayInput(value, type, emptyField(type))
    <3>1. CASE type.length >= 0
      BY <2>3, <2>7, <2>11, <2>13, <3>1, Zenon DEF validateArrayInput
    <3>2. CASE ~(type.length >= 0)
      <4>1. 1..type.length = 1..0 /\ 0 \in Nat
        BY <2>1, <3>2
      <4>2. PICK e : /\ e = emptyField(type)
                     /\ e = [i \in 1..0 |-> emptyPrimitive(type.element)]
        BY <1>2, <4>1, FieldLevel, Zenon
      <4>3. e = [i \in 1..0 |-> e[i]]
        BY <4>2, Zenon
      <4>4. e = <<>>
        BY <4>1, <4>3, SequenceLength, Zenon
      <4>5. QED
        BY <2>7, <2>11, <2>13, <3>2, <4>2, <4>4, Zenon DEF validateArrayInput
    <3>3. QED
      BY <3>1, <3>2, Zenon
  <2>15. PICK reads : reads = [i \in 1..k |-> decodePrimitive(values[i], type.element)]
    BY Zenon
  <2>16. decodeField(value, type, emptyField(type), 1) = Collect(reads)
    BY <1>2, <2>10, <2>13, <2>14, <2>15, FieldLevel, Zenon
  <2>17. ASSUME NEW i \in 1..k PROVE reads[i] = Ok(m[i])
    <3>1. reads[i] = decodePrimitive(encodePrimitive(m[i], type.element).value, type.element)
      BY <2>6, <2>10, <2>15, Zenon
    <3>2. Accepted(encodePrimitive(m[i], type.element)) /\ Sound(m[i], type.element)
      BY <2>3, <2>6, <2>8, Zenon
    <3>3. QED
      BY <2>1, <3>1, <3>2, PrimitiveSurvives, Zenon
  <2>18. Collect(reads) = Ok(m)
    <3>1. DOMAIN reads = 1..k
      BY <2>15, Zenon
    <3>2. \A i \in 1..k : Accepted(reads[i]) /\ reads[i].value = m[i]
      <4>1. \A v : Accepted(Ok(v))
        BY Zenon DEF Accepted, Ok
      <4>2. QED
        BY <1>0, <2>17, <4>1, Zenon
    <3>3. Collect(reads) = Ok([i \in 1..k |-> reads[i].value])
      BY <3>1, <3>2, CollectAccepted, Zenon
    <3>4. [i \in 1..k |-> reads[i].value] = [i \in 1..k |-> m[i]]
      BY <3>2, Zenon
    <3>5. QED
      BY <2>3, <3>3, <3>4, Zenon
  <2>19. QED
    BY <2>13, <2>16, <2>18, Zenon
<1>3. QED
  BY <1>1, <1>2, Zenon DEF IsFlat

-----------------------------------------------------------------------------
(* Whole messages.                                                         *)

\* What becomes of the field i of a message.
fieldRead(value, type, i) ==
  IF type.fields[i].name \in DOMAIN value.members
  THEN decodeField(value.members[type.fields[i].name], type.fields[i].of, Empty(type)[i], 1)
  ELSE Ok(Empty(type)[i])
fieldWritten(m, type, i) == encodeField(m[i], type.fields[i].of, 1)

\* The level of a message.
LEMMA MessageLevel ==
  ASSUME NEW type, IsMessageType(type)
  PROVE  /\ Empty(type) = [i \in DOMAIN type.fields |-> emptyField(type.fields[i].of)]
         /\ \A value : decode(value, type) =
              IF value.json = "object" /\ DOMAIN value.members \subseteq Names(type.fields)
              THEN Collect([i \in DOMAIN type.fields |-> fieldRead(value, type, i)])
              ELSE codecError
         /\ \A m : encode(m, type) =
              encodeCompound([i \in DOMAIN type.fields |-> fieldWritten(m, type, i)], type)
<1>0. 0 <= maximum_depth /\ ~(0 > maximum_depth)
  BY CodecAssumption
<1>1. type.type = "Compound" /\ type.type # "Array" /\ HasParts(type)
  BY Zenon DEF IsMessageType, HasParts
<1>2. Empty(type) = [i \in DOMAIN type.fields |-> emptyField(type.fields[i].of)]
  BY <1>1, Zenon DEF Empty, emptyLevel, emptyCalls, PartType
<1>3. ASSUME NEW value
      PROVE  decode(value, type) =
               IF value.json = "object" /\ DOMAIN value.members \subseteq Names(type.fields)
               THEN Collect([i \in DOMAIN type.fields |-> fieldRead(value, type, i)])
               ELSE codecError
  <2> DEFINE given == {i \in DOMAIN type.fields : type.fields[i].name \in DOMAIN value.members}
             inner == [i \in given |-> decodeField(value.members[type.fields[i].name],
                                                   type.fields[i].of, Empty(type)[i], 1)]
             filled == [i \in DOMAIN type.fields |->
                          IF type.fields[i].name \in DOMAIN value.members THEN inner[i]
                          ELSE Ok(Empty(type)[i])]
  <2>1. decodeCalls(value, type) = given
    BY <1>1, Zenon DEF decodeCalls
  <2>2. [i \in decodeCalls(value, type) |->
           decodeField(PartValue(value, type, i), PartType(type, i),
                       PartMessage(Empty(type), type, i), 1)] = inner
    BY <1>1, <2>1, Zenon DEF PartValue, PartType, PartMessage
  <2>3. decode(value, type) = decodeLevel(inner, value, type, Empty(type), 0)
    BY <2>2, Zenon DEF decode
  <2>4. filled = [i \in DOMAIN type.fields |-> fieldRead(value, type, i)]
    BY Zenon DEF fieldRead
  <2> HIDE DEF inner
  <2>5. decodeLevel(inner, value, type, Empty(type), 0) =
          decodeCompound(inner, value, type, Empty(type))
    BY <1>0, <1>1, Zenon DEF decodeLevel
  <2>6. decodeCompound(inner, value, type, Empty(type)) =
          IF value.json = "object" /\ DOMAIN value.members \subseteq Names(type.fields)
          THEN Collect(filled) ELSE codecError
    BY Zenon DEF decodeCompound
  <2>7. QED
    BY <2>3, <2>4, <2>5, <2>6, Zenon
<1>4. ASSUME NEW m
      PROVE  encode(m, type) =
               encodeCompound([i \in DOMAIN type.fields |-> fieldWritten(m, type, i)], type)
  <2>1. [i \in encodeCalls(m, type) |-> encodeField(m[i], PartType(type, i), 1)] =
          [i \in DOMAIN type.fields |-> fieldWritten(m, type, i)]
    BY <1>1, Zenon DEF encodeCalls, PartType, fieldWritten
  <2>2. \A inner : encodeLevel(inner, m, type, 0) = encodeCompound(inner, type)
    BY <1>0, <1>1, Zenon DEF encodeLevel
  <2>3. QED
    BY <2>1, <2>2, Zenon DEF encode
<1>5. QED
  BY <1>2, <1>3, <1>4, Zenon

\* A message is accepted when all its fields are, and holds what they hold.
LEMMA MessageRead ==
  ASSUME NEW type, IsMessageType(type), NEW value, Accepted(decode(value, type))
  PROVE  /\ value.json = "object" /\ DOMAIN value.members \subseteq Names(type.fields)
         /\ \A i \in DOMAIN type.fields : Accepted(fieldRead(value, type, i))
         /\ decode(value, type) = Ok([i \in DOMAIN type.fields |-> fieldRead(value, type, i).value])
<1> DEFINE reads == [i \in DOMAIN type.fields |-> fieldRead(value, type, i)]
<1>0. ~Accepted(codecError)
  BY Zenon DEF Accepted, codecError, Error
<1>1. /\ value.json = "object" /\ DOMAIN value.members \subseteq Names(type.fields)
      /\ decode(value, type) = Collect(reads)
  BY <1>0, MessageLevel, Zenon
<1>2. PICK k \in Nat : DOMAIN type.fields = 1..k
  BY Zenon DEF IsMessageType
<1>3. DOMAIN reads = 1..k /\ \A i \in 1..k : reads[i] = fieldRead(value, type, i)
  BY <1>2, Zenon
<1> HIDE DEF reads
<1>4. /\ \A i \in 1..k : Accepted(reads[i])
      /\ Collect(reads) = Ok([i \in 1..k |-> reads[i].value])
  BY <1>1, <1>2, <1>3, CollectAccepted, Zenon
<1>5. [i \in 1..k |-> reads[i].value] = [i \in 1..k |-> fieldRead(value, type, i).value]
  BY <1>3, Zenon
<1>6. QED
  BY <1>1, <1>2, <1>3, <1>4, <1>5, Zenon

\* When it is refused, it is for its members or for one of its fields.
LEMMA MessageRefused ==
  ASSUME NEW type, IsMessageType(type), NEW value, ~Accepted(decode(value, type))
  PROVE  \/ /\ decode(value, type) = codecError
            /\ ~(value.json = "object" /\ DOMAIN value.members \subseteq Names(type.fields))
         \/ \E i \in DOMAIN type.fields :
              /\ value.json = "object" /\ type.fields[i].name \in DOMAIN value.members
              /\ decode(value, type) = decodeField(value.members[type.fields[i].name],
                                                   type.fields[i].of, Empty(type)[i], 1)
<1> DEFINE reads == [i \in DOMAIN type.fields |-> fieldRead(value, type, i)]
<1>1. CASE ~(value.json = "object" /\ DOMAIN value.members \subseteq Names(type.fields))
  BY <1>1, MessageLevel, Zenon
<1>2. CASE value.json = "object" /\ DOMAIN value.members \subseteq Names(type.fields)
  <2>1. decode(value, type) = Collect(reads)
    BY <1>2, MessageLevel, Zenon
  <2>2. PICK k \in Nat : DOMAIN type.fields = 1..k
    BY Zenon DEF IsMessageType
  <2>3. DOMAIN reads = 1..k /\ \A i \in 1..k : reads[i] = fieldRead(value, type, i)
    BY <2>2, Zenon
  <2> HIDE DEF reads
  <2>4. PICK i \in 1..k : ~Accepted(reads[i]) /\ Collect(reads) = reads[i]
    <3>1. \A v : Accepted(Ok(v))
      BY Zenon DEF Accepted, Ok
    <3>2. QED
      BY <2>1, <2>3, <3>1, CollectResult, Zenon
  <2>5. \A v : Accepted(Ok(v))
    BY Zenon DEF Accepted, Ok
  <2>6. /\ type.fields[i].name \in DOMAIN value.members
        /\ reads[i] = decodeField(value.members[type.fields[i].name], type.fields[i].of,
                                  Empty(type)[i], 1)
    BY <2>3, <2>4, <2>5, Zenon DEF fieldRead
  <2>7. QED
    BY <1>2, <2>1, <2>2, <2>4, <2>6, Zenon
<1>3. QED
  BY <1>1, <1>2, Zenon
\* A field is read back from what is written for it.
FieldSurvives(m, type, i) ==
  Accepted(fieldWritten(m, type, i)) =>
    decodeField(fieldWritten(m, type, i).value, type.fields[i].of, Empty(type)[i], 1) = Ok(m[i])

\* The fields with compounds in them are.
NestedSurvives(m, type) ==
  \A i \in DOMAIN type.fields : IsNested(type.fields[i].of) => FieldSurvives(m, type, i)

\* A message of its type, with the nanoseconds of roscpp.
SoundMessage(m, type) ==
  /\ m = [i \in DOMAIN type.fields |-> m[i]]
  /\ \A i \in DOMAIN type.fields : IsFlat(type.fields[i].of) => SoundField(m[i], type.fields[i].of)

\* What decode accepts is such a message.
LEMMA DecodedSound ==
  ASSUME NEW type, IsMessageType(type), NEW value, IsJson(IsMember, value),
         Accepted(decode(value, type))
  PROVE  /\ decode(value, type) = Ok(decode(value, type).value)
         /\ SoundMessage(decode(value, type).value, type)
<1>0. \A v : Ok(v).value = v
  BY Zenon DEF Ok
<1>1. PICK m : /\ decode(value, type) = Ok(m)
               /\ m = [i \in DOMAIN type.fields |-> fieldRead(value, type, i).value]
  BY MessageRead, Zenon
<1>2. decode(value, type).value = m
  BY <1>0, <1>1, Zenon
<1>3. /\ m = [i \in DOMAIN type.fields |-> m[i]]
      /\ \A i \in DOMAIN type.fields : m[i] = fieldRead(value, type, i).value
  BY <1>1, Zenon
<1>4. ASSUME NEW i \in DOMAIN type.fields, IsFlat(type.fields[i].of)
      PROVE  SoundField(m[i], type.fields[i].of)
  <2>1. Accepted(fieldRead(value, type, i)) /\ value.json = "object"
    BY MessageRead, Zenon
  <2>2. CASE type.fields[i].name \in DOMAIN value.members
    <3>1. IsMember(value.members[type.fields[i].name])
      BY <2>1, <2>2, Zenon DEF IsJson
    <3>2. fieldRead(value, type, i) = decodeField(value.members[type.fields[i].name],
                                                  type.fields[i].of, Empty(type)[i], 1)
      BY <2>2, Zenon DEF fieldRead
    <3>3. PICK v : fieldRead(value, type, i) = Ok(v) /\ SoundField(v, type.fields[i].of)
      BY <1>4, <2>1, <3>1, <3>2, FlatRead, Zenon
    <3>4. QED
      BY <1>0, <1>3, <3>3, Zenon
  <2>3. CASE type.fields[i].name \notin DOMAIN value.members
    <3>1. fieldRead(value, type, i) = Ok(Empty(type)[i])
      BY <2>3, Zenon DEF fieldRead
    <3>2. Empty(type)[i] = emptyField(type.fields[i].of)
      BY MessageLevel, Zenon
    <3>3. QED
      BY <1>0, <1>3, <1>4, <3>1, <3>2, FlatEmpty, Zenon
  <2>4. QED
    BY <2>2, <2>3, Zenon
<1>5. QED
  BY <1>1, <1>2, <1>3, <1>4, Zenon DEF SoundMessage

\* The members that encode writes are those of the fields.
LEMMA MessageWritten ==
  ASSUME NEW type, IsMessageType(type), NEW m, Accepted(encode(m, type))
  PROVE  /\ encode(m, type).value.json = "object"
         /\ DOMAIN encode(m, type).value.members = Names(type.fields)
         /\ \A i \in DOMAIN type.fields :
              /\ Accepted(fieldWritten(m, type, i))
              /\ encode(m, type).value.members[type.fields[i].name] = fieldWritten(m, type, i).value
<1> DEFINE fields == type.fields
           written == [i \in DOMAIN fields |-> fieldWritten(m, type, i)]
           at(name) == CHOOSE i \in DOMAIN fields : fields[i].name = name
           members == [n \in Names(fields) |-> Collect(written).value[at(n)]]
<1>0. \A v : Ok(v).value = v
  BY Zenon DEF Ok
<1>1. encode(m, type) =
        IF Accepted(Collect(written)) THEN Ok([json |-> "object", members |-> members])
        ELSE Collect(written)
  <2>1. encode(m, type) = encodeCompound(written, type)
    BY MessageLevel, Zenon
  <2>2. QED
    BY <2>1, Zenon DEF encodeCompound
<1>2. PICK k \in Nat : DOMAIN fields = 1..k
  BY Zenon DEF IsMessageType
<1>3. DOMAIN written = 1..k /\ \A i \in 1..k : written[i] = fieldWritten(m, type, i)
  BY <1>2, Zenon
<1>4. /\ DOMAIN members = Names(fields)
      /\ \A n \in Names(fields) : members[n] = Collect(written).value[at(n)]
  BY Zenon
<1>5. ASSUME NEW i \in DOMAIN fields PROVE at(fields[i].name) = i /\ fields[i].name \in Names(fields)
  <2>1. \A j \in DOMAIN fields : fields[j].name = fields[i].name => j = i
    BY Zenon DEF IsMessageType
  <2>2. QED
    BY <2>1, Zenon DEF Names
<1> HIDE DEF written, members, at
<1>6. /\ \A i \in 1..k : Accepted(written[i])
      /\ Collect(written) = Ok([i \in 1..k |-> written[i].value])
  BY <1>1, <1>3, CollectAccepted, Zenon
<1>7. encode(m, type) = Ok([json |-> "object", members |-> members])
  BY <1>1, Zenon
<1>8. PICK value : value = [json |-> "object", members |-> members]
  BY Zenon
<1>9. encode(m, type).value = value /\ value.json = "object" /\ value.members = members
  <2>1. value.json = "object" /\ value.members = members
    BY <1>8, Zenon
  <2>2. QED
    BY <1>0, <1>7, <1>8, <2>1, Zenon
<1>10. PICK values : Collect(written).value = values /\ \A i \in 1..k : values[i] = written[i].value
  <2>1. PICK values : values = [i \in 1..k |-> written[i].value]
    BY Zenon
  <2>2. Collect(written).value = values
    BY <1>0, <1>6, <2>1, Zenon
  <2>3. \A i \in 1..k : values[i] = written[i].value
    BY <2>1, Zenon
  <2>4. QED
    BY <2>2, <2>3, Zenon
<1>11. QED
  BY <1>2, <1>3, <1>4, <1>5, <1>6, <1>9, <1>10, ZenonT(40)

\* What encode writes, decode reads back, when this holds of what is nested.
LEMMA MessageSurvives ==
  ASSUME NEW type, IsMessageType(type), NEW m, SoundMessage(m, type), NestedSurvives(m, type)
  PROVE  Survives(m, type)
<1> SUFFICES ASSUME Accepted(encode(m, type))
             PROVE  decode(encode(m, type).value, type) = Ok(m)
  BY Zenon DEF Survives
<1>0. \A v : Ok(v).value = v /\ Accepted(Ok(v))
  BY Zenon DEF Ok, Accepted
<1>1. PICK value : value = encode(m, type).value
  BY Zenon
<1>2. PICK k \in Nat : DOMAIN type.fields = 1..k
  BY Zenon DEF IsMessageType
<1>3. PICK reads : reads = [i \in DOMAIN type.fields |-> fieldRead(value, type, i)]
  BY Zenon
<1>4. decode(value, type) = Collect(reads)
  <2>1. value.json = "object" /\ DOMAIN value.members \subseteq Names(type.fields)
    BY <1>1, MessageWritten, Zenon
  <2>2. QED
    BY <1>3, <2>1, MessageLevel, Zenon
<1>5. ASSUME NEW i \in DOMAIN type.fields PROVE reads[i] = Ok(m[i])
  <2>1. type.fields[i].name \in DOMAIN value.members
    BY <1>1, MessageWritten, Zenon DEF Names
  <2>2. reads[i] = decodeField(fieldWritten(m, type, i).value, type.fields[i].of, Empty(type)[i], 1)
    BY <1>1, <1>3, <2>1, MessageWritten, Zenon DEF fieldRead
  <2>3. Accepted(fieldWritten(m, type, i))
    BY MessageWritten, Zenon
  <2>4. CASE IsNested(type.fields[i].of)
    BY <2>2, <2>3, <2>4, Zenon DEF NestedSurvives, FieldSurvives
  <2>5. CASE IsFlat(type.fields[i].of)
    <3>1. SoundField(m[i], type.fields[i].of)
      BY <2>5, Zenon DEF SoundMessage
    <3>2. Empty(type)[i] = emptyField(type.fields[i].of)
      BY MessageLevel, Zenon
    <3>3. QED
      BY <2>2, <2>3, <2>5, <3>1, <3>2, FlatSurvives, Zenon DEF fieldWritten
  <2>6. QED
    BY <2>4, <2>5, Zenon DEF IsMessageType
<1>6. DOMAIN reads = 1..k /\ \A i \in 1..k : Accepted(reads[i]) /\ reads[i].value = m[i]
  BY <1>0, <1>2, <1>3, <1>5, Zenon
<1>7. Collect(reads) = Ok([i \in 1..k |-> reads[i].value])
  BY <1>6, CollectAccepted, Zenon
<1>8. [i \in 1..k |-> reads[i].value] = m
  <2>1. [i \in 1..k |-> reads[i].value] = [i \in 1..k |-> m[i]]
    BY <1>6, Zenon
  <2>2. QED
    BY <1>2, <2>1, Zenon DEF SoundMessage
<1>9. QED
  BY <1>1, <1>4, <1>7, <1>8, Zenon
-----------------------------------------------------------------------------
(* The call.                                                               *)

\* What the codec makes of the request.
parsed == decode(document.value, document.type)

\* A message is decoded before anything is sent, and stays what the codec made
\* of the request; a call that the codec refused is over.
DataInv ==
  /\ document \in {input.document : input \in Inputs}
  /\ ~decoded => sent = NoFrame /\ step \in {"parse", "prepare", "done"}
  /\ decoded => codec_error = "none" /\ Accepted(parsed) /\ message = parsed.value
  /\ codec_error # "none" => /\ ~decoded /\ step = "done" /\ ~Accepted(parsed)
                             /\ codec_error = parsed.error /\ ending = failure(codec_error)
  /\ ending = "succeeded" => step = "done" /\ response \in WireMessages(document.type)

\* It holds at first.
LEMMA DataInitially == DataInit => DataInv
BY Zenon DEF DataInit, FramesInit, DataInv

\* It is kept by every step.
LEMMA DataStep == DataInv /\ [DataNext]_all_vars => DataInv'
<1> SUFFICES ASSUME DataInv, [DataNext]_all_vars PROVE DataInv'
  BY Zenon
<1>1. ASSUME DecodeRequest PROVE DataInv'
  <2>0. UNCHANGED <<document, response, result>> /\ parsed' = parsed
    BY <1>1, Zenon DEF DecodeRequest, parsed
  <2>1. step = "prepare" /\ ~decoded /\ codec_error = "none" /\ sent = NoFrame /\ ending # "succeeded"
    BY <1>1, Zenon DEF DecodeRequest, DataInv
  <2>2. CASE document.known /\ Accepted(parsed)
    <3>1. decoded' = TRUE /\ message' = parsed.value /\ UNCHANGED <<step, sent, ending, codec_error>>
      BY <1>1, <2>2, Zenon DEF DecodeRequest, parsed, frame_vars
    <3>2. QED
      BY <2>0, <2>1, <2>2, <3>1, Zenon DEF DataInv
  <2>3. CASE ~(document.known /\ Accepted(parsed))
    <3>1. /\ RefusePayload /\ UNCHANGED <<decoded, message>>
          /\ ending' = IF document.known THEN failure(parsed.error) ELSE "permanent"
          /\ codec_error' = IF document.known THEN parsed.error ELSE "none"
      BY <1>1, <2>3, Zenon DEF DecodeRequest, parsed
    <3>2. step' = "done" /\ sent' = sent /\ ending' # "succeeded"
      BY <3>1, Zenon DEF RefusePayload, End
    <3>3. CASE document.known
      <4>1. ending' = failure(codec_error') /\ codec_error' = parsed.error /\ ~Accepted(parsed)
        BY <2>3, <3>1, <3>3, Zenon
      <4>2. failure(codec_error)' = failure(codec_error')
        BY Zenon DEF failure
      <4>3. QED
        BY <2>0, <2>1, <3>1, <3>2, <4>1, <4>2, Zenon DEF DataInv
    <3>4. CASE ~document.known
      <4>1. codec_error' = "none"
        BY <3>1, <3>4, Zenon
      <4>2. QED
        BY <2>0, <2>1, <3>1, <3>2, <4>1, Zenon DEF DataInv
    <3>5. QED
      BY <3>3, <3>4, Zenon
  <2>4. QED
    BY <2>2, <2>3, Zenon
<1>2. ASSUME EncodeResponse PROVE DataInv'
  <2>0. UNCHANGED <<document, decoded, message, codec_error>> /\ parsed' = parsed
    BY <1>2, Zenon DEF EncodeResponse, parsed
  <2>1. step = "result" /\ step' = "done" /\ sent' = sent
    BY <1>2, Zenon DEF EncodeResponse, Finish, End
  <2>2. decoded /\ codec_error = "none"
    BY <2>1, Zenon DEF DataInv
  <2>3. ending' = "succeeded" => response' \in WireMessages(document.type)
    BY <1>2, Zenon DEF EncodeResponse
  <2>4. QED
    BY <2>0, <2>1, <2>2, <2>3, Zenon DEF DataInv
<1>3. ASSUME UNCHANGED data_vars, Parse PROVE DataInv'
  <2>0. UNCHANGED <<document, decoded, message, response, codec_error>> /\ parsed' = parsed
    BY <1>3, Zenon DEF data_vars, parsed
  <2>1. /\ step = "parse" /\ step' \in {"prepare", "done"} /\ sent' = sent
        /\ ending' = ending \/ ending' = "permanent"
    BY <1>3, Zenon DEF Parse, End
  <2>2. codec_error = "none" /\ ending # "succeeded" /\ ending' # "succeeded"
    BY <2>1, Zenon DEF DataInv
  <2>3. ~decoded => sent = NoFrame /\ step' \in {"parse", "prepare", "done"}
    BY <2>1, Zenon DEF DataInv
  <2>4. QED
    BY <2>0, <2>1, <2>2, <2>3, Zenon DEF DataInv
<1>4. ASSUME UNCHANGED data_vars,
             \/ decoded /\ Prepare
             \/ WriteRequest \/ HelperReads \/ HelperAnswers \/ WriteCommit \/ HelperCalls
             \/ TakeResponse
      PROVE  DataInv'
  <2>0. UNCHANGED <<document, decoded, message, response, codec_error>> /\ parsed' = parsed
    BY <1>4, Zenon DEF data_vars, parsed
  <2>1. /\ step \notin {"parse", "done"} /\ (step = "prepare" => decoded)
        /\ ending' \in {ending, "permanent", "transient", "uncertain"}
    BY <1>4, Zenon
       DEF Prepare, WriteRequest, HelperReads, HelperAnswers, WriteCommit, HelperCalls,
                TakeResponse, End
  <2>2. decoded /\ codec_error = "none" /\ ending # "succeeded" /\ ending' # "succeeded"
    BY <2>1, Zenon DEF DataInv
  <2>3. QED
    BY <2>0, <2>2, Zenon DEF DataInv
<1>5. CASE UNCHANGED all_vars
  <2>1. /\ UNCHANGED <<document, decoded, message, response, codec_error, step, sent, ending>>
        /\ parsed' = parsed /\ failure(codec_error)' = failure(codec_error)
    BY <1>5, Zenon DEF all_vars, data_vars, frame_vars, parsed, failure
  <2>2. QED
    BY <2>1, Zenon DEF DataInv
<1>6. QED
  BY <1>1, <1>2, <1>3, <1>4, <1>5, Zenon DEF DataNext

\* So it is an invariant.
LEMMA DataInvariant == DataSpec => []DataInv
BY DataInitially, DataStep, PTL DEF DataSpec

\* The document of a call is one of the inputs.
LEMMA DocumentTyped ==
  ASSUME DataInv
  PROVE  /\ IsMessageType(document.type) /\ IsJson(IsMember, document.value)
         /\ \A m \in WireMessages(document.type) :
              /\ m = [i \in DOMAIN document.type.fields |-> m[i]]
              /\ \A i \in DOMAIN document.type.fields : IsField(m[i], document.type.fields[i].of)
<1>1. PICK input \in Inputs : document = input.document
  BY Zenon DEF DataInv
<1>2. \A m \in WireMessages(document.type) :
        m = [i \in DOMAIN document.type.fields |-> m[i]] => DOMAIN m = DOMAIN document.type.fields
  BY Zenon
<1>3. QED
  BY <1>1, <1>2, InputsAssumption, Zenon
\* IntegersExact for integers of all widths and texts of all lengths: JsonCodec
\* accepts for an integer field exactly what stands for an integer of its type,
\* and takes it for that integer.
THEOREM IntegersAreExact == DataSpec => []IntegersExact
<1>1. ASSUME DataInv PROVE IntegersExact
  <2> SUFFICES ASSUME NEW i \in DOMAIN Fields, Fields[i].of.type \in {"UInt", "Int"}, Given(i),
                      NEW denoted,
                      denoted = {n \in RangeOf(Fields[i].of) : Denotes(Member(i), n)}
               PROVE  /\ decoded => denoted = {message[i]}
                      /\ (codec_error # "none" /\ Len(Fields) = 1
                            /\ DOMAIN document.value.members = {Fields[i].name}) => denoted = {}
    BY Zenon DEF IntegersExact
  <2> DEFINE type == document.type
             value == document.value
             of == type.fields[i].of
             read == decodePrimitive(Member(i), of)
  <2>1. IsMessageType(type) /\ IsJson(IsMember, value) /\ i \in DOMAIN type.fields
    BY <1>1, DocumentTyped, Zenon DEF Fields
  <2>2. IsPrimitive(of)
    <3>1. of.type \in {"UInt", "Int"}
      BY Zenon DEF Fields
    <3>2. of.type # "Compound" /\ of.type # "Array"
      BY <3>1, Zenon
    <3>3. QED
      BY <2>1, <3>2, Zenon DEF IsMessageType, IsFlat, IsNested
  <2>3. /\ value.json = "object" /\ type.fields[i].name \in DOMAIN value.members
        /\ Member(i) = value.members[type.fields[i].name]
    BY Zenon DEF Given, Member, Fields
  <2>4. IsScalar(Member(i))
    BY <2>1, <2>3, Zenon DEF IsJson, IsMember
  <2>5. fieldRead(value, type, i) = read
    BY <2>2, <2>3, FieldLevel, Zenon DEF fieldRead
  <2>6. \/ \E n \in RangeOf(of) : read = Ok(n) /\ denoted = {n}
        \/ read = codecError /\ denoted = {}
    BY <2>2, <2>4, IntegerFieldExact, Zenon DEF Fields
  <2>7. ~Accepted(codecError) /\ \A v : Ok(v).value = v /\ Accepted(Ok(v))
    BY Zenon DEF Accepted, codecError, Error, Ok
  <2> HIDE DEF read
  <2>8. ASSUME decoded PROVE denoted = {message[i]}
    <3>1. Accepted(decode(value, type)) /\ message = decode(value, type).value
      BY <1>1, <2>8, Zenon DEF DataInv, parsed
    <3>2. Accepted(read)
      BY <2>1, <2>5, <3>1, MessageRead, Zenon
    <3>3. PICK m : /\ m = [j \in DOMAIN type.fields |-> fieldRead(value, type, j).value]
                   /\ decode(value, type) = Ok(m)
      BY <2>1, <3>1, MessageRead, Zenon
    <3>4. message = m /\ m[i] = fieldRead(value, type, i).value
      BY <2>1, <2>7, <3>1, <3>3, Zenon
    <3>5. message[i] = read.value
      BY <2>5, <3>4, Zenon
    <3>6. PICK n : read = Ok(n) /\ denoted = {n}
      BY <2>6, <2>7, <3>2, Zenon
    <3>7. QED
      BY <2>7, <3>5, <3>6, Zenon
  <2>9. ASSUME codec_error # "none", Len(Fields) = 1,
               DOMAIN value.members = {type.fields[i].name}
        PROVE  denoted = {}
    <3>1. ~Accepted(decode(value, type))
      BY <1>1, <2>9, Zenon DEF DataInv, parsed
    <3>2. \A j \in DOMAIN type.fields : j = i
      <4>1. DOMAIN type.fields = 1..1
        BY <2>1, <2>9, Zenon DEF IsMessageType, Fields
      <4>2. \A j, k \in 1..1 : j = k
        OBVIOUS
      <4>3. QED
        BY <2>1, <4>1, <4>2, Zenon
    <3>3. DOMAIN value.members \subseteq Names(type.fields)
      BY <2>1, <2>9, Zenon DEF Names
    <3>4. PICK j \in DOMAIN type.fields :
            /\ type.fields[j].name \in DOMAIN value.members
            /\ decode(value, type) = decodeField(value.members[type.fields[j].name],
                                                 type.fields[j].of, Empty(type)[j], 1)
      BY <2>1, <2>3, <3>1, <3>3, MessageRefused, Zenon
    <3>5. decode(value, type) = fieldRead(value, type, i)
      BY <3>2, <3>4, Zenon DEF fieldRead
    <3>6. ~Accepted(read)
      BY <2>5, <3>1, <3>5, Zenon
    <3>7. QED
      BY <2>6, <2>7, <3>6, Zenon
  <2>10. QED
    BY <2>8, <2>9, Zenon DEF Fields
<1>2. QED
  BY <1>1, DataInvariant, PTL

\* BadPayloadIsPermanent for all types and documents: CallService reports what
\* JsonCodec refuses as permanent and before a frame is sent, but for what the
\* constructor of ros::Duration throws.
THEOREM BadPayloadsArePermanent == DataSpec => []BadPayloadIsPermanent
<1>1. ASSUME DataInv PROVE BadPayloadIsPermanent
  <2> SUFFICES ASSUME codec_error # "none"
               PROVE  /\ sent = NoFrame
                      /\ \/ ending = "permanent"
                         \/ \E i \in DOMAIN Fields :
                              Fields[i].of.type = "Duration" /\ Given(i) /\ Throws(Member(i))
                         \/ \E i \in DOMAIN Fields :
                              /\ HasParts(Fields[i].of) /\ Given(i)
                              /\ decodeField(Member(i), Fields[i].of, Empty(document.type)[i], 1).error
                                   = "runtime_error"
    BY Zenon DEF BadPayloadIsPermanent, Throws
  <2> DEFINE type == document.type
             value == document.value
  <2>1. IsMessageType(type) /\ IsJson(IsMember, value)
    BY <1>1, DocumentTyped, Zenon
  <2>2. /\ sent = NoFrame /\ ~Accepted(decode(value, type))
        /\ codec_error = decode(value, type).error /\ ending = failure(codec_error)
    BY <1>1, Zenon DEF DataInv, parsed
  <2>3. CASE codec_error # "runtime_error"
    BY <2>2, <2>3, Zenon DEF failure
  <2>4. CASE codec_error = "runtime_error"
    <3>1. codecError.error # "runtime_error"
      BY Zenon DEF codecError, Error
    <3>2. PICK i \in DOMAIN type.fields :
            /\ value.json = "object" /\ type.fields[i].name \in DOMAIN value.members
            /\ decode(value, type) = decodeField(value.members[type.fields[i].name],
                                                 type.fields[i].of, Empty(type)[i], 1)
      BY <2>1, <2>2, <2>4, <3>1, MessageRefused, Zenon
    <3>3. /\ i \in DOMAIN Fields /\ Given(i) /\ Fields[i].of = type.fields[i].of
          /\ Member(i) = value.members[type.fields[i].name]
      BY <3>2, Zenon DEF Fields, Given, Member
    <3>4. CASE HasParts(type.fields[i].of)
      BY <2>2, <2>4, <3>2, <3>3, <3>4, Zenon
    <3>5. CASE ~HasParts(type.fields[i].of)
      <4>1. IsPrimitive(type.fields[i].of)
        <5>1. type.fields[i].of.type # "Array" /\ ~IsNested(type.fields[i].of)
          BY <3>5, Zenon DEF HasParts, IsNested
        <5>2. QED
          BY <2>1, <5>1, Zenon DEF IsMessageType, IsFlat
      <4>2. decode(value, type) = decodePrimitive(Member(i), type.fields[i].of)
        BY <3>2, <3>3, <4>1, FieldLevel, Zenon
      <4>3. IsItem(Member(i))
        BY <2>1, <3>2, <3>3, Zenon DEF IsJson, IsMember, IsItem
      <4>4. PrimitiveOf(Member(i), type.fields[i].of, decode(value, type))
        BY <4>1, <4>2, <4>3, PrimitiveResult, Zenon
      <4>5. \A v : Accepted(Ok(v))
        BY Zenon DEF Accepted, Ok
      <4>6. type.fields[i].of.type = "Duration" /\ Throws(Member(i))
        BY <2>2, <2>4, <3>1, <4>4, <4>5, Zenon DEF PrimitiveOf
      <4>7. QED
        BY <2>2, <3>3, <4>6, Zenon
    <3>6. QED
      BY <3>4, <3>5, Zenon
  <2>5. QED
    BY <2>3, <2>4, Zenon
<1>2. QED
  BY <1>1, DataInvariant, PTL

\* RoundTrip of the fields that are primitives or arrays of them, for all their
\* values: JsonCodec::decode returns the message that JsonCodec::encode was
\* given.  A field with compounds in it goes through the same code one level
\* down; that it survives is the hypothesis NestedSurvives.
THEOREM MessagesSurvive ==
  DataSpec => []( /\ NestedSurvives(message, document.type)
                  /\ NestedSurvives(response, document.type)
                  => RoundTrip)
<1>1. ASSUME DataInv, NestedSurvives(message, document.type),
             NestedSurvives(response, document.type)
      PROVE  RoundTrip
  <2>1. IsMessageType(document.type) /\ IsJson(IsMember, document.value)
    BY <1>1, DocumentTyped, Zenon
  <2>2. ASSUME decoded PROVE Survives(message, document.type)
    <3>1. Accepted(decode(document.value, document.type))
          /\ message = decode(document.value, document.type).value
      BY <1>1, <2>2, Zenon DEF DataInv, parsed
    <3>2. SoundMessage(message, document.type)
      BY <2>1, <3>1, DecodedSound, Zenon
    <3>3. QED
      BY <1>1, <2>1, <3>2, MessageSurvives, Zenon
  <2>3. ASSUME ending = "succeeded", Normalized(response, document.type)
        PROVE  Survives(response, document.type)
    <3>1. response \in WireMessages(document.type)
      BY <1>1, <2>3, Zenon DEF DataInv
    <3>2. SoundMessage(response, document.type)
      BY <1>1, <2>3, <3>1, DocumentTyped, Zenon DEF SoundMessage, SoundField, Normalized
    <3>3. QED
      BY <1>1, <2>1, <3>2, MessageSurvives, Zenon
  <2>4. QED
    BY <2>2, <2>3, Zenon DEF RoundTrip
<1>2. QED
  BY <1>1, DataInvariant, PTL

\* So without a hypothesis for the types that have no compounds in them.
THEOREM FlatMessagesSurvive ==
  DataSpec => []((\A i \in DOMAIN Fields : ~IsNested(Fields[i].of)) => RoundTrip)
<1>1. ASSUME \A i \in DOMAIN Fields : ~IsNested(Fields[i].of)
      PROVE  NestedSurvives(message, document.type) /\ NestedSurvives(response, document.type)
  BY <1>1, Zenon DEF NestedSurvives, Fields
<1>2. QED
  BY <1>1, MessagesSurvive, PTL

\* The call with its data takes the steps of ServiceFrames, so its frames stay in
\* step too (ServiceInvoker::invoke under ToolsAdapter's CallService).
THEOREM DataImplementsFrames == DataSpec => FramesSpec
<1>1. DataInit => FramesInit
  BY Zenon DEF DataInit
<1>2. [DataNext]_all_vars => [FramesNext]_frame_vars
  <2> SUFFICES ASSUME [DataNext]_all_vars PROVE [FramesNext]_frame_vars
    BY Zenon
  <2>1. CASE DecodeRequest
    BY <2>1, Zenon DEF DecodeRequest, FramesNext
  <2>2. CASE EncodeResponse
    BY <2>2, Zenon DEF EncodeResponse, FramesNext
  <2>3. CASE UNCHANGED all_vars
    BY <2>3, Zenon DEF all_vars
  <2>4. QED
    BY <2>1, <2>2, <2>3, Zenon DEF DataNext, FramesNext
<1>3. QED
  BY <1>1, <1>2, PTL DEF DataSpec, FramesSpec
=============================================================================
