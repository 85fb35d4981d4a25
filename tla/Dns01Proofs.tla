----------------------------- MODULE Dns01Proofs -----------------------------
(* Proofs about Dns01, for any names, configurations and bounds. *)
EXTENDS Dns01, TLAPS, FiniteSetTheorems

USE DEF None, Torn, Numbers, Credentials, Certs, Ordering, Stages, register, account, ca, server

-----------------------------------------------------------------------------
(* The files and the certificates.                                           *)

LEMMA CertTypeStep == CertTypes /\ [Next]_vars => CertTypes'
  <1> SUFFICES ASSUME CertTypes, [Next]_vars PROVE CertTypes'
    OBVIOUS
  <1> USE NumbersOK, ConfigsOK DEF CertTypes
  <1>1. CASE Register
    BY <1>1 DEF Register, RegisterStart, RegisterAccount, RegisterCreate, RegisterFill, RegisterPrint
  <1>2. CASE Start
    BY <1>2 DEF Start
  <1>3. CASE Look
    BY <1>3 DEF Look, LookNext, NoPair
  <1>4. CASE RemoveCert \/ RemoveKey
    BY <1>4 DEF RemoveCert, RemoveKey, Remove
  <1>5. CASE LoadCreds \/ CreateAccountFile \/ FillAccountFile \/ LoadOrRegister
    BY <1>5 DEF LoadCreds, LoadOrRegister, AccountNext, CreateAccountFile, FillAccountFile
  <1>6. CASE NewOrder \/ Publish \/ SetReady \/ AllAsked \/ PollReady
    BY <1>6 DEF NewOrder, Publish, SetReady, AllAsked, PollReady
  <1>7. CASE Finalize
    BY <1>7 DEF Finalize, OrderedNames
  <1>8. CASE WriteCert \/ WriteKey
    BY <1>8 DEF WriteCert, WriteKey, Write
  <1>9. CASE FromPem
    BY <1>9 DEF FromPem
  <1>10. CASE Answer
    BY <1>10 DEF Answer, Validate, ValidateLate
  <1>11. CASE PollTimesOut \/ CallFails
    BY <1>11 DEF PollTimesOut, CallFails
  <1>12. CASE Crash \/ Tick
    BY <1>12 DEF Crash, Tick
  <1>13. CASE UNCHANGED vars
    BY <1>13 DEF vars
  <1> QED
    BY <1>1, <1>2, <1>3, <1>4, <1>5, <1>6, <1>7, <1>8, <1>9, <1>10, <1>11, <1>12, <1>13
       DEF Next, Serve

LEMMA PairStep == CertTypes /\ PairInv /\ [Next]_vars => PairInv'
  <1> SUFFICES ASSUME CertTypes, PairInv, [Next]_vars PROVE PairInv'
    OBVIOUS
  <1> USE NumbersOK DEF CertTypes, PairInv, PairMatches
  <1>1. CASE Register
    BY <1>1 DEF Register, RegisterStart, RegisterAccount, RegisterCreate, RegisterFill, RegisterPrint
  <1>2. CASE Start
    BY <1>2 DEF Start
  <1>3. CASE Look
    BY <1>3 DEF Look, LookNext, NoPair
  <1>4. CASE RemoveCert \/ RemoveKey
    BY <1>4 DEF RemoveCert, RemoveKey, Remove
  <1>5. CASE LoadCreds \/ CreateAccountFile \/ FillAccountFile \/ LoadOrRegister
    BY <1>5 DEF LoadCreds, LoadOrRegister, AccountNext, CreateAccountFile, FillAccountFile
  <1>6. CASE NewOrder \/ Publish \/ SetReady \/ AllAsked \/ PollReady
    BY <1>6 DEF NewOrder, Publish, SetReady, AllAsked, PollReady
  <1>7. CASE Finalize
    BY <1>7 DEF Finalize
  <1>8. CASE WriteCert
    BY <1>8 DEF WriteCert, Write
  <1>9. CASE WriteKey
    BY <1>9 DEF WriteKey, Write
  <1>10. CASE FromPem
    BY <1>10 DEF FromPem
  <1>11. CASE Answer
    BY <1>11 DEF Answer, Validate, ValidateLate
  <1>12. CASE PollTimesOut \/ CallFails
    BY <1>12 DEF PollTimesOut, CallFails
  <1>13. CASE Crash \/ Tick
    BY <1>13 DEF Crash, Tick
  <1>14. CASE UNCHANGED vars
    BY <1>14 DEF vars
  <1> QED
    BY <1>1, <1>2, <1>3, <1>4, <1>5, <1>6, <1>7, <1>8, <1>9, <1>10, <1>11, <1>12, <1>13, <1>14
       DEF Next, Serve

LEMMA CertStep == CertTypes /\ PairInv /\ CertInv /\ [Next]_vars => CertInv'
  <1> SUFFICES ASSUME CertTypes, PairInv, CertInv, [Next]_vars PROVE CertInv'
    OBVIOUS
  <1> USE NumbersOK DEF CertTypes, CertInv
  <1>1. CASE Register
    BY <1>1 DEF Register, RegisterStart, RegisterAccount, RegisterCreate, RegisterFill, RegisterPrint
  <1>2. CASE Start
    BY <1>2 DEF Start
  <1>3. CASE Look
    BY <1>3 DEF Look, LookNext, NoPair
  <1>4. CASE RemoveCert \/ RemoveKey
    BY <1>4 DEF RemoveCert, RemoveKey, Remove
  <1>5. CASE LoadCreds \/ CreateAccountFile \/ FillAccountFile \/ LoadOrRegister
    BY <1>5 DEF LoadCreds, LoadOrRegister, AccountNext, CreateAccountFile, FillAccountFile
  <1>6. CASE NewOrder \/ Publish \/ SetReady \/ AllAsked \/ PollReady
    BY <1>6 DEF NewOrder, Publish, SetReady, AllAsked, PollReady
  <1>7. CASE Finalize
    BY <1>7 DEF Finalize, OrderedNames
  <1>8. CASE WriteCert \/ WriteKey
    <2>1. /\ stage \in {"write_cert", "write_key"} /\ stage' \in {"write_key", "load"}
          /\ \E f \in {"cert", "key"} : files' = [files EXCEPT ![f] = hand[f]]
          /\ UNCHANGED <<hand, issued, domains, made, old>>
      BY <1>8 DEF WriteCert, WriteKey, Write
    <2>2. \A f \in {"cert", "key"} : hand[f] <= made
      BY <2>1 DEF PairInv
    <2>3. \A f \in {"cert", "key"} : files'[f] <= made
      BY <2>1, <2>2
    <2> QED
      BY <2>1, <2>3
  <1>9. CASE FromPem
    BY <1>9 DEF FromPem
  <1>10. CASE Answer
    BY <1>10 DEF Answer, Validate, ValidateLate
  <1>11. CASE PollTimesOut \/ CallFails
    BY <1>11 DEF PollTimesOut, CallFails
  <1>12. CASE Crash \/ Tick
    BY <1>12 DEF Crash, Tick
  <1>13. CASE UNCHANGED vars
    BY <1>13 DEF vars
  <1> QED
    BY <1>1, <1>2, <1>3, <1>4, <1>5, <1>6, <1>7, <1>8, <1>9, <1>10, <1>11, <1>12, <1>13
       DEF Next, Serve
-----------------------------------------------------------------------------
(* The credentials.                                                          *)

LEMMA CredsStep ==
  AccountTypes /\ CredsInv /\ [Next]_vars => (AccountTypes /\ CredsInv)'
  <1> SUFFICES ASSUME AccountTypes, CredsInv, [Next]_vars PROVE AccountTypes' /\ CredsInv'
    OBVIOUS
  <1> USE DEF AccountTypes, CredsInv, CnameFollowsCreds
  <1>1. CASE Register
    BY <1>1 DEF Register, RegisterStart, RegisterNext, RegisterAccount, RegisterCreate,
                RegisterFill, RegisterPrint
  <1>2. CASE Start \/ Look \/ RemoveCert \/ RemoveKey
    BY <1>2 DEF Start, Look, RemoveCert, RemoveKey, Remove
  <1>3. CASE LoadCreds \/ CreateAccountFile \/ FillAccountFile \/ LoadOrRegister
    BY <1>3 DEF LoadCreds, LoadOrRegister, AccountNext, CreateAccountFile, FillAccountFile
  <1>4. CASE NewOrder \/ Publish \/ SetReady \/ AllAsked \/ PollReady
    BY <1>4 DEF NewOrder, Publish, SetReady, AllAsked, PollReady
  <1>5. CASE Finalize \/ WriteCert \/ WriteKey \/ FromPem
    BY <1>5 DEF Finalize, WriteCert, WriteKey, Write, FromPem
  <1>6. CASE Answer
    BY <1>6 DEF Answer, Validate, ValidateLate
  <1>7. CASE PollTimesOut \/ CallFails
    BY <1>7 DEF PollTimesOut, CallFails
  <1>8. CASE Crash \/ Tick
    BY <1>8 DEF Crash, Tick
  <1>9. CASE UNCHANGED vars
    BY <1>9 DEF vars
  <1> QED
    BY <1>1, <1>2, <1>3, <1>4, <1>5, <1>6, <1>7, <1>8, <1>9 DEF Next, Serve

-----------------------------------------------------------------------------
(* The record and the order.                                                 *)

LEMMA ChallengeTypes ==
  /\ \A n \in Names : Current(n) \in Challenges /\ Earlier(Current(n)) \in Challenges
  /\ \A c \in Challenges : Earlier(c) \in Challenges
  /\ \A m, n \in Names : Current(m) = Current(n) => m = n
  /\ \A c \in Challenges, n \in Names : Earlier(c) # Current(n)
BY DEF Current, Earlier, Challenges

\* The record takes a new value last, and moves the others down by one place.
LEMMA KeepMoves ==
  ASSUME NEW S, NEW s \in Seq(S), Len(s) <= TxtKept, NEW v \in S
  PROVE  /\ Keep(s, v) \in Seq(S) /\ Len(Keep(s, v)) <= TxtKept
         /\ Len(Keep(s, v)) > 0 /\ Keep(s, v)[Len(Keep(s, v))] = v
         /\ \A k \in 1 .. TxtKept - 1 : k <= Len(s) =>
              /\ k < Len(Keep(s, v))
              /\ Keep(s, v)[Len(Keep(s, v)) - k] = s[Len(s) - (k - 1)]
  <1> DEFINE t == Append(s, v)
             K == Keep(s, v)
  <1>1. /\ t \in Seq(S) /\ Len(t) = Len(s) + 1 /\ t[Len(t)] = v
        /\ \A i \in 1 .. Len(s) : t[i] = s[i]
    OBVIOUS
  <1>2. TxtKept \in Nat \ {0} /\ Len(s) \in Nat
    BY NumbersOK
  <1>3. K = IF Len(t) > TxtKept THEN Tail(t) ELSE t
    BY DEF Keep
  <1> HIDE DEF t, K
  <1>4. CASE Len(t) <= TxtKept
    <2>1. K = t
      BY <1>1, <1>2, <1>3, <1>4
    <2> QED
      BY <1>1, <1>2, <1>4, <2>1 DEF K
  <1>5. CASE Len(t) > TxtKept
    <2>1. K = Tail(t)
      BY <1>3, <1>5
    <2>2. /\ K \in Seq(S) /\ Len(K) = Len(s)
          /\ \A i \in 1 .. Len(s) : K[i] = t[i + 1]
      BY <1>1, <1>2, <1>5, <2>1
    <2>3. Len(s) = TxtKept
      BY <1>1, <1>2, <1>5
    <2>4. K[Len(K)] = v
      BY <1>1, <1>2, <2>2, <2>3
    <2>5. \A k \in 1 .. TxtKept - 1 : k < Len(K) /\ K[Len(K) - k] = s[Len(s) - (k - 1)]
      BY <1>1, <1>2, <2>2, <2>3
    <2> QED
      BY <1>2, <2>2, <2>3, <2>4, <2>5 DEF K
  <1> QED
    BY <1>1, <1>2, <1>4, <1>5

\* The steps that neither open, answer nor record a challenge.
LEMMA QuietSteps ==
  ASSUME \/ Register \/ Start \/ Look \/ RemoveCert \/ RemoveKey \/ LoadCreds
         \/ LoadOrRegister \/ CreateAccountFile \/ FillAccountFile \/ AllAsked \/ PollReady
         \/ WriteCert \/ WriteKey \/ FromPem \/ PollTimesOut \/ CallFails \/ Crash \/ Tick
         \/ UNCHANGED vars
  PROVE  /\ UNCHANGED <<txt, asked, open, proved, granted, spoiled>>
         /\ stage' = "ready" => stage = "ready"
  <1>1. CASE Register \/ Tick \/ UNCHANGED vars
    BY <1>1 DEF Register, RegisterStart, RegisterAccount, RegisterCreate, RegisterFill,
                RegisterPrint, Tick, vars
  <1>2. CASE Start \/ Look \/ RemoveCert \/ RemoveKey \/ LoadCreds
    BY <1>2 DEF Start, Look, LookNext, RemoveCert, RemoveKey, Remove, LoadCreds
  <1>3. CASE LoadOrRegister \/ CreateAccountFile \/ FillAccountFile
    BY <1>3 DEF LoadOrRegister, AccountNext, CreateAccountFile, FillAccountFile
  <1>4. CASE AllAsked \/ PollReady \/ WriteCert \/ WriteKey \/ FromPem
    BY <1>4 DEF AllAsked, PollReady, WriteCert, WriteKey, Write, FromPem
  <1>5. CASE PollTimesOut \/ CallFails \/ Crash
    BY <1>5 DEF PollTimesOut, CallFails, Crash
  <1> QED
    BY <1>1, <1>2, <1>3, <1>4, <1>5

LEMMA RecordTypeStep == RecordTypes /\ domains \in SUBSET Names /\ RecordInv /\ [Next]_vars => RecordTypes'
  <1> SUFFICES ASSUME RecordTypes, domains \in SUBSET Names, RecordInv, [Next]_vars
               PROVE  RecordTypes'
    OBVIOUS
  <1> USE DEF RecordTypes
  <1>1. CASE NewOrder
    <2>1. \A i \in 1 .. Len(txt) : Earlier(txt[i]) \in Challenges
      BY ChallengeTypes
    <2>2. txt' \in Seq(Challenges) /\ Len(txt') = Len(txt)
      BY <1>1, <2>1 DEF NewOrder
    <2>3. open' \subseteq Challenges
      BY <1>1, ChallengeTypes DEF NewOrder
    <2> QED
      BY <1>1, <2>2, <2>3 DEF NewOrder
  <1>2. CASE Publish
    <2>1. PICK n \in Pending : txt' = Published(n) /\ asked' = Append(asked, n)
      BY <1>2 DEF Publish
    <2>2. n \in Names /\ Current(n) \in Challenges
      BY <2>1, ChallengeTypes DEF Pending
    <2>3. txt' \in Seq(Challenges) /\ Len(txt') <= TxtKept
      BY <2>1, <2>2, KeepMoves DEF Published
    <2> QED
      BY <1>2, <2>1, <2>2, <2>3 DEF Publish
  <1>3. CASE SetReady
    <2>1. asked[Len(asked)] \in Names
      BY <1>3 DEF SetReady, RecordInv
    <2> QED
      BY <1>3, <2>1, ChallengeTypes DEF SetReady
  <1>4. CASE Finalize
    BY <1>4 DEF Finalize
  <1>5. CASE Answer
    BY <1>5 DEF Answer, Validate, ValidateLate
  <1>6. CASE UNCHANGED <<txt, asked, open, proved, granted, spoiled>>
    BY <1>6
  <1> QED
    BY <1>1, <1>2, <1>3, <1>4, <1>5, <1>6, QuietSteps DEF Next, Serve

LEMMA RecordStep ==
  ASSUME RecordTypes, domains \in SUBSET Names, AccountTypes, CredsInv, RecordInv, [Next]_vars
  PROVE  RecordInv'
  <1> USE NumbersOK DEF RecordTypes, RecordInv, FewNamesSucceed
  <1>1. CASE NewOrder
    <2>1. asked' = <<>> /\ spoiled' = "no" /\ stage' = "publish"
      BY <1>1 DEF NewOrder
    <2>2. \A n \in Names : Current(n) \notin open'
      BY <1>1, ChallengeTypes DEF NewOrder
    <2> QED
      BY <2>1, <2>2
  <1>2. CASE Publish
    <2>1. PICK n \in Pending : txt' = Published(n) /\ asked' = Append(asked, n)
      BY <1>2 DEF Publish
    <2>2. n \in Names /\ Current(n) \in Challenges
      BY <2>1, ChallengeTypes DEF Pending
    <2>3. /\ Len(asked') = Len(asked) + 1 /\ Len(asked) \in Nat /\ asked' # <<>>
          /\ asked'[Len(asked')] = n
          /\ \A i \in 1 .. Len(asked) : asked'[i] = asked[i]
      BY <2>1, <2>2
    <2>4. /\ txt' \in Seq(Challenges) /\ Len(txt') > 0 /\ txt'[Len(txt')] = Current(n)
          /\ \A k \in 1 .. TxtKept - 1 : k <= Len(txt) =>
               k < Len(txt') /\ txt'[Len(txt') - k] = txt[Len(txt) - (k - 1)]
      <3> DEFINE v == Current(n)
      <3>1. txt \in Seq(Challenges) /\ Len(txt) <= TxtKept /\ v \in Challenges
        BY <2>2
      <3>2. txt' = Keep(txt, v)
        BY <2>1 DEF Published
      <3> HIDE DEF v
      <3>3. /\ Keep(txt, v) \in Seq(Challenges)
            /\ Len(Keep(txt, v)) > 0 /\ Keep(txt, v)[Len(Keep(txt, v))] = v
            /\ \A k \in 1 .. TxtKept - 1 : k <= Len(txt) =>
                 /\ k < Len(Keep(txt, v))
                 /\ Keep(txt, v)[Len(Keep(txt, v)) - k] = txt[Len(txt) - (k - 1)]
        BY ONLY <3>1, KeepMoves
      <3>4. /\ txt' \in Seq(Challenges) /\ Len(txt') > 0 /\ txt'[Len(txt')] = v
            /\ \A k \in 1 .. TxtKept - 1 : k <= Len(txt) =>
                 k < Len(txt') /\ txt'[Len(txt') - k] = txt[Len(txt) - (k - 1)]
        BY ONLY <3>2, <3>3
      <3> QED
        BY ONLY <3>4 DEF v
    <2>5. ASSUME NEW k \in 0 .. TxtKept - 1, k < Len(asked')
          PROVE  k < Len(txt') /\ txt'[Len(txt') - k] = Current(asked'[Len(asked') - k])
      <3>1. CASE k = 0
        BY <2>3, <2>4, <3>1
      <3>2. CASE k # 0
        <4>1. k - 1 \in 0 .. TxtKept - 1 /\ k - 1 < Len(asked)
          BY <2>3, <2>5, <3>2
        <4>2. k - 1 < Len(txt) /\ txt[Len(txt) - (k - 1)] = Current(asked[Len(asked) - (k - 1)])
          BY <4>1
        <4>3. k < Len(txt') /\ txt'[Len(txt') - k] = txt[Len(txt) - (k - 1)]
          BY <2>4, <2>5, <3>2, <4>2
        <4>4. asked'[Len(asked') - k] = asked[Len(asked) - (k - 1)]
          <5>1. /\ Len(asked) - (k - 1) \in 1 .. Len(asked)
                /\ Len(asked') - k = Len(asked) - (k - 1)
            BY ONLY <2>3, <4>1, NumbersOK
          <5> QED
            BY ONLY <2>3, <5>1
        <4> QED
          BY <4>2, <4>3, <4>4
      <3> QED
        BY <3>1, <3>2
    <2>6. \A m \in Names : Current(m) \in open' => m \in Elements(asked')
      BY <1>2, <2>3 DEF Publish, Elements
    <2>7. spoiled' = "other_value" => Len(asked') > TxtKept
      BY <1>2, <2>3 DEF Publish
    <2> QED
      BY <2>3, <2>5, <2>6, <2>7
  <1>3. CASE SetReady
    <2>1. \A m \in Names : Current(m) \in open' => m \in Elements(asked)
      <3>1. asked # <<>>
        BY <1>3 DEF SetReady
      <3>2. asked[Len(asked)] \in Names /\ asked[Len(asked)] \in Elements(asked)
        BY <3>1 DEF Elements
      <3> QED
        BY <1>3, <3>2, ChallengeTypes DEF SetReady
    <2> QED
      BY <1>3, <2>1 DEF SetReady
  <1>4. CASE Finalize
    BY <1>4 DEF Finalize
  <1>5. ASSUME NEW n \in Names, Validate(n) PROVE RecordInv'
    <2>1. n \in Elements(asked)
      BY <1>5 DEF Validate
    <2>2. UNCHANGED <<txt, asked, stage>> /\ open' \subseteq open
      BY <1>5 DEF Validate
    <2>3. CASE spoiled' # "other_value"
      BY <2>2, <2>3
    <2>4. CASE spoiled' = spoiled
      BY <2>2, <2>4
    <2>5. CASE spoiled' = "other_value" /\ ~Found(Current(n)) /\ cname # None
      <3>1. cname = dnsCreds
        BY <2>5 DEF CredsInv, CnameFollowsCreds
      <3>2. Current(n) \notin Elements(txt)
        BY <2>5, <3>1 DEF Found
      <3>3. PICK i \in 1 .. Len(asked) : asked[i] = n
        BY <2>1 DEF Elements
      <3>4. Len(asked) > TxtKept
        <4>1. SUFFICES ASSUME Len(asked) <= TxtKept PROVE FALSE
          OBVIOUS
        <4> DEFINE k == Len(asked) - i
        <4>2. k \in 0 .. TxtKept - 1 /\ k < Len(asked) /\ Len(asked) - k = i
          BY <3>3, <4>1
        <4>3. k < Len(txt) /\ txt[Len(txt) - k] = Current(n)
          BY <3>3, <4>2
        <4>4. Len(txt) - k \in 1 .. Len(txt)
          BY <4>2, <4>3
        <4> QED
          BY <3>2, <4>3, <4>4 DEF Elements
      <3> QED
        BY <2>2, <3>4
    <2> QED
      BY <1>5, <2>3, <2>4, <2>5 DEF Validate
  <1>6. ASSUME NEW n \in Names, ValidateLate(n) PROVE RecordInv'
    BY <1>6 DEF ValidateLate
  <1>7. CASE /\ UNCHANGED <<txt, asked, open, proved, granted, spoiled>>
             /\ stage' = "ready" => stage = "ready"
    BY <1>7
  <1> QED
    BY <1>1, <1>2, <1>3, <1>4, <1>5, <1>6, <1>7, QuietSteps DEF Next, Serve, Answer

-----------------------------------------------------------------------------
(* What starting again costs.                                                *)

\* Sets of certificates are finite; what one of them counts for.
LEMMA CertSets ==
  ASSUME NEW X \in SUBSET Certs
  PROVE  /\ Cardinality(X) \in Nat
         /\ \A c : Cardinality(X \ {c}) = IF c \in X THEN Cardinality(X) - 1 ELSE Cardinality(X)
         /\ \A Y \in SUBSET X : Cardinality(Y) \in Nat /\ Cardinality(Y) <= Cardinality(X)
  <1>1. IsFiniteSet(Certs)
    BY NumbersOK, FS_Interval
  <1>2. IsFiniteSet(X)
    BY <1>1, FS_Subset
  <1>3. ASSUME NEW c, c \notin X PROVE X \ {c} = X
    BY <1>3
  <1> QED
    BY <1>2, <1>3, FS_CardinalityType, FS_RemoveElement, FS_Subset

\* What has expired stays so, and nothing is taken back.
LEMMA ExpiredStays ==
  ASSUME CertTypes, [Next]_vars
  PROVE  /\ Expired \subseteq Expired' /\ Expired' \in SUBSET Certs
         /\ Excused \in Int /\ Excused' \in Int /\ Excused <= Excused' /\ 0 <= Excused
         /\ made' \in Int /\ (made' = made \/ Finalize)
  <1>1. CertTypes'
    BY CertTypeStep
  <1>2. /\ now <= now' /\ made <= made' /\ \A c \in Certs : c <= made => issued'[c] = issued[c]
        /\ crashes <= crashes' /\ failures <= failures' /\ (made' = made \/ Finalize)
    <2> USE DEF CertTypes
    <2>1. CASE Finalize
      BY <2>1 DEF Finalize
    <2>2. CASE Tick \/ Crash \/ PollTimesOut \/ CallFails
      BY <2>2, NumbersOK DEF Tick, Crash, PollTimesOut, CallFails
    <2>3. CASE UNCHANGED <<now, issued, made, crashes, failures>>
      BY <2>3
    <2>4. CASE Register
      BY <2>3, <2>4 DEF Register, RegisterStart, RegisterAccount, RegisterCreate,
                        RegisterFill, RegisterPrint
    <2>5. CASE Serve /\ ~Finalize
      BY <2>3, <2>5 DEF Serve, Start, Look, RemoveCert, RemoveKey, Remove, LoadCreds,
           LoadOrRegister, CreateAccountFile, FillAccountFile, NewOrder, Publish, SetReady,
           AllAsked, PollReady, WriteCert, WriteKey, Write, FromPem
    <2>6. CASE Answer
      BY <2>3, <2>6 DEF Answer, Validate, ValidateLate
    <2> QED
      BY <2>1, <2>2, <2>3, <2>4, <2>5, <2>6 DEF Next, vars
  <1>3. Expired' \in SUBSET Certs
    BY DEF Expired
  <1>4. ASSUME NEW c \in Expired PROVE c \in Expired'
    <2>1. c \in Certs /\ c <= made' /\ issued'[c] = issued[c]
      BY <1>1, <1>2, NumbersOK DEF Expired, CertTypes
    <2>2. ~(now < issued[c].until) /\ issued[c].until \in Nat /\ now' \in Nat /\ now \in Nat
      BY <1>1 DEF Expired, ValidNow, CertTypes
    <2> QED
      BY <1>2, <2>1, <2>2 DEF Expired, ValidNow
  <1>5. /\ Excused \in Int /\ Excused' \in Int /\ Excused <= Excused' /\ 0 <= Excused
        /\ made' \in Int
    <2>1. PICK a, b, c, d \in Nat : a = crashes /\ b = failures /\ c = crashes' /\ d = failures'
      BY <1>1, NumbersOK DEF CertTypes
    <2>2. a <= c /\ b <= d
      BY <1>2, <2>1
    <2>4. a + b <= c + d /\ 0 <= a + b
      BY <2>2
    <2>5. Excused = a + b /\ Excused' = c + d
      BY <2>1 DEF Excused
    <2>3. made' \in Int
      BY <1>1, NumbersOK DEF CertTypes
    <2> QED
      BY <2>3, <2>4, <2>5
  <1> QED
    BY <1>2, <1>3, <1>4, <1>5

LEMMA OrdersStep ==
  ASSUME CertTypes, PairInv, CertInv, OrdersInv, [Next]_vars
  PROVE  OrdersInv'
  <1> DEFINE N     == Cardinality(Expired)
             M     == Cardinality(Expired')
             S(c)  == Cardinality(Expired \ {c})
             T(c)  == Cardinality(Expired' \ {c})
             writing == stage \in {"write_cert", "write_key"}
  <1>0. PICK m, n, e, f \in Int : m = made /\ n = made' /\ e = Excused /\ f = Excused'
    BY ExpiredStays DEF CertTypes
  <1>1. /\ e <= f /\ (n = m \/ Finalize)
        /\ Expired \subseteq Expired' /\ Expired' \in SUBSET Certs
    BY <1>0, ExpiredStays
  <1>2. /\ N \in Int /\ M \in Int /\ N <= M
        /\ \A c : /\ S(c) \in Int /\ T(c) \in Int
                  /\ S(c) <= T(c) /\ S(c) <= N
                  /\ c \in Expired => S(c) = N - 1
    <2>1. ASSUME NEW c
          PROVE  /\ Expired \ {c} \in SUBSET Certs /\ Expired' \ {c} \in SUBSET Certs
                 /\ Expired \ {c} \subseteq Expired' \ {c}
      BY <1>1
    <2>2. Expired \in SUBSET Certs
      BY <1>1
    <2> QED
      BY <1>1, <2>1, <2>2, CertSets
  <1>17. /\ stage = "remove_cert" /\ Complete => ~ValidNow(files["cert"])
         /\ Complete => m <= 1 + e + S(files["cert"])
         /\ writing => m <= 1 + e + S(hand.cert)
         /\ ~Complete /\ ~writing => m <= e + N
    BY <1>0 DEF OrdersInv
  <1>18. SUFFICES /\ stage' = "remove_cert" /\ Complete' => ~ValidNow(files["cert"])'
                  /\ Complete' => n <= 1 + f + T(files'["cert"])
                  /\ stage' \in {"write_cert", "write_key"} => n <= 1 + f + T(hand'.cert)
                  /\ ~Complete' /\ stage' \notin {"write_cert", "write_key"} => n <= f + M
    BY <1>0 DEF OrdersInv
  <1>3. Complete /\ ~ValidNow(files["cert"]) => files["cert"] \in Expired
    BY DEF Complete, CertTypes, CertInv, Expired
  <1>4. files["cert"] \in Expired => ~ValidNow(files["cert"])'
        \/ files' # files
    BY <1>1 DEF Expired, ValidNow
  <1> HIDE DEF N, M, S, T
  <1>5. CASE UNCHANGED <<files, hand, stage>> /\ n = m
    BY <1>1, <1>2, <1>17, <1>3, <1>4, <1>5 DEF Complete
  <1>6. CASE /\ UNCHANGED files /\ n = m /\ ~writing
             /\ stage' \notin {"remove_cert", "write_cert", "write_key"}
    BY <1>1, <1>2, <1>17, <1>6 DEF Complete
  <1>7. CASE UNCHANGED files /\ n = m /\ stage' = "down" /\ f >= e + 1
    BY <1>1, <1>2, <1>17, <1>7 DEF Complete
  <1>8. CASE Look
    <2>1. UNCHANGED files /\ n = m /\ ~writing /\ stage' \notin {"write_cert", "write_key"}
      BY <1>0, <1>8 DEF Look, LookNext
    <2>2. stage' = "remove_cert" /\ Complete => ~ValidNow(files["cert"])
      <3>1. Complete /\ ValidNow(files["cert"]) => LookNext = "load"
        BY DEF LookNext, Complete
      <3> QED
        BY <1>8, <3>1 DEF Look
    <2> QED
      BY <1>1, <1>2, <1>17, <1>3, <1>4, <2>1, <2>2 DEF Complete
  <1>9. CASE RemoveCert
    <2>1. /\ stage = "remove_cert" /\ stage' = "remove_key" /\ ~Complete'
          /\ n = m
      BY <1>0, <1>9 DEF RemoveCert, Remove, Complete, CertTypes
    <2> QED
      BY <1>1, <1>2, <1>17, <1>3, <2>1
  <1>10. CASE RemoveKey
    <2>1. /\ stage = "remove_key" /\ stage' = "creds" /\ ~Complete /\ ~Complete'
          /\ n = m
      BY <1>0, <1>10 DEF RemoveKey, Remove, Complete, CertTypes, PairInv
    <2> QED
      BY <1>1, <1>2, <1>17, <2>1
  <1>11. CASE Finalize
    <2>1. /\ stage = "finalize" /\ stage' = "write_cert" /\ ~Complete /\ ~Complete'
          /\ n = m + 1 /\ hand'.cert = m + 1
      BY <1>0, <1>11 DEF Finalize, Complete, PairInv
    <2>2. N <= T(m + 1)
      <3>1. Expired \ {m + 1} = Expired
        BY <1>0 DEF Expired
      <3>2. S(m + 1) = N
        BY <3>1 DEF S, N
      <3> QED
        BY <1>2, <3>2
    <2> QED
      BY <1>1, <1>2, <1>17, <2>1, <2>2
  <1>12. CASE WriteCert
    <2>1. /\ stage = "write_cert" /\ stage' = "write_key" /\ ~Complete'
          /\ n = m /\ hand' = hand
      BY <1>0, <1>12 DEF WriteCert, Write, Complete, PairInv, CertTypes
    <2> QED
      BY <1>1, <1>2, <1>17, <2>1
  <1>13. CASE WriteKey
    <2>1. /\ stage = "write_key" /\ stage' = "load" /\ Complete' /\ files'["cert"] = hand.cert
          /\ n = m
      BY <1>0, <1>13 DEF WriteKey, Write, Complete, PairInv, CertTypes, CertInv
    <2> QED
      BY <1>1, <1>2, <1>17, <2>1
  <1>14. CASE \/ Register \/ Answer \/ Tick \/ UNCHANGED vars
    <2>1. UNCHANGED <<files, hand, stage>> /\ n = m
      BY <1>0, <1>14 DEF Register, RegisterStart, RegisterAccount, RegisterCreate, RegisterFill,
                   RegisterPrint, Answer, Validate, ValidateLate, Tick, vars
    <2> QED
      BY <1>5, <2>1
  <1>15. CASE \/ Start \/ LoadCreds \/ LoadOrRegister \/ CreateAccountFile \/ FillAccountFile
              \/ NewOrder \/ Publish \/ SetReady \/ AllAsked \/ PollReady \/ FromPem
    <2>1. /\ UNCHANGED files /\ n = m /\ ~writing
          /\ stage' \notin {"remove_cert", "write_cert", "write_key"}
      BY <1>0, <1>15 DEF Start, LoadCreds, LoadOrRegister, AccountNext, CreateAccountFile,
                   FillAccountFile, NewOrder, Publish, SetReady, AllAsked, PollReady, FromPem
    <2> QED
      BY <1>6, <2>1
  <1>16. CASE PollTimesOut \/ CallFails \/ Crash
    <2>1. \/ UNCHANGED <<files, hand, stage>> /\ n = m
          \/ UNCHANGED files /\ n = m /\ stage' = "down" /\ f >= e + 1
      BY <1>0, <1>16 DEF PollTimesOut, CallFails, Crash, Excused, CertTypes
    <2> QED
      BY <1>5, <1>7, <2>1
  <1> QED
    BY <1>8, <1>9, <1>10, <1>11, <1>12, <1>13, <1>14, <1>15, <1>16 DEF Next, Serve

LEMMA AccountsStep ==
  ASSUME AccountTypes, CertTypes, AccountsInv, [Next]_vars
  PROVE  AccountsInv'
  <1>0. PICK n, e, f \in Int : n = accts /\ e = Excused /\ f = Excused'
    BY ExpiredStays DEF AccountTypes
  <1>1. /\ e <= f /\ 0 <= e
        /\ acctFile = None /\ stage # "create" => n <= e
        /\ n <= 1 + e
    BY <1>0, ExpiredStays DEF AccountsInv
  <1>10. PICK k : k = accts'
    OBVIOUS
  <1>11. SUFFICES /\ acctFile' = None /\ stage' # "create" => k <= f
                  /\ k <= 1 + f
    BY <1>0, <1>10 DEF AccountsInv
  <1>2. CASE UNCHANGED account /\ (stage # "create" \/ stage' = "create")
    <2>1. k = n /\ acctFile' = acctFile
      BY <1>0, <1>2, <1>10
    <2> QED
      BY <1>1, <1>2, <2>1
  <1>3. CASE UNCHANGED account /\ f >= e + 1
    <2>1. k = n
      BY <1>0, <1>3, <1>10
    <2> QED
      BY <1>1, <1>3, <2>1
  <1>4. CASE LoadOrRegister
    <2>1. /\ stage = "account" /\ ((stage' = "create" /\ acctFile = None /\ k = n + 1) \/ k = n)
          /\ acctFile' = acctFile
      BY <1>0, <1>4, <1>10 DEF LoadOrRegister, AccountNext
    <2> QED
      BY <1>1, <2>1
  <1>5. CASE CreateAccountFile \/ FillAccountFile
    <2>1. k = n /\ acctFile' \in {Torn, n}
      BY <1>0, <1>5, <1>10 DEF CreateAccountFile, FillAccountFile
    <2> QED
      BY <1>1, <2>1
  <1>7. CASE Register \/ Answer \/ Tick \/ UNCHANGED vars
    BY <1>2, <1>7 DEF Register, RegisterStart, RegisterAccount, RegisterCreate, RegisterFill,
                      RegisterPrint, Answer, Validate, ValidateLate, Tick, vars
  <1>8. CASE \/ Start \/ Look \/ RemoveCert \/ RemoveKey \/ LoadCreds
             \/ NewOrder \/ Publish \/ SetReady \/ AllAsked \/ PollReady \/ Finalize
             \/ WriteCert \/ WriteKey \/ FromPem
    BY <1>2, <1>8 DEF Start, Look, RemoveCert, RemoveKey, Remove, LoadCreds, NewOrder,
                      Publish, SetReady, AllAsked, PollReady, Finalize, WriteCert, WriteKey,
                      Write, FromPem
  <1>9. CASE PollTimesOut \/ CallFails \/ Crash
    BY <1>0, <1>2, <1>3, <1>9 DEF PollTimesOut, CallFails, Crash, Excused, CertTypes
  <1> QED
    BY <1>4, <1>5, <1>7, <1>8, <1>9 DEF Next, Serve

-----------------------------------------------------------------------------
(* Theorems.                                                                 *)

\* The types and Dns01Inv together are inductive.
LEMMA Inductive == Spec => [](TypeOK /\ Dns01Inv)
  <1>1. Init => TypeOK /\ Dns01Inv
    <2> SUFFICES ASSUME Init PROVE TypeOK /\ Dns01Inv
      OBVIOUS
    <2> USE NumbersOK DEF Init, NoPair
    <2>1. AccountTypes /\ CertTypes
      BY DEF AccountTypes, CertTypes
    <2>2. RecordTypes
      BY DEF RecordTypes
    <2>3. PairInv /\ CertInv
      BY DEF PairInv, PairMatches, CertInv
    <2>4. CredsInv /\ RecordInv
      BY DEF CredsInv, CnameFollowsCreds, RecordInv, FewNamesSucceed
    <2> QED
      BY <2>1, <2>2, <2>3, <2>4 DEF TypeOK, Dns01Inv
  <1>2. TypeOK /\ Dns01Inv /\ [Next]_vars => (TypeOK /\ Dns01Inv)'
    BY CertTypeStep, PairStep, CertStep, CredsStep, RecordTypeStep, RecordStep
       DEF TypeOK, Dns01Inv, CertTypes
  <1> QED
    BY <1>1, <1>2, PTL DEF Spec

\* Every reachable state has its type.
THEOREM Dns01Types == Spec => []TypeOK
  BY Inductive, PTL

\* load_or_request_dns01_cert: whatever is interrupted, the cache never holds a
\* certificate next to the key of another one.
THEOREM PairCorrect == Spec => []PairMatches
  <1>1. Dns01Inv => PairMatches
    BY DEF Dns01Inv, PairInv
  <1> QED
    BY <1>1, Inductive, PTL

\* register_acme_dns_account: a CNAME an operator was told to create stays right.
THEOREM CnameCorrect == Spec => []CnameFollowsCreds
  <1>1. Dns01Inv => CnameFollowsCreds
    BY DEF Dns01Inv, CredsInv
  <1> QED
    BY <1>1, Inductive, PTL

\* set_challenge_txt: as many names as the record keeps values never get in each
\* other's way, in whatever order and however late the CA looks.
THEOREM FewNamesCorrect == Spec => []FewNamesSucceed
  <1>1. Dns01Inv => FewNamesSucceed
    BY DEF Dns01Inv, RecordInv
  <1> QED
    BY <1>1, Inductive, PTL

\* load_or_request_dns01_cert: only a cached certificate is for other names.
THEOREM NamesCorrect == Spec => []StaleNamesOnlyFromCache
  <1>1. TypeOK /\ Dns01Inv => StaleNamesOnlyFromCache
    BY DEF TypeOK, CertTypes, Dns01Inv, CertInv, StaleNamesOnlyFromCache
  <1> QED
    BY <1>1, Inductive, PTL

\* load_or_request_dns01_cert and create_or_load_account: starting again takes no more
\* certificates and accounts than crashes, failures and expiry account for.
THEOREM OrdersCorrect == Spec => []NoNeedlessOrders
  <1>1. Init => OrdersInv /\ AccountsInv
    <2>1. Init => Expired \in SUBSET Certs /\ Excused = 0
      BY DEF Expired, Init, Excused
    <2> QED
      BY <2>1, CertSets DEF Init, OrdersInv, AccountsInv, Complete
  <1>2. TypeOK /\ Dns01Inv /\ OrdersInv /\ AccountsInv /\ [Next]_vars =>
          (OrdersInv /\ AccountsInv)'
    BY OrdersStep, AccountsStep DEF TypeOK, Dns01Inv
  <1>3. TypeOK /\ OrdersInv /\ AccountsInv => NoNeedlessOrders
    <2> SUFFICES ASSUME TypeOK, OrdersInv, AccountsInv PROVE NoNeedlessOrders
      OBVIOUS
    <2>1. PICK m, a, b \in Int : m = made /\ a = crashes /\ b = failures
      BY NumbersOK DEF TypeOK, CertTypes
    <2>2. PICK N \in Int : /\ N = Cardinality(Expired)
                           /\ \A c : /\ Cardinality(Expired \ {c}) \in Int
                                     /\ Cardinality(Expired \ {c}) <= N
      <3>1. Expired \in SUBSET Certs
        BY DEF Expired
      <3> QED
        BY <3>1, CertSets
    <2>3. PICK P, W \in Int : /\ P = Cardinality(Expired \ {files["cert"]}) /\ P <= N
                              /\ W = Cardinality(Expired \ {hand.cert}) /\ W <= N
      BY <2>2
    <2>4. Excused = a + b
      BY <2>1 DEF Excused
    <2>5. m <= 1 + (a + b) + P \/ m <= 1 + (a + b) + W \/ m <= (a + b) + N
      BY <2>1, <2>2, <2>3, <2>4 DEF OrdersInv
    <2>6. m <= 1 + a + b + N
      BY <2>3, <2>5
    <2> QED
      BY <2>1, <2>2, <2>4, <2>6 DEF AccountsInv, NoNeedlessOrders
  <1> QED
    BY <1>1, <1>2, <1>3, Inductive, PTL DEF Spec
=============================================================================
