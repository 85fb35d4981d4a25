--------------------------- MODULE TlsCacheProofs ---------------------------
(* Theorems about TlsCache, for any validity periods and any bounds. *)
EXTENDS TlsCache, TLAPS

\* The margin is positive and leaves the certificate some time before it: what
\* ConstantsOK assumes of Margin holds for every validity that
\* validate_with_root accepts (10 seconds and more).
THEOREM MarginFits ==
  \A v \in Nat : v >= 10 => RenewMargin(v) \in 1 .. 600 /\ RenewMargin(v) < v
  <1> SUFFICES ASSUME NEW v \in Nat, v >= 10
               PROVE  RenewMargin(v) \in 1 .. 600 /\ RenewMargin(v) < v
    OBVIOUS
  <1>1. v \div 5 \in Nat /\ v \div 5 < v
    OBVIOUS
  <1> QED
    BY <1>1 DEF RenewMargin, AtMost, AtLeast, Minus

\* The effect of giving up an attempt has its type.
LEMMA AbandonType ==
  ASSUME TypeOK, Abandon
  PROVE  stage' \in Stages /\ step' \in Steps /\ ca' \in KeyPair /\ leaf' \in KeyPair
         /\ served' \in [leaf : Ids, ca : Ids]
  BY DEF TypeOK, Abandon, Stages, Steps, Alive, KeyPair, NoPair, Ids

\* A step keeps the types.
LEMMA TypeStep == TypeOK /\ [Next]_vars => TypeOK'
  <1> SUFFICES ASSUME TypeOK, [Next]_vars PROVE TypeOK'
    OBVIOUS
  <1> USE ConstantsOK DEF TypeOK, Stages, Steps, Alive, KeyPair, Ids, None, Files
  <1>1. CASE Start
    BY <1>1 DEF Start
  <1>2. CASE LookCa \/ LookLeaf
    BY <1>2 DEF LookCa, LookLeaf, Replace
  <1>3. CASE RemoveCert \/ RemoveKey
    BY <1>3 DEF RemoveCert, RemoveKey, Remove, CertFile, KeyFile
  <1>4. CASE Make
    <2>1. made + 1 \in Pairs
      BY <1>4 DEF Make, Pairs
    <2>2. NewCert(made + 1) \in Cert
      BY <2>1 DEF NewCert, Cert
    <2> QED
      BY <1>4, <2>1, <2>2 DEF Make, Pairs
  <1>5. CASE CreateCert \/ CreateKey
    <2>1. CASE Abandon /\ UNCHANGED <<tmp, now, made, issued, files, slow, crashes, failures>>
      BY <2>1, AbandonType
    <2> QED
      BY <1>5, <2>1 DEF CreateCert, CreateKey, Create, TmpName, CertFile, KeyFile
  <1>6. CASE RenameCert
    BY <1>6 DEF RenameCert, RenameTo, Created, InHand, CertFile
  <1>7. CASE RenameKey
    BY <1>7 DEF RenameKey, RenameTo, Created, InHand, KeyFile, Writing
  <1>8. CASE FromPem \/ Reload
    <2>1. CASE Abandon /\ UNCHANGED <<now, made, issued, files, tmp, slow, crashes, failures>>
      BY <2>1, AbandonType
    <2> QED
      BY <1>8, <2>1 DEF FromPem, Reload, Load, NoPair
  <1>9. CASE Renew
    <2>1. CASE Abandon /\ UNCHANGED <<now, made, issued, files, tmp, slow, crashes, failures>>
      BY <2>1, AbandonType
    <2> QED
      BY <1>9, <2>1 DEF Renew
  <1>10. CASE WriteFails
    BY <1>10, AbandonType DEF WriteFails
  <1>11. CASE Retry
    BY <1>11 DEF Retry
  <1>14. CASE Tick
    <2>1. UNCHANGED <<made, issued, files, tmp, stage, step, ca, leaf, served, crashes, failures>>
      BY <1>14 DEF Tick, work
    <2>2. now' \in Nat /\ slow' \in BOOLEAN
      BY <1>14 DEF Tick
    <2> QED
      BY <2>1, <2>2
  <1>12. CASE Crash
    BY <1>12 DEF Crash, NoPair, NoChain
  <1>13. CASE Bound \/ UNCHANGED vars
    BY <1>13 DEF Bound, vars, work
  <1> QED
    BY <1>1, <1>2, <1>3, <1>4, <1>5, <1>6, <1>7, <1>8, <1>9, <1>10, <1>11, <1>12, <1>13, <1>14
       DEF Next, Work

\* Every reachable state of the cache has its type.
THEOREM CacheTypes == Spec => []TypeOK
  <1>1. Init => TypeOK
    <2> SUFFICES ASSUME Init PROVE TypeOK
      OBVIOUS
    <2>1. issued \in [Pairs -> Cert]
      BY DEF Init, Cert, Ids, None
    <2>2. now \in Nat /\ made \in 0 .. MaxPairs /\ slow \in BOOLEAN
          /\ crashes \in 0 .. MaxCrashes /\ failures \in 0 .. MaxFailures
      <3>1. now = 0 /\ made = 0 /\ slow = FALSE /\ crashes = 0 /\ failures = 0
        BY DEF Init
      <3>2. MaxPairs \in Nat /\ MaxCrashes \in Nat /\ MaxFailures \in Nat
        BY ConstantsOK
      <3>3. slow \in BOOLEAN
        BY <3>1
      <3>4. now \in Nat /\ made \in 0 .. MaxPairs
        BY <3>1, <3>2
      <3>5. crashes \in 0 .. MaxCrashes /\ failures \in 0 .. MaxFailures
        BY <3>1, <3>2
      <3> QED
        BY <3>3, <3>4, <3>5
    <2>3. files \in [Files -> Ids] /\ tmp \in [Files -> SUBSET {"plain", "pid"}]
      <3>1. files = [f \in Files |-> None] /\ tmp = [f \in Files |-> {}]
        BY DEF Init
      <3> QED
        BY <3>1 DEF Ids
    <2>4. stage \in Stages /\ step \in Steps
      BY DEF Init, Stages, Steps
    <2>5. ca \in KeyPair /\ leaf \in KeyPair /\ served \in [leaf : Ids, ca : Ids]
      BY DEF Init, KeyPair, NoPair, NoChain, Ids
    <2> QED
      BY <2>1, <2>2, <2>3, <2>4, <2>5 DEF TypeOK
  <1> QED
    BY <1>1, TypeStep, PTL DEF Spec

-----------------------------------------------------------------------------
\* A step keeps the CA replaced in order, and complete once it is loaded.
LEMMA CaStep == TypeOK /\ CaInv /\ [Next]_vars => CaInv'
  <1> SUFFICES ASSUME TypeOK, CaInv, [Next]_vars PROVE CaInv'
    OBVIOUS
  <1> USE DEF TypeOK, CaInv, CaPairMatches, RenewalFindsCa, Replacing, Fresh, Whole, None,
              Alive, Files
  <1>1. CASE Start
    BY <1>1 DEF Start
  <1>2. CASE LookCa
    BY <1>2 DEF LookCa, Usable, Replace, CertFile, KeyFile
  <1>3. CASE LookLeaf
    BY <1>3 DEF LookLeaf
  <1>4. CASE RemoveCert
    BY <1>4 DEF RemoveCert, Remove, CertFile
  <1>5. CASE RemoveKey
    BY <1>5 DEF RemoveKey, Remove, KeyFile
  <1>6. CASE Make
    BY <1>6 DEF Make, Writing
  <1>7. CASE CreateCert \/ CreateKey
    BY <1>7 DEF CreateCert, CreateKey, Create, Abandon, NoPair, Writing
  <1>8. CASE RenameCert
    BY <1>8 DEF RenameCert, RenameTo, CertFile, InHand, Writing
  <1>9. CASE RenameKey
    BY <1>9 DEF RenameKey, RenameTo, KeyFile, InHand, Writing
  <1>10. CASE FromPem \/ Reload
    BY <1>10 DEF FromPem, Reload, Load, Abandon, NoPair
  <1>11. CASE Renew
    BY <1>11 DEF Renew, Abandon, NoPair
  <1>12. CASE WriteFails
    BY <1>12 DEF WriteFails, Abandon, NoPair, Writing
  <1>13. CASE Retry
    BY <1>13 DEF Retry
  <1>14. CASE Crash
    BY <1>14 DEF Crash
  <1>15. CASE Tick \/ Bound \/ UNCHANGED vars
    BY <1>15 DEF Tick, Bound, vars, work
  <1> QED
    BY <1>1, <1>2, <1>3, <1>4, <1>5, <1>6, <1>7, <1>8, <1>9, <1>10, <1>11, <1>12, <1>13,
       <1>14, <1>15 DEF Next, Work

-----------------------------------------------------------------------------
\* The certificate of a pair never changes once it is made.
LEMMA IssuedKept ==
  ASSUME TypeOK, [Next]_vars
  PROVE  /\ made <= made' /\ now <= now'
         /\ \A p \in Pairs : p <= made => issued'[p] = issued[p]
  <1> USE DEF TypeOK, Pairs
  <1>1. CASE Make
    BY <1>1 DEF Make
  <1>2. CASE Tick
    BY <1>2 DEF Tick
  <1>3. CASE UNCHANGED <<now, made, issued>>
    BY <1>3
  <1> QED
    BY <1>1, <1>2, <1>3
       DEF Next, Work, Start, LookCa, LookLeaf, RemoveCert, RemoveKey, Remove, CreateCert,
           CreateKey, Create, RenameCert, RenameKey, FromPem, Reload, Load, Renew, Retry,
           WriteFails, Crash, Bound, vars, work

\* A step uses numbers of pairs that have been made.
LEMMA UsedStep == TypeOK /\ CaInv /\ UsedInv /\ [Next]_vars => UsedInv'
  <1> SUFFICES ASSUME TypeOK, CaInv, UsedInv, [Next]_vars PROVE UsedInv'
    OBVIOUS
  <1> USE ConstantsOK DEF TypeOK, UsedInv, KeyPair, Ids, Pairs, None, Files
  <1>1. CASE Make
    <2>1. made + 1 \in Pairs /\ made' = made + 1
      BY <1>1 DEF Make
    <2>2. \A p \in Pairs : p <= made => issued'[p] = issued[p]
      BY IssuedKept
    <2>3. issued'[made + 1].signer \in 1 .. made + 1
      <3>1. issued'[made + 1] = NewCert(made + 1)
        BY <1>1, <2>1 DEF Make
      <3>2. stage # "ca" => ca.key # None
        BY <1>1 DEF Make, Writing, CaInv, Whole
      <3> QED
        BY <2>1, <3>1, <3>2 DEF NewCert
    <2>4. \A p \in Pairs : p <= made + 1 => issued'[p].signer \in 1 .. made + 1
      BY <2>1, <2>2, <2>3
    <2> QED
      BY <1>1, <2>1, <2>4 DEF Make
  <1>2. CASE LookCa \/ LookLeaf
    BY <1>2 DEF LookCa, LookLeaf
  <1>3. CASE RemoveCert \/ RemoveKey
    BY <1>3 DEF RemoveCert, RemoveKey, Remove
  <1>4. CASE CreateCert \/ CreateKey \/ WriteFails
    BY <1>4 DEF CreateCert, CreateKey, Create, WriteFails, Abandon, NoPair
  <1>5. CASE RenameCert \/ RenameKey
    BY <1>5 DEF RenameCert, RenameKey, RenameTo, InHand
  <1>6. CASE FromPem \/ Reload
    BY <1>6 DEF FromPem, Reload, Load, Abandon, NoPair
  <1>7. CASE Renew
    BY <1>7 DEF Renew, Abandon, NoPair
  <1>8. CASE Crash
    BY <1>8 DEF Crash, NoPair, NoChain
  <1>9. CASE Start \/ Retry \/ Tick \/ Bound \/ UNCHANGED vars
    BY <1>9 DEF Start, Retry, Tick, Bound, vars, work
  <1> QED
    BY <1>1, <1>2, <1>3, <1>4, <1>5, <1>6, <1>7, <1>8, <1>9 DEF Next, Work

\* A step leaves a torn leaf pair only as a renewal.
LEMMA LeafStep == TypeOK /\ UsedInv /\ LeafInv /\ [Next]_vars => LeafInv'
  <1> SUFFICES ASSUME TypeOK, UsedInv, LeafInv, [Next]_vars PROVE LeafInv'
    OBVIOUS
  <1> USE DEF TypeOK, LeafInv, OnlyRenewalTears, Torn, Replacing, Fresh, Whole, None, Alive,
              Files
  <1>1. CASE Start
    BY <1>1 DEF Start
  <1>2. CASE LookCa
    BY <1>2 DEF LookCa, Usable, Replace, CertFile, KeyFile
  <1>3. CASE LookLeaf
    BY <1>3 DEF LookLeaf, Usable, Replace, CertFile, KeyFile
  <1>4. CASE RemoveCert
    BY <1>4 DEF RemoveCert, Remove, CertFile
  <1>5. CASE RemoveKey
    BY <1>5 DEF RemoveKey, Remove, KeyFile
  <1>6. CASE Make
    <2>1. made + 1 \in Pairs /\ files["cert"] # made + 1
      <3>1. files["cert"] <= made /\ made \in Nat /\ made < MaxPairs
        BY <1>6 DEF Make, UsedInv
      <3>2. files["cert"] \in Nat
        BY ConstantsOK DEF Ids, Pairs
      <3> QED
        BY <3>1, <3>2, ConstantsOK DEF Pairs
    <2>2. stage = "renew" => issued'[made + 1].renewal
      BY <1>6, <2>1 DEF Make, NewCert
    <2>3. Torn' => issued'[files'["cert"]].renewal
      BY <1>6, <2>1, IssuedKept DEF Make, UsedInv, Ids
    <2>4. stage \in {"leaf", "renew"} => leaf' = [cert |-> made + 1, key |-> made + 1]
      BY <1>6 DEF Make
    <2>5. stage = "renew" => issued'[leaf'.cert].renewal
      BY <2>2, <2>4
    <2>6. made + 1 # 0
      BY DEF Pairs
    <2>7. /\ UNCHANGED <<files, stage, served>> /\ step' = "create_cert"
          /\ step = "make" /\ stage \in {"ca", "leaf", "renew"}
      BY <1>6 DEF Make, Writing
    <2> QED
      BY <2>3, <2>4, <2>5, <2>6, <2>7
  <1>7. CASE CreateCert \/ CreateKey
    BY <1>7 DEF CreateCert, CreateKey, Create, Abandon, NoPair, Writing
  <1>8. CASE RenameCert
    BY <1>8 DEF RenameCert, RenameTo, CertFile, InHand, Writing
  <1>9. CASE RenameKey
    BY <1>9 DEF RenameKey, RenameTo, KeyFile, InHand, Writing
  <1>10. CASE FromPem \/ Reload
    BY <1>10 DEF FromPem, Reload, Load, Abandon, NoPair
  <1>11. CASE Renew
    BY <1>11 DEF Renew, Abandon, NoPair
  <1>12. CASE WriteFails
    BY <1>12 DEF WriteFails, Abandon, NoPair, Writing
  <1>13. CASE Retry
    BY <1>13 DEF Retry
  <1>14. CASE Crash
    BY <1>14 DEF Crash
  <1>15. CASE Tick \/ Bound \/ UNCHANGED vars
    BY <1>15 DEF Tick, Bound, vars, work
  <1> QED
    BY <1>1, <1>2, <1>3, <1>4, <1>5, <1>6, <1>7, <1>8, <1>9, <1>10, <1>11, <1>12, <1>13,
       <1>14, <1>15 DEF Next, Work

-----------------------------------------------------------------------------
\* The signer of a pair is fixed, and once it has expired it stays so.
LEMMA SignerKept ==
  ASSUME TypeOK, UsedInv, [Next]_vars, NEW l \in Pairs, l <= made
  PROVE  /\ issued'[l].signer = issued[l].signer
         /\ ~ValidNow(issued[l].signer) => ~ValidNow(issued[l].signer)'
  <1>1. issued'[l] = issued[l]
    BY IssuedKept
  <1>2. issued[l].signer \in Pairs /\ issued[l].signer <= made
    BY ConstantsOK DEF UsedInv, TypeOK, Pairs
  <1>3. issued'[issued[l].signer] = issued[issued[l].signer]
    BY <1>2, IssuedKept
  <1>4. now <= now' /\ now \in Nat /\ now' \in Nat
    BY IssuedKept, TypeStep DEF TypeOK
  <1>5. issued[issued[l].signer].until \in Nat
    BY <1>2 DEF TypeOK, Cert
  <1> QED
    BY <1>1, <1>3, <1>4, <1>5 DEF ValidNow

\* A step presents a leaf with its signer, unless that has expired.
LEMMA ChainStep ==
  TypeOK /\ UsedInv /\ CaInv /\ LeafInv /\ ChainInv /\ [Next]_vars => ChainInv'
  <1> SUFFICES ASSUME TypeOK, UsedInv, CaInv, LeafInv, ChainInv, [Next]_vars
               PROVE  ChainInv'
    OBVIOUS
  <1> DEFINE Old(l)  == ~ValidNow(issued[l].signer)
             Old2(l) == ~(now' < issued'[issued'[l].signer].until)
  <1>0. ASSUME NEW l \in Ids, l # None, l <= made
        PROVE  issued'[l].signer = issued[l].signer /\ (Old(l) => Old2(l))
    BY <1>0, SignerKept DEF Ids, ValidNow
  <1>a. /\ files["cert"] \in Ids /\ files["cert"] <= made
        /\ leaf.cert \in Ids /\ leaf.cert <= made
        /\ served.leaf \in Ids /\ served.leaf <= made
        /\ stage \in Alive => served.leaf # None
        /\ stage \in {"tls", "reload"} => leaf.cert # None
        /\ stage \in {"leaf", "renew"} /\ Fresh => leaf.cert # None
    BY DEF UsedInv, TypeOK, KeyPair, Files, LeafInv, Whole
  <1>b. /\ files["cert"] # None =>
             \/ files["ca_cert"] = issued[files["cert"]].signer /\ files["ca_key"] # None
             \/ Old(files["cert"])
        /\ stage = "ca" /\ step # "look" /\ files["cert"] # None => Old(files["cert"])
        /\ stage \in {"leaf", "renew"} /\ Fresh => issued[leaf.cert].signer = ca.cert
        /\ stage \in {"tls", "reload"} =>
             ca.cert = issued[leaf.cert].signer \/ Old(leaf.cert)
        /\ stage \in Alive => served.ca = issued[served.leaf].signer \/ Old(served.leaf)
    BY DEF ChainInv, Signed, ChainBreaksOnlyByExpiry
  <1>d. ChainInv' <=>
          /\ files'["cert"] # None =>
               \/ files'["ca_cert"] = issued'[files'["cert"]].signer /\ files'["ca_key"] # None
               \/ Old2(files'["cert"])
          /\ stage' = "ca" /\ step' # "look" /\ files'["cert"] # None => Old2(files'["cert"])
          /\ stage' \in {"leaf", "renew"} /\ Fresh' => issued'[leaf'.cert].signer = ca'.cert
          /\ stage' \in {"tls", "reload"} =>
               ca'.cert = issued'[leaf'.cert].signer \/ Old2(leaf'.cert)
          /\ stage' \in Alive =>
               served'.ca = issued'[served'.leaf].signer \/ Old2(served'.leaf)
    BY DEF ChainInv, Signed, ChainBreaksOnlyByExpiry, ValidNow
  <1> HIDE DEF Old, Old2
  <1>1. CASE Start
    BY <1>1, <1>b, <1>d DEF Start, Old, Old2, ValidNow, Alive, Fresh
  <1>2. CASE LookCa
    <2>1. CASE Usable
      BY <1>2, <2>1, <1>b, <1>d DEF LookCa, Old, Old2, ValidNow, Alive, Fresh
    <2>2. CASE ~Usable
      <3>1. files["cert"] # None => Old(files["cert"])
        BY <1>2, <2>2, <1>a, <1>b DEF LookCa, Usable, CertFile, KeyFile, Old, ValidNow, UsedInv, None,
                                      Ids
      <3> QED
        BY <1>2, <2>2, <3>1, <1>b, <1>d DEF LookCa, Old, Old2, ValidNow, Alive, Fresh
    <2> QED
      BY <2>1, <2>2
  <1>3. CASE LookLeaf
    <2>1. files["ca_cert"] = ca.cert
      BY <1>3 DEF LookLeaf, CaInv
    <2> QED
      BY <1>3, <2>1, <1>b, <1>d DEF LookLeaf, Usable, Replace, CertFile, KeyFile, Old, Old2, ValidNow, Alive, Fresh
  <1>4. CASE RemoveCert \/ RemoveKey
    BY <1>4, <1>b, <1>d DEF RemoveCert, RemoveKey, Remove, CertFile, KeyFile, Old, Old2, ValidNow, Alive, Fresh, TypeOK, Files
  <1>5. CASE Make
    <2>1. stage # "ca" => ca.key = ca.cert
      BY <1>5 DEF Make, Writing, CaInv, Whole
    <2>2. made + 1 \in Pairs /\ issued'[made + 1] = NewCert(made + 1)
      BY <1>5, ConstantsOK DEF Make, TypeOK, Pairs
    <2>3. stage \in {"leaf", "renew"} => leaf'.cert = made + 1 /\ ca' = ca
      BY <1>5 DEF Make
    <2>4. stage \in {"leaf", "renew"} => issued'[leaf'.cert].signer = ca'.cert
      BY <2>1, <2>2, <2>3 DEF NewCert
    <2>5. UNCHANGED <<files, stage>> /\ step = "make" /\ stage \in {"ca", "leaf", "renew"}
          /\ UNCHANGED served
      BY <1>5 DEF Make, Writing
    <2> QED
      BY <2>4, <2>5, <1>0, <1>a, <1>b, <1>d DEF Alive, None
  <1>6. CASE CreateCert \/ CreateKey
    BY <1>6, <1>b, <1>d DEF CreateCert, CreateKey, Create, Abandon, Old, Old2, ValidNow, Alive, Fresh, Writing
  <1>7. CASE RenameCert
    BY <1>7, <1>b, <1>d DEF RenameCert, RenameTo, CertFile, InHand, CaInv, Whole, Old, Old2, ValidNow, Alive, Fresh, Writing, TypeOK, Files
  <1>8. CASE RenameKey
    BY <1>8, <1>b, <1>d DEF RenameKey, RenameTo, KeyFile, InHand, CaInv, Whole, Old, Old2, ValidNow, Alive, Fresh, Writing, TypeOK, Files
  <1>9. CASE FromPem \/ Reload
    BY <1>9, <1>b, <1>d DEF FromPem, Reload, Load, Abandon, Old, Old2, ValidNow, Alive, Fresh
  <1>10. CASE Renew
    BY <1>10, <1>b, <1>d DEF Renew, Abandon, Old, Old2, ValidNow, Alive, Fresh
  <1>11. CASE WriteFails
    BY <1>11, <1>b, <1>d DEF WriteFails, Abandon, Old, Old2, ValidNow, Alive, Fresh, Writing
  <1>12. CASE Retry \/ Crash
    BY <1>12, <1>b, <1>d DEF Retry, Crash, Old, Old2, ValidNow, Alive, Fresh
  <1>13. CASE Tick
    <2>1. UNCHANGED <<files, stage, step, ca, leaf, served>>
      BY <1>13 DEF Tick, work
    <2> QED
      BY <2>1, <1>0, <1>a, <1>b, <1>d DEF Fresh, None
  <1>14. CASE Bound \/ UNCHANGED vars
    BY <1>14, <1>b, <1>d DEF Bound, vars, work, Old, Old2, ValidNow, Alive, Fresh
  <1> QED
    BY <1>1, <1>2, <1>3, <1>4, <1>5, <1>6, <1>7, <1>8, <1>9, <1>10, <1>11, <1>12, <1>13,
       <1>14 DEF Next, Work

-----------------------------------------------------------------------------
\* A quick process never presents an expired leaf: one step.
LEMMA FreshStep == TypeOK /\ UsedInv /\ LeafInv /\ FreshInv /\ [Next]_vars => FreshInv'
  <1> SUFFICES ASSUME TypeOK, UsedInv, LeafInv, FreshInv, [Next]_vars PROVE FreshInv'
    OBVIOUS
  <1> USE DEF FreshInv, ServedFresh, Alive, ValidNow, Fresh
  <1>1. CASE Tick
    <2>1. /\ UNCHANGED <<issued, stage, step, leaf, served>>
          /\ slow' = (slow \/ ~Idle) /\ now' = now + 1
      BY <1>1 DEF Tick, work
    <2>2. CASE slow'
      BY <2>2
    <2>3. CASE ~slow'
      <3>1. ~slow /\ Idle
        BY <2>1, <2>3
      <3>2. CASE stage = "down"
        BY <2>1, <3>2
      <3>3. CASE stage = "serving" /\ ~Due
        <4>1. served.leaf \in Pairs
          BY <3>3 DEF TypeOK, LeafInv, Ids
        <4>2. issued[served.leaf].until \in Nat /\ now \in Nat
          BY <4>1 DEF TypeOK, Cert
        <4>3. now + 1 < issued[served.leaf].until
          BY <3>3, <4>2, ConstantsOK DEF Due
        <4> QED
          BY <2>1, <3>3, <4>3
      <3> QED
        BY <3>1, <3>2, <3>3 DEF Idle
    <2> QED
      BY <2>2, <2>3
  <1>2. CASE Make
    <2>1. made + 1 \in Pairs /\ issued'[made + 1] = NewCert(made + 1)
      BY <1>2, ConstantsOK DEF Make, TypeOK, Pairs
    <2>2. stage \in {"leaf", "renew"} => leaf'.cert = made + 1 /\ now' < issued'[made + 1].until
      BY <1>2, <2>1, ConstantsOK DEF Make, NewCert, TypeOK
    <2>3. stage \in Alive => issued'[served.leaf] = issued[served.leaf]
      BY IssuedKept DEF UsedInv, LeafInv, TypeOK, Ids
    <2>4. UNCHANGED <<stage, served, slow, now>> /\ stage \in {"ca", "leaf", "renew"}
      BY <1>2 DEF Make, Writing
    <2> QED
      BY <2>2, <2>3, <2>4
  <1>3. CASE LookLeaf
    BY <1>3 DEF LookLeaf, Usable, Replace, CertFile
  <1>4. CASE Start \/ LookCa \/ RemoveCert \/ RemoveKey
    BY <1>4 DEF Start, LookCa, RemoveCert, RemoveKey, Remove, Replace
  <1>5. CASE CreateCert \/ CreateKey
    BY <1>5 DEF CreateCert, CreateKey, Create, Abandon
  <1>6. CASE RenameCert \/ RenameKey
    BY <1>6 DEF RenameCert, RenameKey, Writing
  <1>7. CASE FromPem \/ Reload
    BY <1>7 DEF FromPem, Reload, Load, Abandon
  <1>8. CASE Renew
    BY <1>8 DEF Renew, Abandon
  <1>9. CASE WriteFails
    BY <1>9 DEF WriteFails, Abandon
  <1>10. CASE Retry \/ Crash
    BY <1>10 DEF Retry, Crash
  <1>11. CASE Bound \/ UNCHANGED vars
    BY <1>11 DEF Bound, vars, work
  <1> QED
    BY <1>1, <1>2, <1>3, <1>4, <1>5, <1>6, <1>7, <1>8, <1>9, <1>10, <1>11 DEF Next, Work

-----------------------------------------------------------------------------
\* The initial state has all parts of the invariant.
LEMMA CacheInit == Init => CacheInv
  <1> SUFFICES ASSUME Init PROVE CacheInv
    OBVIOUS
  <1>1. UsedInv
    BY ConstantsOK DEF Init, UsedInv, NoPair, NoChain, Files, None, Pairs
  <1>2. CaInv
    BY DEF Init, CaInv, CaPairMatches, RenewalFindsCa, Alive, Files, None
  <1>3. LeafInv
    BY DEF Init, LeafInv, OnlyRenewalTears, Torn, Alive, Files, None
  <1>4. ChainInv
    BY DEF Init, ChainInv, ChainBreaksOnlyByExpiry, Alive, Files, None
  <1>5. FreshInv
    BY DEF Init, FreshInv, ServedFresh, Alive
  <1> QED
    BY <1>1, <1>2, <1>3, <1>4, <1>5 DEF CacheInv

\* The parts of the invariant hold together.
THEOREM CacheCorrect == Spec => []CacheInv
  <1>1. TypeOK /\ CacheInv /\ [Next]_vars => CacheInv'
    BY CaStep, UsedStep, LeafStep, ChainStep, FreshStep DEF CacheInv
  <1> QED
    BY <1>1, CacheInit, CacheTypes, PTL DEF Spec

\* Whatever a crash or a failed write interrupts: the CA files match, a running
\* process finds the CA it presents in the cache, and only a renewal separates
\* a leaf certificate from its key.
THEOREM FilesCorrect == Spec => [](CaPairMatches /\ RenewalFindsCa /\ OnlyRenewalTears)
  <1>1. CacheInv => CaPairMatches /\ RenewalFindsCa /\ OnlyRenewalTears
    BY DEF CacheInv, CaInv, LeafInv
  <1> QED
    BY <1>1, CacheCorrect, PTL

\* The leaf that is presented was signed by the CA presented with it, or by one
\* that has expired.
THEOREM ChainCorrect == Spec => []ChainBreaksOnlyByExpiry
  <1>1. CacheInv => ChainBreaksOnlyByExpiry
    BY DEF CacheInv, ChainInv
  <1> QED
    BY <1>1, CacheCorrect, PTL

\* A process that loses no time over its renewals never presents an expired
\* leaf.
THEOREM FreshCorrect == Spec => []ServedFresh
  <1>1. CacheInv => ServedFresh
    BY DEF CacheInv, FreshInv
  <1> QED
    BY <1>1, CacheCorrect, PTL

\* A leaf certificate is apart from its key only after a renewal was interrupted.
THEOREM TornCorrect == Spec => []OnlyRenewalTears
  BY FilesCorrect, PTL
=============================================================================
