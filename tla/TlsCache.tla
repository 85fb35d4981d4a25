------------------------------ MODULE TlsCache ------------------------------
(***************************************************************************)
(* The cache of self-signed certificates: load_or_generate_self_signed at    *)
(* the start of a process, renew_self_signed_loop while it runs, and the      *)
(* files both leave behind when a process dies or a write fails half-way.     *)
(*                                                                         *)
(* A key pair and its certificate carry the number of the pair; a file holds  *)
(* the number of the pair whose certificate or key is in it.  Subjects,        *)
(* permissions and symbolic links are left out: one program writes the         *)
(* directory.  Without a cache directory nothing is persisted and nothing of   *)
(* this applies.  The clock has an arbitrary unit.                             *)
(***************************************************************************)
EXTENDS Naturals

CONSTANTS
  CaValid, LeafValid,  \* validity of new certificates, in units of the clock
  Margin,              \* renew_margin
  SamePid,             \* TRUE: every run has the same process id (a container)
  MaxTime, MaxPairs, MaxCrashes, MaxFailures  \* bounds

\* validate_with_root requires LeafValid < CaValid; for Margin see RenewMargin.
ASSUME ConstantsOK ==
  /\ CaValid \in Nat /\ LeafValid \in Nat /\ Margin \in Nat
  /\ 1 <= Margin /\ Margin < LeafValid /\ LeafValid < CaValid
  /\ SamePid \in BOOLEAN
  /\ MaxTime \in Nat /\ MaxPairs \in Nat /\ MaxCrashes \in Nat /\ MaxFailures \in Nat

Files == {"ca_cert", "ca_key", "cert", "key"}
Pairs == 1 .. MaxPairs
None  == 0
Ids   == Pairs \cup {None}

VARIABLES
  now,      \* the clock
  made,     \* pairs generated so far
  issued,   \* the certificate of each pair
  files,    \* the cache directory
  tmp,      \* temporary files next to each file: "plain" and with the "pid"
  stage,    \* what the process is at
  step,     \* where it is in loading or making a pair
  ca, leaf, \* the pairs it has in memory
  served,   \* what the TLS acceptor presents: leaf and CA
  slow,     \* time has passed while the process had something to do
  crashes, failures

work == <<stage, step, ca, leaf, served>>
vars == <<now, made, issued, files, tmp, work, slow, crashes, failures>>

Writing == {"ca", "leaf", "renew"}
Alive   == {"serving", "renew", "reload", "retry"}
Stages  == {"down", "ca", "leaf", "tls"} \cup Alive
Steps   == {"look", "remove_cert", "remove_key", "make",
            "create_cert", "rename_cert", "create_key", "rename_key"}
Cert    == [signer : Ids, until : Nat, renewal : BOOLEAN]
KeyPair == [cert : Ids, key : Ids]
NoPair  == [cert |-> None, key |-> None]
NoChain == [leaf |-> None, ca |-> None]

TypeOK ==
  /\ now \in Nat
  /\ made \in 0 .. MaxPairs
  /\ issued \in [Pairs -> Cert]
  /\ files \in [Files -> Ids]
  /\ tmp \in [Files -> SUBSET {"plain", "pid"}]
  /\ stage \in Stages
  /\ step \in Steps
  /\ ca \in KeyPair
  /\ leaf \in KeyPair
  /\ served \in [leaf : Ids, ca : Ids]
  /\ slow \in BOOLEAN
  /\ crashes \in 0 .. MaxCrashes
  /\ failures \in 0 .. MaxFailures

Init ==
  /\ now = 0
  /\ made = 0
  /\ issued = [p \in Pairs |-> [signer |-> None, until |-> 0, renewal |-> FALSE]]
  /\ files = [f \in Files |-> None]
  /\ tmp = [f \in Files |-> {}]
  /\ stage = "down" /\ step = "look"
  /\ ca = NoPair /\ leaf = NoPair /\ served = NoChain
  /\ slow = FALSE
  /\ crashes = 0 /\ failures = 0

CertFile == IF stage = "ca" THEN "ca_cert" ELSE "cert"
KeyFile  == IF stage = "ca" THEN "ca_key" ELSE "key"

\* validate_validity_now: not_after is inclusive, which a unit of the clock (longer
\* than a second) leaves out.
ValidNow(p) == now < issued[p].until

-----------------------------------------------------------------------------
(* Loading what the last run has left.                                     *)

\* The process starts; temporary files named after another process id are not
\* in its way.
Start ==
  /\ stage = "down"
  /\ stage' = "ca" /\ step' = "look"
  /\ tmp' = [f \in Files |-> IF SamePid THEN tmp[f] ELSE tmp[f] \ {"pid"}]
  /\ UNCHANGED <<now, made, issued, files, ca, leaf, served, slow, crashes, failures>>

\* Mutant: what is left of a broken pair is not deleted first.
Replace_InPlace == "make"

\* A pair that cannot be used is deleted before a new one is made.
Replace ==
  IF files[CertFile] = None /\ files[KeyFile] = None THEN "make" ELSE "remove_cert"

\* Mutant: a CA is made for every run.
Usable_LeafOnly ==
  /\ stage = "leaf"
  /\ files[CertFile] # None /\ files[KeyFile] # None
  /\ ValidNow(files[CertFile])

\* Both files are there and the certificate is valid now, has the expected
\* subject and names the expected issuer.
Usable ==
  /\ files[CertFile] # None /\ files[KeyFile] # None
  /\ ValidNow(files[CertFile])

LookCa ==
  /\ stage = "ca" /\ step = "look"
  /\ IF Usable
     THEN /\ ca' = [cert |-> files["ca_cert"], key |-> files["ca_key"]]
          /\ stage' = "leaf"
          /\ UNCHANGED step
     ELSE /\ step' = Replace
          /\ UNCHANGED <<stage, ca>>
  /\ UNCHANGED <<now, made, issued, files, tmp, leaf, served, slow, crashes, failures>>

LookLeaf ==
  /\ stage = "leaf" /\ step = "look"
  /\ IF Usable
     THEN /\ leaf' = [cert |-> files["cert"], key |-> files["key"]]
          /\ stage' = "tls"
          /\ UNCHANGED step
     ELSE /\ step' = Replace
          /\ UNCHANGED <<stage, leaf>>
  /\ UNCHANGED <<now, made, issued, files, tmp, ca, served, slow, crashes, failures>>

\* delete_cached_pair: the certificate first.
Remove(at, file, next) ==
  /\ stage \in {"ca", "leaf"} /\ step = at
  /\ files' = [files EXCEPT ![file] = None]
  /\ step' = next
  /\ UNCHANGED <<now, made, issued, tmp, stage, ca, leaf, served, slow, crashes, failures>>

RemoveCert == Remove("remove_cert", CertFile, "remove_key")
RemoveKey  == Remove("remove_key", KeyFile, "make")

-----------------------------------------------------------------------------
(* A new pair: generate it, then write certificate and key.                *)

\* generate_local_ca_with_validity_and_dn or generate_leaf_signed_by_local_ca
NewCert(p) ==
  [signer  |-> IF stage = "ca" THEN p ELSE ca.key,
   until   |-> now + (IF stage = "ca" THEN CaValid ELSE LeafValid),
   renewal |-> stage = "renew"]

Make ==
  /\ stage \in Writing /\ step = "make"
  /\ made < MaxPairs
  /\ made' = made + 1
  /\ issued' = [issued EXCEPT ![made + 1] = NewCert(made + 1)]
  /\ LET pair == [cert |-> made + 1, key |-> made + 1]
     IN IF stage = "ca" THEN ca' = pair /\ UNCHANGED leaf
                        ELSE leaf' = pair /\ UNCHANGED ca
  /\ step' = "create_cert"
  /\ UNCHANGED <<now, files, tmp, stage, served, slow, crashes, failures>>

\* Mutants: only one name for the temporary file; a third one.
TmpName_OneOnly(f) == "plain"
TmpName_Third(f) ==
  IF "pid" \in tmp[f] THEN "third" ELSE IF "plain" \in tmp[f] THEN "pid" ELSE "plain"

\* atomic_write_file_0600: the name of the temporary file.
TmpName(f) == IF "plain" \in tmp[f] THEN "pid" ELSE "plain"

\* A start fails and the process exits; the renewal loop logs it and waits.
Abandon ==
  /\ stage' = IF stage \in Alive THEN "retry" ELSE "down"
  /\ step' = "look"
  /\ ca' = NoPair /\ leaf' = NoPair
  /\ UNCHANGED served

\* OpenOptions::create_new fails if there is a file of that name.
Create(at, f, next) ==
  /\ stage \in Writing /\ step = at
  /\ IF TmpName(f) \in tmp[f]
     THEN Abandon /\ UNCHANGED tmp
     ELSE /\ tmp' = [tmp EXCEPT ![f] = @ \cup {TmpName(f)}]
          /\ step' = next
          /\ UNCHANGED <<stage, ca, leaf, served>>
  /\ UNCHANGED <<now, made, issued, files, slow, crashes, failures>>

CreateCert == Create("create_cert", CertFile, "rename_cert")
CreateKey  == Create("create_key", KeyFile, "rename_key")

\* The temporary file this process has created: the last of the two names.
Created(f) == IF "pid" \in tmp[f] THEN "pid" ELSE "plain"

\* The contents are on the disk; rename replaces the file.
RenameTo(f, p) ==
  /\ files' = [files EXCEPT ![f] = p]
  /\ tmp' = [tmp EXCEPT ![f] = @ \ {Created(f)}]

InHand == IF stage = "ca" THEN ca ELSE leaf

RenameCert ==
  /\ stage \in Writing /\ step = "rename_cert"
  /\ RenameTo(CertFile, InHand.cert)
  /\ step' = "create_key"
  /\ UNCHANGED <<now, made, issued, stage, ca, leaf, served, slow, crashes, failures>>

RenameKey ==
  /\ stage \in Writing /\ step = "rename_key"
  /\ RenameTo(KeyFile, InHand.key)
  /\ stage' = CASE stage = "ca"    -> "leaf"
                [] stage = "leaf"  -> "tls"
                [] stage = "renew" -> "reload"
  /\ step' = "look"
  /\ UNCHANGED <<now, made, issued, ca, leaf, served, slow, crashes, failures>>

\* The disk is full, or the like: the temporary file stays.
WriteFails ==
  /\ stage \in Writing /\ step \in {"rename_cert", "rename_key"}
  /\ failures < MaxFailures
  /\ failures' = failures + 1
  /\ Abandon
  /\ UNCHANGED <<now, made, issued, files, tmp, slow, crashes>>

-----------------------------------------------------------------------------
(* Serving and renewing.                                                   *)

\* RustlsConfig::from_pem and reload_from_pem refuse a key that is not the
\* certificate's.
Load(at) ==
  /\ stage = at
  /\ IF leaf.cert = leaf.key
     THEN /\ served' = [leaf |-> leaf.cert, ca |-> ca.cert]
          /\ stage' = "serving" /\ step' = "look"
          /\ ca' = NoPair /\ leaf' = NoPair
     ELSE Abandon
  /\ UNCHANGED <<now, made, issued, files, tmp, slow, crashes, failures>>

FromPem == Load("tls")
Reload  == Load("reload")

\* Mutant: the loop sleeps until the certificate has expired.
Due_AtExpiry == issued[served.leaf].until <= now

\* The renewal loop has slept until the leaf it serves is in the margin.
Due == issued[served.leaf].until <= now + Margin

\* generate_and_persist_self_signed reads the CA again.
Renew ==
  /\ stage = "serving" /\ Due
  /\ IF files["ca_cert"] # None /\ files["ca_key"] # None
     THEN /\ stage' = "renew" /\ step' = "make"
          /\ ca' = [cert |-> files["ca_cert"], key |-> files["ca_key"]]
          /\ UNCHANGED <<leaf, served>>
     ELSE Abandon
  /\ UNCHANGED <<now, made, issued, files, tmp, slow, crashes, failures>>

\* The loop has waited after an error and starts over.
Retry ==
  /\ stage = "retry"
  /\ stage' = "serving"
  /\ UNCHANGED <<now, made, issued, files, tmp, step, ca, leaf, served, slow,
                 crashes, failures>>

-----------------------------------------------------------------------------
(* Environment.                                                            *)

Idle == stage = "down" \/ (stage = "serving" /\ ~Due)

Tick ==
  /\ now < MaxTime
  /\ now' = now + 1
  /\ slow' = (slow \/ ~Idle)
  /\ UNCHANGED <<made, issued, files, tmp, work, crashes, failures>>

\* The process dies between any two steps.
Crash ==
  /\ stage # "down"
  /\ crashes < MaxCrashes
  /\ crashes' = crashes + 1
  /\ stage' = "down" /\ step' = "look"
  /\ ca' = NoPair /\ leaf' = NoPair /\ served' = NoChain
  /\ UNCHANGED <<now, made, issued, files, tmp, slow, failures>>

\* The bounds are reached.
Bound ==
  /\ now = MaxTime \/ made = MaxPairs
  /\ UNCHANGED vars

Work ==
  \/ Start \/ LookCa \/ LookLeaf \/ RemoveCert \/ RemoveKey
  \/ Make \/ CreateCert \/ RenameCert \/ CreateKey \/ RenameKey
  \/ FromPem \/ Reload \/ Renew \/ Retry

Next == Work \/ WriteFails \/ Tick \/ Crash \/ Bound

\* The process makes progress, and is started again after it has ended.
Spec == Init /\ [][Next]_vars /\ WF_vars(Work)

-----------------------------------------------------------------------------
(* The margin, in seconds.                                                 *)

AtMost(a, b)  == IF a <= b THEN a ELSE b
AtLeast(a, b) == IF a >= b THEN a ELSE b
Minus(a, b)   == IF a >= b THEN a - b ELSE 0   \* saturating_sub

\* serve_self_signed's margin for a leaf valid for v seconds, as the loop
\* clamps it.
RenewMargin(v) ==
  LET fifth  == AtMost(AtLeast(v \div 5, 1), 600)
      passed == IF fifth >= v THEN AtLeast(Minus(v, 1), 1) ELSE fifth
  IN AtLeast(AtMost(passed, Minus(v, 1)), 1)

-----------------------------------------------------------------------------
(* Properties.                                                             *)

\* Whatever a crash or a failed write interrupts, the CA certificate and the CA
\* key in the cache never belong to different pairs.
CaPairMatches ==
  files["ca_cert"] # None /\ files["ca_key"] # None => files["ca_cert"] = files["ca_key"]

Torn == files["cert"] # None /\ files["key"] # None /\ files["cert"] # files["key"]

\* A leaf certificate lies next to the key of another leaf only if a renewal
\* put it there: load_or_generate_self_signed deletes both before it writes.
OnlyRenewalTears == Torn => issued[files["cert"]].renewal

\* "CA must exist by now (created by load_or_generate_self_signed)": while a
\* process serves, the CA in the cache is complete and is the one it presents.
RenewalFindsCa ==
  stage \in Alive =>
    /\ files["ca_cert"] # None
    /\ files["ca_key"] = files["ca_cert"]
    /\ served.ca = files["ca_cert"]

\* The leaf that is presented was signed by the CA presented with it, or by a
\* CA that has expired: no other interruption breaks the chain.
ChainBreaksOnlyByExpiry ==
  stage \in Alive =>
    LET signer == issued[served.leaf].signer
    IN served.ca = signer \/ ~ValidNow(signer)

\* If the process is quick and its renewals do not fail, it never presents an
\* expired leaf.
ServedFresh == stage \in Alive /\ ~slow => ValidNow(served.leaf)

\* Why these hold.  The files of a pair while it is replaced: nothing is
\* written before both old files are gone.
Replacing(certFile, keyFile, pair) ==
  /\ step = "remove_key" => certFile = None
  /\ step \in {"make", "create_cert", "rename_cert"} => certFile = None /\ keyFile = None
  /\ step \in {"create_key", "rename_key"} => certFile = pair.cert /\ keyFile = None

Fresh == step \in {"create_cert", "rename_cert", "create_key", "rename_key"}

Whole(pair) == pair.cert # None /\ pair.key = pair.cert

\* The CA: replaced in order, complete in every later stage.
CaInv ==
  /\ CaPairMatches
  /\ stage = "ca" => Replacing(files["ca_cert"], files["ca_key"], ca)
  /\ stage = "ca" /\ Fresh => Whole(ca)
  /\ stage \in {"leaf", "tls", "renew", "reload"} =>
       Whole(ca) /\ files["ca_cert"] = ca.cert /\ files["ca_key"] = ca.key
  /\ RenewalFindsCa

\* The leaf: replaced in order at a start, in place by a renewal.
LeafInv ==
  /\ OnlyRenewalTears
  /\ stage = "leaf" => Replacing(files["cert"], files["key"], leaf)
  /\ stage \in {"leaf", "renew"} /\ Fresh => Whole(leaf)
  /\ stage = "renew" => step \in {"make", "create_cert", "rename_cert",
                                 "create_key", "rename_key"}
  /\ stage = "renew" /\ Fresh => issued[leaf.cert].renewal
  /\ stage = "renew" /\ step \in {"create_key", "rename_key"} => files["cert"] = leaf.cert
  /\ stage = "reload" => Whole(leaf)
  /\ stage = "tls" => leaf.cert # None /\ leaf.key # None
  /\ stage \in Alive => served.leaf # None

\* Numbers in use belong to pairs that have been made.
UsedInv ==
  /\ \A f \in Files : files[f] <= made
  /\ ca.cert <= made /\ ca.key <= made /\ leaf.cert <= made /\ leaf.key <= made
  /\ served.leaf <= made /\ served.ca <= made
  /\ \A p \in Pairs : p <= made => issued[p].signer \in 1 .. made

\* The signer of a leaf is the CA that goes with it, or has expired.
Signed(l, c) == c = issued[l].signer \/ ~ValidNow(issued[l].signer)

ChainInv ==
  /\ files["cert"] # None =>
       \/ files["ca_cert"] = issued[files["cert"]].signer /\ files["ca_key"] # None
       \/ ~ValidNow(issued[files["cert"]].signer)
  /\ stage = "ca" /\ step # "look" /\ files["cert"] # None =>
       ~ValidNow(issued[files["cert"]].signer)
  /\ stage \in {"leaf", "renew"} /\ Fresh => issued[leaf.cert].signer = ca.cert
  /\ stage \in {"tls", "reload"} => Signed(leaf.cert, ca.cert)
  /\ ChainBreaksOnlyByExpiry

\* Between looking at a leaf and presenting it a quick process loses no time.
FreshInv ==
  /\ ~slow /\ stage \in {"leaf", "renew"} /\ Fresh => ValidNow(leaf.cert)
  /\ ~slow /\ stage \in {"tls", "reload"} => ValidNow(leaf.cert)
  /\ ServedFresh

CacheInv == CaInv /\ LeafInv /\ UsedInv /\ ChainInv /\ FreshInv

\* Both names of the temporary file to be created are taken.
Blocked ==
  /\ stage \in Writing
  /\ \/ step = "create_cert" /\ {"plain", "pid"} \subseteq tmp[CertFile]
     \/ step = "create_key" /\ {"plain", "pid"} \subseteq tmp[KeyFile]

\* When crashes and failed writes stop, some run of the process gets to serve,
\* stays up and gets its renewals done, unless a torn leaf pair is left in its
\* way or two temporary files of one name ever were.
Recovers == []~Blocked /\ <>[]~Torn => <>[](stage = "serving" /\ ~Due)

\* TlsMaterial: "Private key corresponding to the leaf certificate."
MaterialMatches == stage \in {"tls", "reload"} => leaf.cert = leaf.key
=============================================================================
