-------------------------------- MODULE Dns01 --------------------------------
(***************************************************************************)
(* Certificates by ACME DNS-01: the command acme-dns-register, the start of a  *)
(* server in mode dns-01 (serve_acme_dns01), the files both keep in the cache  *)
(* directory, and the parties they talk to: acme-dns, whose one TXT record     *)
(* answers for every name of the server, and the CA, which looks at the record *)
(* some time after a challenge was declared ready.                             *)
(*                                                                         *)
(* Accounts and certificates are numbers in order of creation; a certificate   *)
(* file or key file holds the number of the certificate it belongs to.          *)
(* atomic_write_file_0600 is one step that happens or does not: TlsCache has    *)
(* its temporary files.                                                        *)
(***************************************************************************)
EXTENDS Integers, Sequences, FiniteSets

CONSTANTS
  Names,      \* host names
  Configs,    \* the sets of names the server may be configured for
  TxtKept,    \* values the TXT record of an acme-dns account keeps
  Validity,   \* of a certificate, in units of the clock
  MaxTime, MaxCerts, MaxCrashes, MaxFailures   \* bounds

\* build_acme_domains refuses an empty list of names.
ASSUME ConfigsOK == Configs \subseteq (SUBSET Names) \ {{}} /\ Configs # {}
ASSUME NumbersOK ==
  /\ TxtKept \in Nat \ {0} /\ Validity \in Nat \ {0}
  /\ MaxTime \in Nat /\ MaxCerts \in Nat /\ MaxCrashes \in Nat /\ MaxFailures \in Nat

None == 0
Torn == -1                 \* a file that was created and never filled
Numbers == Nat \ {0}
Credentials == Numbers \cup {None, Torn}
Certs == 1 .. MaxCerts

VARIABLES
  now,       \* the clock
  dnsCreds,  \* acme-dns-credentials.json
  cname,     \* the acme-dns account that the names' CNAME records point to
  dnsAccts,  \* acme-dns accounts registered so far
  cli,       \* where acme-dns-register is
  acctFile,  \* acme-account-credentials.json
  accts,     \* ACME accounts registered so far
  txt,       \* the values in the TXT record, oldest first
  open,      \* challenges declared ready that the CA has not looked at
  proved,    \* names the CA holds a valid authorization for
  granted,   \* names of the current order that are authorized
  spoiled,   \* why the current order is invalid
  files,     \* acme-dns01-cert.pem, acme-dns01-key.pem
  issued, made,  \* certificates, and how many
  stage,     \* what the server is at
  domains,   \* the names it is configured for
  asked,     \* names it has published a value for in the current order, in order
  hand, old, \* the certificate it has in memory; those made before it started
  crashes, failures

register == <<dnsCreds, cname, dnsAccts, cli>>
account  == <<acctFile, accts>>
ca       == <<open, proved, granted, spoiled>>
server   == <<stage, domains, asked, hand, old>>
vars == <<now, register, account, txt, ca, files, issued, made, server,
          crashes, failures>>

\* A challenge of the current order or of an earlier one; its TXT value.
Challenges == [name : Names, order : {"current", "earlier"}]
Current(n) == [name |-> n, order |-> "current"]
Earlier(c) == [c EXCEPT !.order = "earlier"]

Ordering == {"order", "publish", "ready", "poll", "finalize"}
Stages   == {"down", "look", "remove_cert", "remove_key", "creds", "account",
             "create", "fill", "write_cert", "write_key", "load", "serving"} \cup Ordering

\* The credentials; the pair and the certificates; the record and the order.
AccountTypes ==
  /\ dnsCreds \in Credentials /\ cname \in Nat /\ dnsAccts \in Nat
  /\ cli \in {"idle", "register", "create", "fill", "print"}
  /\ acctFile \in Credentials /\ accts \in Nat
CertTypes ==
  /\ now \in Nat
  /\ files \in [{"cert", "key"} -> Certs \cup {None}]
  /\ issued \in [Certs -> [names : SUBSET Names, until : Nat]]
  /\ made \in 0 .. MaxCerts /\ old \in 0 .. MaxCerts
  /\ hand \in [{"cert", "key"} -> Certs \cup {None}]
  /\ stage \in Stages /\ domains \in SUBSET Names
  /\ crashes \in 0 .. MaxCrashes /\ failures \in 0 .. MaxFailures
RecordTypes ==
  /\ txt \in Seq(Challenges) /\ Len(txt) <= TxtKept
  /\ asked \in Seq(Names)
  /\ open \subseteq Challenges /\ proved \subseteq Names /\ granted \subseteq Names
  /\ spoiled \in {"no", "no_record", "other_value"}

TypeOK == AccountTypes /\ CertTypes /\ RecordTypes

NoPair == [f \in {"cert", "key"} |-> None]

Init ==
  /\ now = 0
  /\ dnsCreds = None /\ cname = None /\ dnsAccts = 0 /\ cli = "idle"
  /\ acctFile = None /\ accts = 0
  /\ txt = <<>>
  /\ open = {} /\ proved = {} /\ granted = {} /\ spoiled = "no"
  /\ files = [f \in {"cert", "key"} |-> None]
  /\ issued = [c \in Certs |-> [names |-> {}, until |-> 0]] /\ made = 0
  /\ stage = "down" /\ domains = {} /\ asked = <<>> /\ hand = NoPair /\ old = 0
  /\ crashes = 0 /\ failures = 0

-----------------------------------------------------------------------------
(* The command acme-dns-register; an operator runs one at a time.           *)

\* Mutant: every run of the command registers an account.
RegisterNext_Always == "register"

\* An existing credentials file is loaded and its account printed; one that
\* cannot be parsed ends the command.
RegisterNext ==
  CASE dnsCreds = None -> "register" [] dnsCreds = Torn -> "idle" [] OTHER -> "print"

RegisterStart ==
  /\ cli = "idle"
  /\ cli' = RegisterNext
  /\ UNCHANGED <<now, dnsCreds, cname, dnsAccts, account, txt, ca, files, issued, made,
                 server, crashes, failures>>

RegisterAccount ==
  /\ cli = "register"
  /\ dnsAccts' = dnsAccts + 1
  /\ cli' = "create"
  /\ UNCHANGED <<now, dnsCreds, cname, account, txt, ca, files, issued, made,
                 server, crashes, failures>>

\* fs::write creates or truncates the file, and then writes the contents.
RegisterCreate ==
  /\ cli = "create"
  /\ dnsCreds' = Torn
  /\ cli' = "fill"
  /\ UNCHANGED <<now, cname, dnsAccts, account, txt, ca, files, issued, made,
                 server, crashes, failures>>

RegisterFill ==
  /\ cli = "fill"
  /\ dnsCreds' = dnsAccts
  /\ cli' = "print"
  /\ UNCHANGED <<now, cname, dnsAccts, account, txt, ca, files, issued, made,
                 server, crashes, failures>>

\* The command prints the CNAME records, and the operator creates them.
RegisterPrint ==
  /\ cli = "print"
  /\ cname' = dnsCreds
  /\ cli' = "idle"
  /\ UNCHANGED <<now, dnsCreds, dnsAccts, account, txt, ca, files, issued, made,
                 server, crashes, failures>>

Register ==
  RegisterStart \/ RegisterAccount \/ RegisterCreate \/ RegisterFill \/ RegisterPrint

-----------------------------------------------------------------------------
(* load_or_request_dns01_cert: the cached pair.                            *)

\* The server is started, by an operator or a supervisor.
Start ==
  /\ stage = "down"
  /\ stage' = "look"
  /\ \E names \in Configs : domains' = names
  /\ old' = made
  /\ UNCHANGED <<now, register, account, txt, ca, files, issued, made, asked, hand,
                 crashes, failures>>

\* pem_cert_is_valid_now; not_after is inclusive, which a unit of the clock leaves out.
ValidNow(c) == now < issued[c].until

\* Mutants: an unusable pair is not deleted before a new one is made; half a pair
\* is an error.
LookNext_InPlace ==
  IF files["cert"] # None /\ files["key"] # None /\ ValidNow(files["cert"])
  THEN "load" ELSE "creds"
LookNext_HalfFails ==
  IF files["cert"] = None /\ files["key"] = None THEN "creds"
  ELSE IF files["cert"] = None \/ files["key"] = None THEN "down"
  ELSE IF ValidNow(files["cert"]) THEN "load" ELSE "remove_cert"

\* The pair is used if it is complete and its certificate valid now, and deleted
\* if it is not; the names it was issued for are not looked at.
LookNext ==
  LET there == {f \in {"cert", "key"} : files[f] # None}
  IN CASE there = {} -> "creds"
       [] there = {"cert", "key"} /\ ValidNow(files["cert"]) -> "load"
       [] OTHER -> "remove_cert"

Look ==
  /\ stage = "look"
  /\ stage' = LookNext
  /\ hand' = IF LookNext = "load" THEN files ELSE NoPair
  /\ UNCHANGED <<now, register, account, txt, ca, files, issued, made, domains, asked,
                 old, crashes, failures>>

\* delete_cached_pair: the certificate first.
Remove(at, file, next) ==
  /\ stage = at
  /\ files' = [files EXCEPT ![file] = None]
  /\ stage' = next
  /\ UNCHANGED <<now, register, account, txt, ca, issued, made, domains, asked, hand, old,
                 crashes, failures>>

RemoveCert == Remove("remove_cert", "cert", "remove_key")
RemoveKey  == Remove("remove_key", "key", "creds")

\* AcmeDnsProvider::from_cache: without usable credentials the start fails.
LoadCreds ==
  /\ stage = "creds"
  /\ stage' = IF dnsCreds \in Numbers THEN "account" ELSE "down"
  /\ UNCHANGED <<now, register, account, txt, ca, files, issued, made, domains, asked,
                 hand, old, crashes, failures>>

-----------------------------------------------------------------------------
(* obtain_certificate_with_dns01                                           *)

\* Mutant: an account is registered at every start.
AccountNext_Always == "create"

\* create_or_load_account
AccountNext ==
  CASE acctFile = None -> "create" [] acctFile = Torn -> "down" [] OTHER -> "order"

LoadOrRegister ==
  /\ stage = "account"
  /\ stage' = AccountNext
  /\ accts' = IF AccountNext = "create" THEN accts + 1 ELSE accts
  /\ UNCHANGED <<now, register, acctFile, txt, ca, files, issued, made, domains, asked,
                 hand, old, crashes, failures>>

CreateAccountFile ==
  /\ stage = "create"
  /\ acctFile' = Torn
  /\ stage' = "fill"
  /\ UNCHANGED <<now, register, accts, txt, ca, files, issued, made, domains, asked,
                 hand, old, crashes, failures>>

FillAccountFile ==
  /\ stage = "fill"
  /\ acctFile' = accts
  /\ stage' = "order"
  /\ UNCHANGED <<now, register, accts, txt, ca, files, issued, made, domains, asked,
                 hand, old, crashes, failures>>

\* A new order for all names; the CA reuses valid authorizations of the account.
\* What is left of earlier orders is of no use to this one.
NewOrder ==
  /\ stage = "order"
  /\ granted' = proved \cap domains
  /\ spoiled' = "no"
  /\ open' = {Earlier(c) : c \in open}
  /\ txt' = [i \in DOMAIN txt |-> Earlier(txt[i])]
  /\ asked' = <<>>
  /\ stage' = "publish"
  /\ UNCHANGED <<now, register, account, proved, files, issued, made, domains, hand, old,
                 crashes, failures>>

Elements(s) == {s[i] : i \in DOMAIN s}

\* Names whose authorization is pending and not yet worked on.
Pending == domains \ (granted \cup Elements(asked))

\* acme-dns keeps the last values, whatever name they were for.
Keep(s, v) ==
  LET t == Append(s, v)
  IN IF Len(t) > TxtKept THEN Tail(t) ELSE t

\* Mutant: a value that is in the record already is left there.
Published_Once(n) == IF txt = <<>> THEN Keep(txt, Current(n)) ELSE txt

\* set_challenge_txt
Published(n) == Keep(txt, Current(n))

\* The next pending authorization; the CA lists them in an order of its own.
Publish ==
  /\ stage = "publish"
  /\ \E n \in Pending : txt' = Published(n) /\ asked' = Append(asked, n)
  /\ stage' = "ready"
  /\ UNCHANGED <<now, register, account, ca, files, issued, made, domains, hand, old,
                 crashes, failures>>

\* challenge.set_ready()
SetReady ==
  /\ stage = "ready"
  /\ open' = open \cup {Current(asked[Len(asked)])}
  /\ stage' = "publish"
  /\ UNCHANGED <<now, register, account, txt, proved, granted, spoiled, files, issued, made,
                 domains, asked, hand, old, crashes, failures>>

AllAsked ==
  /\ stage = "publish" /\ Pending = {}
  /\ stage' = "poll"
  /\ UNCHANGED <<now, register, account, txt, ca, files, issued, made, domains, asked,
                 hand, old, crashes, failures>>

\* poll_ready: the order has become ready or invalid.
PollReady ==
  /\ stage = "poll"
  /\ granted = domains \/ spoiled # "no"
  /\ stage' = IF granted = domains THEN "finalize" ELSE "down"
  /\ UNCHANGED <<now, register, account, txt, ca, files, issued, made, domains, asked,
                 hand, old, crashes, failures>>

\* The polls are used up before the CA has an answer; it goes on without us.
PollTimesOut ==
  /\ stage = "poll" /\ granted # domains
  /\ failures < MaxFailures
  /\ failures' = failures + 1
  /\ stage' = "down"
  /\ UNCHANGED <<now, register, account, txt, ca, files, issued, made, domains, asked,
                 hand, old, crashes>>

\* Mutant: the request names only what had to be proved.
OrderedNames_Asked == Elements(asked)

\* The identifiers of the order.
OrderedNames == domains

\* finalize and poll_certificate
Finalize ==
  /\ stage = "finalize"
  /\ made < MaxCerts
  /\ made' = made + 1
  /\ issued' = [issued EXCEPT ![made + 1] = [names |-> OrderedNames, until |-> now + Validity]]
  /\ hand' = [f \in {"cert", "key"} |-> made + 1]
  /\ stage' = "write_cert"
  /\ UNCHANGED <<now, register, account, txt, ca, files, domains, asked, old,
                 crashes, failures>>

Write(at, file, next) ==
  /\ stage = at
  /\ files' = [files EXCEPT ![file] = hand[file]]
  /\ stage' = next
  /\ UNCHANGED <<now, register, account, txt, ca, issued, made, domains, asked, hand, old,
                 crashes, failures>>

WriteCert == Write("write_cert", "cert", "write_key")
WriteKey  == Write("write_key", "key", "load")

\* RustlsConfig::from_pem refuses a key that is not the certificate's.
FromPem ==
  /\ stage = "load"
  /\ stage' = IF hand.cert = hand.key THEN "serving" ELSE "down"
  /\ UNCHANGED <<now, register, account, txt, ca, files, issued, made, domains, asked,
                 hand, old, crashes, failures>>

Serve ==
  \/ Start \/ Look \/ RemoveCert \/ RemoveKey \/ LoadCreds
  \/ LoadOrRegister \/ CreateAccountFile \/ FillAccountFile
  \/ NewOrder \/ Publish \/ SetReady \/ AllAsked \/ PollReady \/ Finalize
  \/ WriteCert \/ WriteKey \/ FromPem

-----------------------------------------------------------------------------
(* The CA, and what goes wrong.                                            *)

\* The CA follows the CNAME and finds the value among those kept.
Found(c) == cname # None /\ cname = dnsCreds /\ c \in Elements(txt)

Validate(n) ==
  /\ Current(n) \in open
  /\ open' = open \ {Current(n)}
  /\ IF Found(Current(n))
     THEN /\ proved' = proved \cup {n} /\ granted' = granted \cup {n}
          /\ UNCHANGED spoiled
     ELSE /\ spoiled' = IF cname = None THEN "no_record" ELSE "other_value"
          /\ UNCHANGED <<proved, granted>>
  /\ UNCHANGED <<now, register, account, txt, files, issued, made, server, crashes, failures>>

\* An earlier order's challenge may still succeed: its name is then authorized
\* for the next order.  Of two such orders only one is told apart.
ValidateLate(n) ==
  LET c == Earlier(Current(n))
  IN /\ c \in open
     /\ open' = open \ {c}
     /\ proved' \in {proved, IF Found(c) THEN proved \cup {n} ELSE proved}
     /\ UNCHANGED <<now, register, account, txt, granted, spoiled, files, issued, made,
                    server, crashes, failures>>

Answer == \E n \in Names : Validate(n) \/ ValidateLate(n)

\* A call to the CA or to acme-dns, or a write, fails: the start does too.
CallFails ==
  /\ stage \in Ordering \cup {"account", "create", "fill", "write_cert", "write_key"}
  /\ failures < MaxFailures
  /\ failures' = failures + 1
  /\ stage' = "down"
  /\ UNCHANGED <<now, register, account, txt, ca, files, issued, made, domains, asked,
                 hand, old, crashes>>

\* The process of the server, or of the command, dies between any two steps.
Crash ==
  /\ crashes < MaxCrashes
  /\ crashes' = crashes + 1
  /\ \/ stage # "down" /\ stage' = "down" /\ UNCHANGED cli
     \/ cli # "idle" /\ cli' = "idle" /\ UNCHANGED stage
  /\ UNCHANGED <<now, dnsCreds, cname, dnsAccts, account, txt, ca, files, issued, made,
                 domains, asked, hand, old, failures>>

Tick ==
  /\ now < MaxTime
  /\ now' = now + 1
  /\ UNCHANGED <<register, account, txt, ca, files, issued, made, server, crashes, failures>>

Next == Register \/ Serve \/ Answer \/ PollTimesOut \/ CallFails \/ Crash \/ Tick

\* The server makes progress and is started again after it has ended; the CA
\* looks at every challenge some time.  Nobody has to run the command.
Spec == Init /\ [][Next]_vars /\ WF_vars(Serve) /\ WF_vars(Answer)

-----------------------------------------------------------------------------
(* Properties.                                                             *)

\* Whatever a crash or a failure interrupts, a certificate in the cache never lies
\* next to the key of another one: both are deleted before an order is placed.
PairMatches == files["cert"] # None /\ files["key"] # None => files["cert"] = files["key"]

\* The CNAME records an operator was told to create stay right: neither running
\* the command again nor a crash of it makes the server publish elsewhere.
CnameFollowsCreds == cname # None => cname = dnsCreds

\* "Supports multiple domains", with one TXT record: as long as it keeps a value
\* for each name that is to be proved, no answer is overwritten before the CA, which
\* looks at its own pace, has seen it.
FewNamesSucceed == spoiled = "other_value" => Len(asked) > TxtKept

\* A certificate for other names than those configured is one an earlier start
\* has left in the cache: a new one covers all, those proved before included.
StaleNamesOnlyFromCache ==
  stage = "serving" /\ issued[hand.cert].names # domains => hand.cert <= old

Expired == {c \in Certs : c <= made /\ ~ValidNow(c)}

\* The CA limits certificates and accounts.  Starting again takes no more of
\* either than crashes, failures and expiry account for.
NoNeedlessOrders ==
  /\ made <= 1 + crashes + failures + Cardinality(Expired)
  /\ accts <= 1 + crashes + failures

\* Nothing keeps the server down but a credentials file that is torn or missing,
\* a CNAME that was not created, or more names than the record has room for.
Provisioned ==
  /\ acctFile # Torn
  /\ dnsCreds \in Numbers /\ cname = dnsCreds
  /\ Cardinality(domains) <= TxtKept

\* When crashes and failures stop and it is provisioned, the server gets its
\* certificate and serves.
Recovers == <>[]Provisioned => <>[](stage = "serving")

\* Why these hold.  The cached pair is deleted before it is replaced.
PairInv ==
  /\ PairMatches
  /\ stage = "remove_key" => files["cert"] = None
  /\ stage \in {"creds", "account", "create", "fill", "write_cert"} \cup Ordering =>
       files["cert"] = None /\ files["key"] = None
  /\ stage = "write_key" => files["cert"] = hand.cert /\ files["key"] = None
  /\ stage \in {"write_cert", "write_key", "load", "serving"} => hand.cert = hand.key

\* The file names the account that is printed, and only then has a CNAME.
CredsInv ==
  /\ CnameFollowsCreds
  /\ cli \in {"register", "create"} => dnsCreds = None
  /\ cli = "fill" => dnsCreds = Torn
  /\ cli \in {"create", "fill"} => dnsAccts \in Numbers
  /\ cli = "print" => dnsCreds \in Numbers

\* The record ends in the values of the current order, latest last.
RecordInv ==
  /\ \A k \in 0 .. TxtKept - 1 : k < Len(asked) =>
       /\ k < Len(txt)
       /\ txt[Len(txt) - k] = Current(asked[Len(asked) - k])
  /\ \A n \in Names : Current(n) \in open => n \in Elements(asked)
  /\ stage = "ready" => asked # <<>>
  /\ FewNamesSucceed

CertInv ==
  /\ \A f \in {"cert", "key"} : files[f] <= made
  /\ stage \in {"write_cert", "write_key", "load", "serving"} =>
       /\ hand.cert # None
       /\ hand.cert > old => issued[hand.cert].names = domains
  /\ hand.cert <= made /\ old <= made /\ (stage = "look" => old = made)

Dns01Inv == PairInv /\ CredsInv /\ RecordInv /\ CertInv

\* Each certificate made is the cached or the written one, or one that expired, or
\* one that a crash or a failure kept out of the cache; a pair is deleted because
\* half of it is missing or because it expired.
Complete == files["cert"] # None /\ files["key"] # None
Excused  == crashes + failures

OrdersInv ==
  /\ stage = "remove_cert" /\ Complete => ~ValidNow(files["cert"])
  /\ Complete => made <= 1 + Excused + Cardinality(Expired \ {files["cert"]})
  /\ stage \in {"write_cert", "write_key"} =>
       made <= 1 + Excused + Cardinality(Expired \ {hand.cert})
  /\ ~Complete /\ stage \notin {"write_cert", "write_key"} =>
       made <= Excused + Cardinality(Expired)

\* Only the account of a start that did not get to its file is made again.
AccountsInv ==
  /\ acctFile = None /\ stage # "create" => accts <= Excused
  /\ accts <= 1 + Excused
=============================================================================
