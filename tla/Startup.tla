------------------------------- MODULE Startup -------------------------------
(***************************************************************************)
(* The commands of the program from their arguments to the end of the start    *)
(* (main.rs: run_cli; commands/serve.rs; server.rs: run; set_password.rs;        *)
(* sql.rs), for processes that share a root directory, a config file, the       *)
(* databases and an address, and that may be killed at any step.                *)
(*                                                                         *)
(* A setting comes from the arguments, the environment, the config file or the  *)
(* defaults.  A source is a function from the settings it names to values; the  *)
(* values are those the checks tell apart.                                     *)
(***************************************************************************)
EXTENDS CommandLine, TLC

CONSTANTS
  Procs,        \* processes; each is started again and again
  Cases,        \* what they are given and find: input, a function from Procs to
                \* [args, env] or NoInput; doc, the settings in an operator's config
                \* file, or broken; root, file and applied, as below
  NoInput, NoProc,
  FalseWords,   \* the words for a flag that the parser reads as false
  Migrations,   \* number of embedded migrations
  MaxCrashes, MaxFailures   \* bounds

ASSUME StartupConstantsOK ==
  /\ NoProc \notin Procs
  /\ Migrations \in Nat \ {0}
  /\ MaxCrashes \in Nat /\ MaxFailures \in Nat

\* The words for a plain bool, by classes: "yes" and "no" as the parser's own words;
\* a "no" padded with blanks or in capitals, the empty word, and what is no boolean.
Words == {"yes", "no", "padded", "empty", "typo"}

\* Of the parser is only known that it reads what it does not recognise as true.
ASSUME WordsOK == "no" \in FalseWords /\ FalseWords \subseteq Words \ {"yes", "typo"}

\* Database URLs: a file or ":memory:", and whether parameters follow.
Urls == [file : {"data", "other", "memory"}, params : BOOLEAN]

\* build_db_url: data.db in the root directory, if no URL is set.
DataUrl == [file |-> "data", params |-> FALSE]

\* The settings, by the names of the config structs, and their defaults.
Defaults ==
  [url |-> DataUrl, mode |-> "none", cert |-> FALSE, key |-> FALSE,
   ephemeral |-> "no", leaf |-> None, ca |-> None, challenge |-> "tls-alpn-01",
   names |-> FALSE, listen_ip |-> "good", method |-> "username_password",
   trusted_proxy |-> FALSE, forwarded_for |-> "no", header_name |-> "good",
   secure |-> "unset", oidc |-> "unset"]

\* The plain bool fields.
Flags == {"ephemeral", "forwarded_for"}

\* For every setting the first of three sources that names it, or its default.
Layered(first, second, third) ==
  [s \in DOMAIN Defaults |->
     IF s \in DOMAIN first THEN first[s]
     ELSE IF s \in DOMAIN second THEN second[s]
     ELSE IF s \in DOMAIN third THEN third[s] ELSE Defaults[s]]

\* Mutant: the file before the environment.
Merge_DocFirst(opts, env, doc) == Layered(opts, doc, env)

\* conf
Merge(opts, env, doc) == Layered(opts, env, doc)

\* A plain bool is true unless the parser reads its word as false.
On(c, flag) == c[flag] \notin FalseWords

\* The assignments of the options among the tokens.
Options(tokens) ==
  FoldLeft(LAMBDA set, t : IF t.k = "opt" THEN t.set @@ set ELSE set, << >>, tokens)

\* What is made of an argument list: the command, its options as the parser sees
\* them, and the tokens that the second parse gets.
Parsed(argv) ==
  LET tokens == Normalized(argv)
  IN IF Accepted(tokens)
       THEN [accepted  |-> TRUE,
             command   |-> Command(tokens),
             level     |-> Level(tokens),
             options   |-> Options(SubSeq(tokens, SubAt(tokens) + 1, Len(tokens))),
             after     |-> ArgsAfter(tokens, Command(tokens)),
             ambiguous |-> Ambiguous(tokens)]
       ELSE [accepted |-> FALSE]

\* A source is read as the types of the settings: lifetimes are numbers, and a plain
\* bool is only in the environment any word.
Typed(source) ==
  /\ "url" \in DOMAIN source => source["url"] \in Urls
  /\ \A s \in {"leaf", "ca"} \cap DOMAIN source : source[s] \in Nat
  /\ \A f \in Flags \cap DOMAIN source : source[f] \in Words
Spelt(source) == \A f \in Flags \cap DOMAIN source : source[f] \in {"yes", "no"}

ASSUME CasesOK ==
  \A c \in Cases :
    /\ c.applied \in 0 .. Migrations /\ Typed(c.doc) /\ Spelt(c.doc)
    /\ \A p \in Procs : c.input[p] # NoInput =>
         LET a == Parsed(c.input[p].args)
         IN /\ Typed(c.input[p].env)
            /\ c.input[p].args \in Seq(ToSet(c.input[p].args))
            /\ \A i \in DOMAIN c.input[p].args : Token(c.input[p].args[i])
            /\ a.accepted => /\ Typed(a.options) /\ Spelt(a.options)
                             /\ Typed(Options(a.after))

VARIABLES
  given,     \* the case
  args,      \* [Procs -> what is made of its arguments]
  root,      \* the root directory: "none", "shared", "private", "symlink"
  file,      \* defaults.toml: "none", "empty", "header", or "operator" (put there)
  db,        \* [database -> [applied, password]]: migrations, root's password
  port,      \* the process that listens, or NoProc
  pc,        \* [Procs -> step]
  cfg,       \* [Procs -> effective settings]
  todo,      \* [Procs -> next migration]
  out,       \* [Procs -> how the last start ended]
  overtaken, \* [Procs -> another process has applied a migration since the list was read]
  opened,    \* [Procs -> the database that was opened, or <<>>]
  level,     \* [Procs -> log level]
  crashes, failures

inputs == <<given, args, crashes, failures>>
shared == <<root, file, db, port>>
own    == <<cfg, todo, out, overtaken, opened, level>>
vars   == <<inputs, shared, pc, own>>

In(p) == given.input[p]

\* The databases that sqlx opens: a file, or one in the memory of the process.
Dbs == ({"file"} \X {"data", "other"}) \cup ({"memory"} \X Procs)
New == [applied |-> 0, password |-> FALSE]

Init ==
  /\ given \in Cases
  /\ args = [p \in Procs |-> Parsed(IF In(p) = NoInput THEN <<>> ELSE In(p).args)]
  /\ root = given.root /\ file = given.file
  /\ db = [d \in Dbs |-> [New EXCEPT !.applied = given.applied]]
  /\ port = NoProc
  /\ pc = [p \in Procs |-> "off"]
  /\ cfg = [p \in Procs |-> Merge(<< >>, << >>, << >>)]
  /\ todo = [p \in Procs |-> 1]
  /\ out = [p \in Procs |-> "none"]
  /\ overtaken = [p \in Procs |-> FALSE] /\ opened = [p \in Procs |-> <<>>]
  /\ level = [p \in Procs |-> None]
  /\ crashes = 0 /\ failures = 0

Goto(p, step) == pc' = [pc EXCEPT ![p] = step]

\* The process is over.
End(p, how) ==
  /\ Goto(p, "off")
  /\ out' = [out EXCEPT ![p] = how]

Launch(p) ==
  /\ pc[p] = "off" /\ In(p) # NoInput
  /\ Goto(p, "parse")
  /\ out' = [out EXCEPT ![p] = "none"]
  /\ overtaken' = [overtaken EXCEPT ![p] = FALSE]
  /\ opened' = [opened EXCEPT ![p] = <<>>]
  /\ UNCHANGED <<inputs, shared, cfg, todo, level>>

-----------------------------------------------------------------------------
(* Arguments and settings.                                                   *)

Cmd(p)  == args[p].command

\* An Option<bool> is read strictly.
Unreadable(env) == "secure" \in DOMAIN env /\ env["secure"] = "typo"

Parse(p) ==
  /\ pc[p] = "parse"
  /\ IF In(p).args = <<>> THEN End(p, "help") /\ UNCHANGED <<cfg, level>>
     ELSE IF ~args[p].accepted THEN End(p, "usage") /\ UNCHANGED <<cfg, level>>
     ELSE IF Unreadable(In(p).env) /\ Cmd(p) # "set-password"
          THEN End(p, "usage") /\ UNCHANGED <<cfg, level>>
     ELSE /\ level' = [level EXCEPT ![p] = args[p].level]
          /\ cfg' = [cfg EXCEPT ![p] = Merge(args[p].options, In(p).env, << >>)]
          /\ Goto(p, IF Cmd(p) = "sql" THEN "sql" ELSE "root")
          /\ UNCHANGED out
  /\ UNCHANGED <<inputs, shared, todo, overtaken, opened>>

\* ensure_root_dir: made, or made private.
EnsureRoot(p) ==
  /\ pc[p] = "root"
  /\ IF root = "symlink" THEN End(p, "root") /\ UNCHANGED root
     ELSE /\ root' = "private"
          /\ Goto(p, IF Cmd(p) = "set-password" THEN "password" ELSE "look")
          /\ UNCHANGED out
  /\ UNCHANGED <<inputs, file, db, port, cfg, todo, overtaken, opened, level>>

-----------------------------------------------------------------------------
(* The config file.                                                          *)

\* ensure_config_file_exists: exists()
LookConfig(p) ==
  /\ pc[p] = "look"
  /\ Goto(p, IF file = "none" THEN "create" ELSE "load")
  /\ UNCHANGED <<inputs, shared, own>>

\* Mutant: an existing file is emptied.
Created_Truncated == "empty"

\* create_new never clobbers.
Created == IF file = "none" THEN "empty" ELSE file

CreateConfig(p) ==
  /\ pc[p] = "create"
  /\ file' = Created
  /\ Goto(p, IF file' # file THEN "fill" ELSE "load")
  /\ UNCHANGED <<inputs, root, db, port, own>>

\* The header goes to the file that was created, wherever it is now.
FillConfig(p) ==
  /\ pc[p] = "fill"
  /\ file' = IF file = "empty" THEN "header" ELSE file
  /\ Goto(p, "load")
  /\ UNCHANGED <<inputs, root, db, port, own>>

\* An operator moves a file of his own into place.
PutConfig ==
  /\ file # "operator" /\ root # "none"
  /\ file' = "operator"
  /\ UNCHANGED <<inputs, root, db, port, pc, own>>

-----------------------------------------------------------------------------
(* Validation.                                                               *)

LeafSecs(c) == IF c.leaf = None THEN 31536000 ELSE c.leaf
CaSecs(c)   == IF c.ca = None THEN 315360000 ELSE c.ca

\* Mutant: a CA may expire with its leaf.
CaTooShort_Equal(c) == CaSecs(c) < 60 \/ CaSecs(c) < LeafSecs(c)

CaTooShort(c) == CaSecs(c) < 60 \/ CaSecs(c) <= LeafSecs(c)

\* TlsConfig::validate_with_root
TlsRefused(c) ==
  \/ c.mode = "manual" /\ ~(c.cert /\ c.key)
  \/ c.mode # "manual" /\ (c.cert \/ c.key)
  \/ c.mode # "self-signed" /\ (On(c, "ephemeral") \/ c.leaf # None \/ c.ca # None)
  \/ /\ c.mode = "self-signed"
     /\ \/ LeafSecs(c) < 10
        \/ On(c, "ephemeral") /\ c.ca # None
        \/ ~On(c, "ephemeral") /\ CaTooShort(c)

\* AuthConfig::validate
AuthRefused(c) == c.method = "forward_auth" /\ ~c.trusted_proxy

\* Mutant: a flag is missing from BOOLEAN_SETTINGS.
Listed_Short == {"ephemeral"}

\* BOOLEAN_SETTINGS
Listed == {"ephemeral", "forwarded_for", "secure"}

\* BOOL_WORDS, after trim and to_ascii_lowercase
BoolWords == {"yes", "no", "padded", "empty"}

\* env_bool::validate: by words of its own, before and beside the parser's.
BoolRefused(env) == \E s \in DOMAIN env \cap Listed : env[s] \notin BoolWords

\* Mutant: an empty file is no document.
Broken_Empty == file = "empty" \/ (file = "operator" /\ given.broken)

\* load_toml_doc: a file of comments, or of nothing, is a document without settings.
Broken == file = "operator" /\ given.broken

Doc == IF file = "operator" THEN given.doc ELSE << >>

\* The second parse, with the file, and the checks.
LoadDoc(p) ==
  /\ pc[p] = "load"
  /\ IF Broken THEN End(p, "document") /\ UNCHANGED cfg
     ELSE IF \E i \in DOMAIN args[p].after : args[p].after[i].k # "opt"
          THEN End(p, "usage") /\ UNCHANGED cfg
     ELSE /\ cfg' = [cfg EXCEPT ![p] = Merge(Options(args[p].after), In(p).env, Doc)]
          /\ IF TlsRefused(cfg'[p]) \/ AuthRefused(cfg'[p]) \/ BoolRefused(In(p).env)
               THEN End(p, "refused")
             ELSE IF Cmd(p) = "config" THEN End(p, "printed")
             ELSE Goto(p, "plan") /\ UNCHANGED out
  /\ UNCHANGED <<inputs, shared, todo, overtaken, opened, level>>

\* SqliteConnectOptions::from_str, in serve and set-password: what follows the name is
\* parameters, and every process has a memory of its own.
SqlxDb(p, url) == IF url.file = "memory" THEN <<"memory", p>> ELSE <<"file", url.file>>

\* Mutant: the slash of an absolute path goes with the slashes of the URL.
ShellDb_Relative(p, url) == <<"relative", url.file>>

\* sqlite_path_from_db_url strips the scheme only: parameters become part of the name.
ShellDb(p, url) == IF url.params THEN <<"parameters", url.file>> ELSE SqlxDb(p, url)

\* plan_serve: what validation lets pass and the plan cannot use.
Unplannable(c) ==
  \/ c.listen_ip = "bad"
  \/ c.mode = "acme" /\ (~c.names \/ c.challenge = "http-01")
  \/ c.header_name = "bad"

\* Mutant: the plan is made after the database was opened.
Plan_Late(p) ==
  /\ pc[p] = "plan"
  /\ opened' = [opened EXCEPT ![p] = SqlxDb(p, cfg[p].url)]
  /\ IF Unplannable(cfg[p]) THEN End(p, "panic") ELSE Goto(p, "open") /\ UNCHANGED out
  /\ UNCHANGED <<inputs, shared, cfg, todo, overtaken, level>>

\* serve: plan_serve(...).expect("plan")
Plan(p) ==
  /\ pc[p] = "plan"
  /\ IF Unplannable(cfg[p]) THEN End(p, "panic") ELSE Goto(p, "open") /\ UNCHANGED out
  /\ UNCHANGED <<inputs, shared, cfg, todo, overtaken, opened, level>>

-----------------------------------------------------------------------------
(* The database.                                                             *)

\* create_if_missing; a database in memory is always new.
OpenDb(p) ==
  LET d == SqlxDb(p, cfg[p].url)
  IN /\ pc[p] = "open"
     /\ opened' = [opened EXCEPT ![p] = d]
     /\ db' = [db EXCEPT ![d] = IF cfg[p].url.file = "memory" THEN New ELSE @]
     /\ Goto(p, "pending")
     /\ UNCHANGED <<inputs, root, file, port, cfg, todo, out, overtaken, level>>

\* Mutant: every migration is run at every start.
FirstPending_One(applied) == 1

FirstPending(applied) == applied + 1

\* The list of applied migrations is read once.
ReadApplied(p) ==
  /\ pc[p] = "pending"
  /\ todo' = [todo EXCEPT ![p] = FirstPending(db[opened[p]].applied)]
  /\ overtaken' = [overtaken EXCEPT ![p] = FALSE]
  /\ Goto(p, "migrate")
  /\ UNCHANGED <<inputs, shared, cfg, out, opened, level>>

SameDb(p) == {q \in Procs \ {p} : opened[q] = opened[p]}

\* One migration in one transaction; a second run of it fails on its first table
\* or row.
Migrate(p) ==
  LET d == opened[p]
  IN /\ pc[p] = "migrate" /\ todo[p] <= Migrations
     /\ IF db[d].applied < todo[p]
          THEN /\ db' = [db EXCEPT ![d].applied = todo[p]]
               /\ overtaken' = [q \in Procs |-> overtaken[q] \/ q \in SameDb(p)]
               /\ todo' = [todo EXCEPT ![p] = @ + 1]
               /\ UNCHANGED <<pc, out>>
          ELSE End(p, "migration") /\ UNCHANGED <<db, overtaken, todo>>
     /\ UNCHANGED <<inputs, root, file, port, cfg, opened, level>>

Migrated(p) ==
  /\ pc[p] = "migrate" /\ todo[p] > Migrations
  /\ Goto(p, IF Cmd(p) = "set-password" THEN "store" ELSE "oidc")
  /\ UNCHANGED <<inputs, shared, own>>

-----------------------------------------------------------------------------
(* The other commands.                                                       *)

\* read_password, validate_password
ReadPassword(p) ==
  /\ pc[p] = "password"
  /\ \/ Goto(p, "open") /\ UNCHANGED out
     \/ End(p, "password")
  /\ UNCHANGED <<inputs, shared, cfg, todo, overtaken, opened, level>>

\* The upsert into user_password, if there is a user of the name.
StorePassword(p) ==
  /\ pc[p] = "store"
  /\ \/ End(p, "stored") /\ db' = [db EXCEPT ![opened[p]].password = TRUE]
     \/ End(p, "unknown") /\ UNCHANGED db
  /\ UNCHANGED <<inputs, root, file, port, cfg, todo, overtaken, opened, level>>

\* sql: the shell makes a database that is missing, not its directory.
Sql(p) ==
  /\ pc[p] = "sql"
  /\ IF cfg[p].url.file = "data" /\ root = "none"
       THEN End(p, "shell") /\ UNCHANGED opened
       ELSE End(p, "done") /\ opened' = [opened EXCEPT ![p] = ShellDb(p, cfg[p].url)]
  /\ UNCHANGED <<inputs, shared, cfg, todo, overtaken, level>>

-----------------------------------------------------------------------------
(* The rest of serve.                                                        *)

\* A call to the provider, a certificate file or the CA fails.
Fails(p, how) ==
  /\ failures < MaxFailures
  /\ failures' = failures + 1
  /\ End(p, how)

\* build_oidc_auth_layer: only now is its configuration looked at.
Oidc(p) ==
  LET c == cfg[p]
  IN /\ pc[p] = "oidc"
     /\ IF c.method = "oidc" /\ c.oidc # "good" THEN End(p, "oidc") /\ UNCHANGED failures
        ELSE \/ Goto(p, "material") /\ UNCHANGED <<out, failures>>
             \/ c.method = "oidc" /\ Fails(p, "discovery")
     /\ UNCHANGED <<given, args, crashes, shared, cfg, todo, overtaken, opened, level>>

\* run: match tls_config; what the certificate modes do is TlsCache's and Dns01's.
Material(p) ==
  /\ pc[p] = "material"
  /\ \/ Goto(p, "bind") /\ UNCHANGED <<out, failures>>
     \/ cfg[p].mode # "none" /\ Fails(p, "certificate")
  /\ UNCHANGED <<given, args, crashes, shared, cfg, todo, overtaken, opened, level>>

Bind(p) ==
  /\ pc[p] = "bind"
  /\ IF port = NoProc THEN port' = p /\ Goto(p, "serving") /\ UNCHANGED out
                      ELSE End(p, "bind") /\ UNCHANGED port
  /\ UNCHANGED <<inputs, root, file, db, cfg, todo, overtaken, opened, level>>

Release(p) == port' = IF port = p THEN NoProc ELSE port

\* The shutdown is Shutdown's.
Stop(p) ==
  /\ pc[p] = "serving"
  /\ End(p, "stopped") /\ Release(p)
  /\ UNCHANGED <<inputs, root, file, db, cfg, todo, overtaken, opened, level>>

Crash(p) ==
  /\ pc[p] # "off" /\ crashes < MaxCrashes
  /\ crashes' = crashes + 1
  /\ End(p, "killed") /\ Release(p)
  /\ UNCHANGED <<given, args, failures, root, file, db, cfg, todo, overtaken, opened, level>>

Step(p) ==
  \/ Parse(p) \/ EnsureRoot(p)
  \/ LookConfig(p) \/ CreateConfig(p) \/ FillConfig(p) \/ LoadDoc(p)
  \/ Plan(p)
  \/ OpenDb(p) \/ ReadApplied(p) \/ Migrate(p) \/ Migrated(p)
  \/ ReadPassword(p) \/ StorePassword(p) \/ Sql(p)
  \/ Oidc(p) \/ Material(p) \/ Bind(p)

Next ==
  \/ \E p \in Procs : Launch(p) \/ Step(p) \/ Stop(p) \/ Crash(p)
  \/ PutConfig

\* Every process runs on, and is started again (by its supervisor, or by whoever
\* needs the command); nobody has to stop a server.
Spec == Init /\ [][Next]_vars /\ \A p \in Procs : WF_vars(Step(p)) /\ WF_vars(Launch(p))

-----------------------------------------------------------------------------
(* Properties.                                                             *)

\* The verbosity asked for: the last number given to a -v, or else all the v's.
Numbered(argv) == {i \in DOMAIN argv : IsLevel(argv, i) \/ IsLong(argv, i)}
Asked(argv) ==
  LET letters == Total([i \in {j \in DOMAIN argv : argv[j].k = "v"} |-> argv[i].n])
  IN IF Numbered(argv) # {} THEN argv[Max(Numbered(argv))].n
     ELSE IF letters <= U8Max THEN letters ELSE U8Max

\* A -v stands before another argument of verbosity, which it takes unread.
Shadowed(argv) ==
  \E i \in 1 .. Len(argv) - 1 :
    argv[i] = [k |-> "v", n |-> 1] /\ argv[i + 1].k \in {"v", "v="}

\* Arguments that are accepted mean what they say, wherever the v's stand among
\* them: the log level is the verbosity asked for, and the second parse sees the
\* options of the subcommand, all of them and nothing else, unless a directory is
\* named like the subcommand.  Only an explicit 0 may be lost, to a level that a -v
\* took unread.
ArgsMeanWhatTheySay ==
  \A p \in Procs : pc[p] = "look" =>
    LET argv == In(p).args
    IN /\ \/ LogLevel(level[p]) = LogLevel(Asked(argv))
          \/ Asked(argv) = 0 /\ Shadowed(argv)
       /\ ~args[p].ambiguous =>
            args[p].after = Picked(argv, {i \in DOMAIN argv : argv[i].k = "opt"})

\* The words that env_bool lets pass and the parser may not recognise.
Misread == BoolWords \ (FalseWords \cup {"yes"})

Says(source, flag, words) == flag \in DOMAIN source /\ source[flag] \in words

\* env_bool: "a value we cannot read as a boolean stops startup".  A server with a
\* flag on was told so by its options, by its environment, or by the file where the
\* environment leaves the flag alone.  It was not told so, and the sentence does not
\* hold, for the words that only the check knows: a padded "no" or an empty word,
\* if the parser does not recognise them.
NeverFailsOpen ==
  \A p \in Procs, f \in Flags : pc[p] = "serving" /\ On(cfg[p], f) =>
    \/ Says(args[p].options, f, {"yes"})
    \/ Says(In(p).env, f, {"yes"} \cup Misread)
    \/ f \notin DOMAIN In(p).env /\ Says(given.doc, f, {"yes"})

\* ensure_config_file_exists: "never clobber".  An operator's file stays, also when
\* it appears between the look and the creation, or before the header is written.
NeverClobbers == [][file = "operator" => file' = "operator"]_file

\* A start fails in its migrations only because another process, a server or
\* set-password, has migrated the same database after this one had read the list;
\* a start after a crash between two migrations goes on where it was killed.
MigrationFailsOnlyInRace == \A p \in Procs : out[p] = "migration" => overtaken[p]

\* The ends before the database is opened, and those after its migrations.
Refusals == {"help", "usage", "root", "document", "refused", "printed", "panic", "password"}
LateEnds == {"oidc", "discovery", "certificate", "bind", "unknown", "stored", "stopped"}

\* A start that is refused for its arguments, its root directory, its config file,
\* its password, its plan, or what the three validations look at has not opened a
\* database.  Its OIDC settings are looked at later (run: build_oidc_auth_layer after
\* init_db): a start refused for them, as one that finds no certificate or no free
\* address, has opened the database and leaves it with all migrations.
RefusedLeavesDb ==
  \A p \in Procs :
    /\ out[p] \in Refusals => opened[p] = <<>>
    /\ out[p] \in LateEnds => opened[p] # <<>> /\ db[opened[p]].applied = Migrations

\* serve_self_signed
RenewMargin(secs) ==
  LET fifth == IF secs \div 5 >= 1 THEN secs \div 5 ELSE 1
      m     == IF fifth <= 600 THEN fifth ELSE 600
  IN IF m < secs THEN m ELSE IF secs >= 2 THEN secs - 1 ELSE 1

\* A server with a certificate of its own renews it before it expires, and signs it
\* with a CA that is valid for longer: what validate_with_root accepts is what
\* serve_self_signed needs.
LifetimesFit ==
  \A p \in Procs : pc[p] = "serving" /\ cfg[p].mode = "self-signed" =>
    LET c == cfg[p]
    IN /\ RenewMargin(LeafSecs(c)) \in 1 .. LeafSecs(c) - 1
       /\ ~On(c, "ephemeral") => LeafSecs(c) < CaSecs(c)

\* The settings of p are good with an operator's file and without.
Good(p) ==
  /\ In(p) # NoInput
  /\ args[p].accepted /\ Cmd(p) = "serve" /\ ~args[p].ambiguous
  /\ root # "symlink" /\ ~given.broken
  /\ ~Unreadable(In(p).env) /\ ~BoolRefused(In(p).env)
  /\ \A doc \in {<< >>, given.doc} :
       LET c == Merge(args[p].options, In(p).env, doc)
       IN /\ ~TlsRefused(c) /\ ~AuthRefused(c) /\ ~Unplannable(c)
          /\ c.method = "oidc" => c.oidc = "good"

\* With a server of good settings the address comes to be served, whatever was
\* killed at which step, migrated the database meanwhile or failed for a time.
Recovers == (\E p \in Procs : Good(p)) ~> port # NoProc

\* run_cli: "CLI options and env vars will always supercede this file".  The
\* operator's commands, which never read the config file, and a server with the same
\* environment, if not only the file names another database, open the same one, but
\* for two kinds of URL: every process has a database in memory to itself, and sql
\* takes the parameters of a URL for a part of the file's name.
OneDatabase ==
  \A p, q \in Procs :
    /\ pc[q] = "serving" /\ out[p] \in {"done", "stored"}
    /\ In(p).env = In(q).env
    /\ "url" \notin DOMAIN args[p].options \cup DOMAIN args[q].options
    /\ "url" \in DOMAIN In(q).env \/ "url" \notin DOMAIN given.doc
    => LET url == cfg[q].url
       IN opened[p] = opened[q] <=>
            url.file # "memory" /\ ~(out[p] = "done" /\ url.params)
=============================================================================
