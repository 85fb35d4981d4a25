------------------------------ MODULE MCStartup ------------------------------
(* Instances of Startup for TLC. *)
EXTENDS Startup

CONSTANTS p1, p2

V(n)    == [k |-> "v", n |-> n]
Num(n)  == [k |-> "num", n |-> n]
Sub(s)  == [k |-> "sub", name |-> s]
Opt(s)  == [k |-> "opt", set |-> s]
C       == [k |-> "C"]
Dir     == [k |-> "dir"]
Tokens  == {V(1), V(3), [k |-> "v=", n |-> 2], [k |-> "v=", n |-> 0], Num(2), Num(5), C, Dir,
             Sub("config")}

Case(i, j, doc) ==
  [input |-> (p1 :> i @@ p2 :> j), doc |-> doc, broken |-> FALSE,
   root |-> "shared", file |-> "operator", applied |-> 2]
Given(argv, env) == [args |-> argv, env |-> env]

\* Three tokens before a subcommand, in any order, and one or two after it.
ArgCases ==
  {Case(Given(pre \o <<Sub("config")>> \o post, << >>), NoInput, << >>) :
     pre  \in SeqOf(Tokens, 3),
     post \in {<<>>, <<V(1)>>, <<V(3)>>, <<V(1), Num(2)>>, <<Opt("secure" :> "yes")>>,
               <<V(1), Opt("secure" :> "yes")>>}}

\* Settings, each with what a source may say of it.
Said ==
  {"mode" :> m : m \in {"manual", "self-signed", "acme"}}
  \cup {s :> TRUE : s \in {"cert", "key", "names", "trusted_proxy"}}
  \cup {s :> "yes" : s \in {"secure"} \cup Flags}
  \cup {"leaf" :> n : n \in {9, 10, 60, 100}} \cup {"ca" :> n : n \in {59, 60, 100}}
  \cup {"challenge" :> "http-01", "listen_ip" :> "bad", "header_name" :> "bad"}
  \cup {"method" :> m : m \in {"oidc", "forward_auth"}} \cup {"oidc" :> v : v \in {"good", "bad"}}

Misspelt == {"secure" :> "typo"} \cup {f :> w : f \in Flags, w \in Words}

Url(f) == [file |-> f, params |-> FALSE]

\* A setting or two in the file, one in the environment, one in the arguments.
SettingCases ==
  {Case(Given(<<Sub("serve"), Opt(o)>>, e), NoInput, d) :
     o \in Said \cup {<< >>}, e \in Said \cup Misspelt \cup {<< >>},
     d \in {<< >>, "mode" :> "self-signed", "mode" :> "self-signed" @@ "ca" :> 60,
            "forwarded_for" :> "yes" @@ "url" :> Url("other")}}

Commands == {"serve", "config", "sql", "set-password"}

\* A server beside another process, on the same database or another.
Pair(e, c, d) == Case(Given(<<Sub("serve")>>, e), Given(<<Sub(c)>>, << >>), d)

PairCases ==
  {[Pair(e, c, d) EXCEPT !.root = r, !.file = IF r = "none" THEN "none" ELSE "operator",
                         !.applied = a] :
     e \in {<< >>, "url" :> Url("other"), "method" :> "oidc" @@ "oidc" :> "good"},
     c \in Commands,
     d \in {<< >>, "url" :> Url("other") @@ "mode" :> "self-signed"},
     r \in {"none", "shared"}, a \in {0, 2}}
  \cup {LET e == "url" :> u IN
           Case(Given(<<Sub("serve")>>, e), Given(<<Sub(c)>>, e), "url" :> DataUrl) :
           u \in Urls, c \in Commands}
  \cup {[Pair(<< >>, c, << >>) EXCEPT !.broken = TRUE] : c \in Commands}
  \cup {[Pair(<< >>, c, << >>) EXCEPT !.root = "symlink"] : c \in Commands}

MCCases == {Case(Given(<<>>, << >>), NoInput, << >>)}
           \cup ArgCases \cup SettingCases \cup PairCases
=============================================================================
