----------------------------- MODULE CommandLine -----------------------------
(***************************************************************************)
(* The arguments of the program: what normalize_verbosity_args (config/cli.rs)  *)
(* makes of them, what the parser (clap, behind conf) takes from the result, and *)
(* what args_after_subcommand gives to the second parse of serve and config.     *)
(*                                                                         *)
(* A token is a record with a kind k: "v" for -v, -vv, ... (n letters), "v=" for  *)
(* -v=n, "num" for a number, "C" for -C, "dir" for another value, "sub" for the   *)
(* name of a subcommand, "opt" for an option of a subcommand with its value,      *)
(* as the assignment set.                                                    *)
(***************************************************************************)
EXTENDS Integers, SequencesExt, FiniteSetsExt

CONSTANT U8Max   \* u8::MAX

ASSUME U8MaxOK == U8Max \in Nat \ {0}

None == -1

Token(t) ==
  \/ t \in [k : {"v"}, n : Nat \ {0}]
  \/ t \in [k : {"v=", "num"}, n : Nat]
  \/ t \in [k : {"sub"}, name : STRING]
  \/ t.k \in {"C", "dir", "opt"}

IsU8(t)   == t.k \in {"num", "v="} /\ t.n <= U8Max
IsV(t)    == t.k = "v" /\ t.n = 1
IsFlag(t) == t.k = "v" \/ (t.k = "v=" /\ IsU8(t))

\* The loop of normalize_verbosity_args: a -v takes the next token from the
\* iterator, as its number or to keep it unread; so in a row of them every second
\* one is taken.
Reads(args, i) ==
  LET row == CHOOSE n \in 0 .. i - 1 : /\ \A j \in i - n .. i - 1 : IsV(args[j])
                                       /\ n = i - 1 \/ ~IsV(args[i - n - 1])
  IN IsV(args[i]) /\ row % 2 = 0
Taken(args, i) == i > 1 /\ Reads(args, i - 1)
IsNumber(args, i) == Taken(args, i) /\ args[i].k = "num" /\ IsU8(args[i])

\* What token i adds to the count.
Letters(args, i) ==
  IF Reads(args, i) THEN IF i < Len(args) /\ IsNumber(args, i + 1) THEN 0 ELSE 1
  ELSE IF ~Taken(args, i) /\ args[i].k = "v" THEN args[i].n ELSE 0

\* Mutant: the counter wraps.
Capped_Wraps(n) == n % (U8Max + 1)

\* saturating_add
Capped(n) == IF n <= U8Max THEN n ELSE U8Max

\* The sum of a function, as the number of its pairs of a place and a number up to
\* its value there.
Pairs(f) == UNION {{i} \X (1 .. f[i]) : i \in DOMAIN f}
Total(f) == Cardinality(Pairs(f))

\* The last number given, or else the count.
LevelOf(args) ==
  LET explicit == {i \in DOMAIN args : \/ IsNumber(args, i)
                                       \/ ~Taken(args, i) /\ args[i].k = "v=" /\ IsU8(args[i])}
  IN IF explicit # {} THEN args[Max(explicit)].n
     ELSE Capped(Total([i \in DOMAIN args |-> Letters(args, i)]))

\* What is at some places of a list, in order.
Picked(list, places) ==
  [j \in 1 .. Cardinality(places) |->
     list[CHOOSE i \in places : Cardinality({k \in places : k <= i}) = j]]

\* The tokens that are kept.
Kept(args) == {i \in DOMAIN args : IF Taken(args, i) THEN ~IsNumber(args, i)
                                   ELSE ~IsFlag(args[i])}
Rest(args) == Picked(args, Kept(args))

IsSub(t) == t.k = "sub"

\* normalize_verbosity_args: -v N is put before the first token that reads like a
\* subcommand, or last.
Normalized(args) ==
  LET rest  == Rest(args)
      level == LevelOf(args)
      at    == SelectInSeq(rest, IsSub)
      cut   == IF at = 0 THEN Len(rest) ELSE at - 1
  IN IF level = 0 THEN rest
     ELSE SubSeq(rest, 1, cut)
          \o <<[k |-> "v", n |-> 1], [k |-> "num", n |-> level]>>
          \o SubSeq(rest, cut + 1, Len(rest))

-----------------------------------------------------------------------------
(* clap.  -v and -C take the next token for their value unless it is a flag, and  *)
(* are given once; a subcommand takes options only.                            *)

IsValue(t) == t.k \in {"num", "dir", "sub"}

\* The place of the subcommand, 0 if there is none.
SubAt(args) ==
  LET places == {i \in DOMAIN args : /\ IsSub(args[i])
                                     /\ i = 1 \/ args[i - 1].k # "C"}
  IN IF places = {} THEN 0 ELSE CHOOSE i \in places : \A j \in places : i <= j

\* Token i is the number of a -v; a -v=n; the value of a -C.
IsLevel(args, i) ==
  /\ i > 1 /\ args[i - 1] = [k |-> "v", n |-> 1]
  /\ args[i].k = "num" /\ IsU8(args[i])
IsLong(args, i)  == args[i].k = "v=" /\ IsU8(args[i])
IsDir(args, i)   == i > 1 /\ args[i - 1].k = "C" /\ IsValue(args[i])

GoodTop(args, at) ==
  /\ \A i \in 1 .. at - 1 :
       \/ IsLevel(args, i) \/ IsLong(args, i) \/ IsDir(args, i)
       \/ args[i].k \in {"v", "C"} /\ (IsLevel(args, i + 1) \/ IsDir(args, i + 1))
  /\ \A i, j \in 1 .. at - 1 :
       /\ args[i].k \in {"v", "v="} /\ args[j].k \in {"v", "v="} => i = j
       /\ args[i].k = "C" /\ args[j].k = "C" => i = j

Accepted(args) ==
  LET at == SubAt(args)
  IN /\ at > 0
     /\ GoodTop(args, at)
     /\ \A i \in at + 1 .. Len(args) : args[i].k = "opt"

Command(args) == args[SubAt(args)].name

\* A directory is given that reads like the subcommand.
Ambiguous(args) == \E i \in 1 .. SubAt(args) - 1 : args[i] = args[SubAt(args)]

\* The value of -v.
Level(args) ==
  LET own == {i \in 1 .. SubAt(args) - 1 : IsLevel(args, i) \/ IsLong(args, i)}
  IN IF own = {} THEN 0 ELSE args[CHOOSE i \in own : TRUE].n

\* build_log_level: without -v by --log, RUST_LOG and the default.
LogLevel(level) ==
  CASE level = 0 -> "as configured"
    [] level = 1 -> "crate at info"
    [] level = 2 -> "crate at debug"
    [] level = 3 -> "debug"
    [] OTHER     -> "trace"

-----------------------------------------------------------------------------

\* args_after_subcommand: what follows the first token that reads like the
\* subcommand.
ArgsAfter(args, sub) ==
  LET Named(t) == IsSub(t) /\ t.name = sub
  IN SubSeq(args, SelectInSeq(args, Named) + 1, Len(args))
=============================================================================
