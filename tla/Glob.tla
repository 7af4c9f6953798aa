-------------------------------- MODULE Glob --------------------------------
(***************************************************************************)
(* The wildcard matcher of policies (worker/src/policy.ts, globMatch): "*" *)
(* stands for any characters, "?" for one, everything else for itself, and *)
(* the whole string must match.  The code is the loop with two pointers    *)
(* that remembers only the last star; Step is one turn of it.  Matches is  *)
(* what it should compute.  GlobProofs shows that it does.                 *)
(*                                                                         *)
(* A glob and a name are sequences of characters.  Pointers count the      *)
(* characters already consumed.                                            *)
(***************************************************************************)
EXTENDS Naturals, Sequences

(* Names have no "*" (KEYNAME_RE and PROJECT_RE of storage.ts admit none):
   globMatch("*", "*a") is FALSE in the code. *)
Names == Seq(STRING \ {"*"})
Globs == Seq(STRING)

(* An alignment of a prefix of glob with a prefix of str: f[i] characters of
   str are consumed by the first i of glob. *)
Aligns(f, glob, str, i) ==
  IF glob[i] = "*" THEN f[i - 1] <= f[i]
  ELSE f[i] = f[i - 1] + 1 /\ (glob[i] = "?" \/ glob[i] = str[f[i]])

Alignments(glob, str) ==
  {f \in [0 .. Len(glob) -> 0 .. Len(str)] :
     /\ f[0] = 0 /\ f[Len(glob)] = Len(str)
     /\ \A i \in 1 .. Len(glob) : Aligns(f, glob, str, i)}

Matches(glob, str) == Alignments(glob, str) # {}
-----------------------------------------------------------------------------
(* gi, si: consumed; star: position of the last "*" met, 0 if none; mark:
   what was consumed when it is tried; out: "run", "yes" or "no". *)
States == [gi : Nat, si : Nat, star : Nat, mark : Nat, out : {"run", "yes", "no"}]

Start == [gi |-> 0, si |-> 0, star |-> 0, mark |-> 0, out |-> "run"]

StarNext(glob, st) == st.gi < Len(glob) /\ glob[st.gi + 1] = "*"

Fits(glob, str, st) ==
  /\ st.gi < Len(glob)
  /\ glob[st.gi + 1] = "?" \/ glob[st.gi + 1] = str[st.si + 1]

Step(glob, str, st) ==
  IF st.si < Len(str) THEN
    IF Fits(glob, str, st) THEN [st EXCEPT !.gi = @ + 1, !.si = @ + 1]
    ELSE IF StarNext(glob, st) THEN [st EXCEPT !.gi = @ + 1, !.star = st.gi + 1, !.mark = st.si]
    ELSE IF st.star # 0 THEN [st EXCEPT !.gi = st.star, !.si = st.mark + 1, !.mark = @ + 1]
    ELSE [st EXCEPT !.out = "no"]
  ELSE IF StarNext(glob, st) THEN [st EXCEPT !.gi = @ + 1]
  ELSE [st EXCEPT !.out = IF st.gi = Len(glob) THEN "yes" ELSE "no"]

(* The answer of the loop. *)
GlobMatch(glob, str) ==
  LET run[st \in States] == IF st.out = "run" THEN run[Step(glob, str, st)] ELSE st.out = "yes"
  IN  run[Start]
=============================================================================
