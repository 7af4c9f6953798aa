----------------------------- MODULE GlobProofs -----------------------------
(* The proof that GlobMatch computes Matches for every glob and every name,
   in O(|glob| * |name|) turns of its loop. *)
EXTENDS Glob, TLAPS, WellFoundedInduction

(* One turn of the loop. *)
Turn(glob, str, st, nx) == st.out = "run" /\ nx = Step(glob, str, st)

(* What every turn keeps: pointers in bounds, a star where there is one. *)
Shape(glob, str, st) ==
  /\ glob \in Globs /\ str \in Names /\ st \in States
  /\ st.gi <= Len(glob) /\ st.mark <= st.si /\ st.si <= Len(str)
  /\ st.star <= st.gi
  /\ st.star # 0 => glob[st.star] = "*"

(* What is consumed is aligned, up to the pointers and up to the last star. *)
Reaches(glob, str, i, j) ==
  \E f \in [0 .. Len(glob) -> 0 .. Len(str)] :
    /\ f[0] = 0 /\ f[i] = j
    /\ \A n \in 1 .. i : Aligns(f, glob, str, n)

Sound(glob, str, st) ==
  /\ st.out = "run" => /\ Reaches(glob, str, st.gi, st.si)
                       /\ st.star # 0 => Reaches(glob, str, st.star, st.mark)
  /\ st.out = "yes" => Matches(glob, str)

(* Nor is any passed over: each is in step with the pointers since the last
   star, and the star is where it was met or further on. *)
InStep(str, st, f) ==
  /\ f[st.gi] >= st.si
  /\ st.si < Len(str) => IF st.star = 0 THEN f[st.gi] = st.si
                         ELSE f[st.gi] + st.star = f[st.star] + st.gi

Complete(glob, str, st) ==
  /\ st.out = "run" => /\ \A f \in Alignments(glob, str) : InStep(str, st, f)
                       /\ st.star # 0 /\ st.si < Len(str) => st.si + st.star = st.mark + st.gi
  /\ st.out = "no" => Alignments(glob, str) = {}

(* Every turn moves the pointer of the glob, or takes the star one further. *)
Progress(glob, st) == st.mark * (Len(glob) + 1) + st.gi

(* A turn of the loop, case by case, field by field. *)
Literal(glob, str, st, nx) ==
  /\ st.si < Len(str) /\ Fits(glob, str, st)
  /\ nx.gi = st.gi + 1 /\ nx.si = st.si + 1
  /\ nx.star = st.star /\ nx.mark = st.mark /\ nx.out = st.out
MeetStar(glob, str, st, nx) ==
  /\ st.si < Len(str) /\ StarNext(glob, st)
  /\ nx.gi = st.gi + 1 /\ nx.star = st.gi + 1 /\ nx.mark = st.si
  /\ nx.si = st.si /\ nx.out = st.out
Stuck(glob, str, st) == st.si < Len(str) /\ ~ Fits(glob, str, st) /\ ~ StarNext(glob, st)
BackToStar(glob, str, st, nx) ==
  /\ Stuck(glob, str, st) /\ st.star # 0
  /\ nx.gi = st.star /\ nx.si = st.mark + 1 /\ nx.mark = st.mark + 1
  /\ nx.star = st.star /\ nx.out = st.out
Mismatch(glob, str, st, nx) ==
  /\ Stuck(glob, str, st) /\ st.star = 0
  /\ nx.gi = st.gi /\ nx.si = st.si /\ nx.star = st.star /\ nx.mark = st.mark /\ nx.out = "no"
SkipStar(glob, str, st, nx) ==
  /\ ~ (st.si < Len(str)) /\ StarNext(glob, st)
  /\ nx.gi = st.gi + 1 /\ nx.si = st.si /\ nx.star = st.star /\ nx.mark = st.mark /\ nx.out = st.out
Finish(glob, str, st, nx) ==
  /\ ~ (st.si < Len(str)) /\ ~ StarNext(glob, st)
  /\ nx.gi = st.gi /\ nx.si = st.si /\ nx.star = st.star /\ nx.mark = st.mark
  /\ nx.out = IF st.gi = Len(glob) THEN "yes" ELSE "no"

Turns(glob, str, st, nx) ==
  \/ Literal(glob, str, st, nx) \/ MeetStar(glob, str, st, nx) \/ BackToStar(glob, str, st, nx)
  \/ Mismatch(glob, str, st, nx) \/ SkipStar(glob, str, st, nx) \/ Finish(glob, str, st, nx)

(* A state with other pointers is a state. *)
LEMMA Moved ==
  ASSUME NEW s \in States, NEW a \in Nat, NEW b \in Nat
  PROVE  /\ [s EXCEPT !.gi = a, !.si = b] \in States
         /\ \A c \in Nat : /\ [s EXCEPT !.gi = a, !.star = b, !.mark = c] \in States
                          /\ [s EXCEPT !.gi = a, !.si = b, !.mark = c] \in States
<1> DEFINE one == [s EXCEPT !.gi = a]
           two == [one EXCEPT !.si = b]
           star == [one EXCEPT !.star = b]
<1>1. one \in States BY DEF States
<1> HIDE DEF one
<1>2. two \in States /\ star \in States BY <1>1 DEF States
<1> HIDE DEF two, star
<1>3. \A c \in Nat : [two EXCEPT !.mark = c] \in States /\ [star EXCEPT !.mark = c] \in States
  BY <1>2 DEF States
<1> QED BY <1>2, <1>3 DEF one, two, star

(* Next is one of these. *)
LEMMA Cases ==
  ASSUME NEW glob, NEW str, NEW st, NEW nx, Shape(glob, str, st), Turn(glob, str, st, nx)
  PROVE  /\ st.out = "run"
         /\ nx \in States
         /\ Turns(glob, str, st, nx)
<1>1. /\ st \in States /\ st.out = "run"
      /\ nx = Step(glob, str, st)
  BY DEF Turn, Shape
<1>0. st.gi \in Nat /\ st.gi + 1 \in Nat /\ st.si \in Nat /\ st.si + 1 \in Nat
      /\ st.star \in Nat /\ st.mark \in Nat /\ st.mark + 1 \in Nat
  BY <1>1 DEF States
<1>2. CASE st.si < Len(str) /\ Fits(glob, str, st)
  <2>1. nx = [st EXCEPT !.gi = @ + 1, !.si = @ + 1]
    BY <1>1, <1>2 DEF Step
  <2>2. Literal(glob, str, st, nx) BY <1>1, <1>2, <2>1 DEF Literal, States
  <2>3. [st EXCEPT !.gi = st.gi + 1, !.si = st.si + 1] \in States BY <1>1, <1>0, Moved
  <2>4. nx \in States BY <2>1, <2>3
  <2> QED BY <1>1, <2>2, <2>4 DEF Turns
<1>3. CASE st.si < Len(str) /\ ~ Fits(glob, str, st) /\ StarNext(glob, st)
  <2>1. nx = [st EXCEPT !.gi = @ + 1, !.star = st.gi + 1, !.mark = st.si]
    BY <1>1, <1>3 DEF Step
  <2>2. MeetStar(glob, str, st, nx) BY <1>1, <1>3, <2>1 DEF MeetStar, States
  <2>3. [st EXCEPT !.gi = st.gi + 1, !.star = st.gi + 1, !.mark = st.si] \in States BY <1>1, <1>0, Moved
  <2>4. nx \in States BY <2>1, <2>3
  <2> QED BY <1>1, <2>2, <2>4 DEF Turns
<1>4. CASE Stuck(glob, str, st) /\ st.star # 0
  <2>1. nx = [st EXCEPT !.gi = st.star, !.si = st.mark + 1, !.mark = @ + 1]
    BY <1>1, <1>4 DEF Step, Stuck
  <2>2. BackToStar(glob, str, st, nx) BY <1>1, <1>4, <2>1 DEF BackToStar, States
  <2>3. [st EXCEPT !.gi = st.star, !.si = st.mark + 1, !.mark = st.mark + 1] \in States BY <1>1, <1>0, Moved
  <2>4. nx \in States BY <2>1, <2>3
  <2> QED BY <1>1, <2>2, <2>4 DEF Turns
<1>5. CASE Stuck(glob, str, st) /\ st.star = 0
  <2>1. nx = [st EXCEPT !.out = "no"]
    BY <1>1, <1>5 DEF Step, Stuck
  <2>2. Mismatch(glob, str, st, nx) BY <1>1, <1>5, <2>1 DEF Mismatch, States
  <2>3. nx \in States BY <1>1, <2>1 DEF States
  <2> QED BY <1>1, <2>2, <2>3 DEF Turns
<1>6. CASE ~ (st.si < Len(str)) /\ StarNext(glob, st)
  <2>1. nx = [st EXCEPT !.gi = @ + 1]
    BY <1>1, <1>6 DEF Step
  <2>2. SkipStar(glob, str, st, nx) BY <1>1, <1>6, <2>1 DEF SkipStar, States
  <2>3. nx \in States BY <1>1, <2>1 DEF States
  <2> QED BY <1>1, <2>2, <2>3 DEF Turns
<1>7. CASE ~ (st.si < Len(str)) /\ ~ StarNext(glob, st)
  <2>1. nx = [st EXCEPT !.out = IF st.gi = Len(glob) THEN "yes" ELSE "no"]
    BY <1>1, <1>7 DEF Step
  <2>2. Finish(glob, str, st, nx) BY <1>1, <1>7, <2>1 DEF Finish, States
  <2>3. nx \in States BY <1>1, <2>1 DEF States
  <2> QED BY <1>1, <2>2, <2>3 DEF Turns
<1> QED BY <1>2, <1>3, <1>4, <1>5, <1>6, <1>7 DEF Stuck

(* The types of the parts, for the arithmetic. *)
LEMMA Parts ==
  ASSUME NEW glob, NEW str, NEW st, Shape(glob, str, st)
  PROVE  /\ Len(glob) \in Nat /\ Len(str) \in Nat
         /\ st.gi \in 0 .. Len(glob) /\ st.si \in 0 .. Len(str)
         /\ st.star \in 0 .. st.gi /\ st.mark \in 0 .. st.si
         /\ st.out \in {"run", "yes", "no"}
         /\ \A i \in 1 .. Len(str) : str[i] # "*"
BY DEF Shape, States, Names, Globs

(* Pointers stay in bounds. *)
LEMMA ShapeStep ==
  ASSUME NEW glob, NEW str, NEW st, NEW nx,
         Shape(glob, str, st), Turn(glob, str, st, nx)
  PROVE  Shape(glob, str, nx)
<1> USE Parts, Cases
<1>0. nx \in States /\ glob \in Globs /\ str \in Names BY DEF Shape
<1>1. /\ nx.gi <= Len(glob) /\ nx.mark <= nx.si /\ nx.si <= Len(str) /\ nx.star <= nx.gi
  <2>1. CASE Literal(glob, str, st, nx) BY <2>1 DEF Literal, Fits
  <2>2. CASE MeetStar(glob, str, st, nx) BY <2>2 DEF MeetStar, StarNext
  <2>3. CASE BackToStar(glob, str, st, nx) BY <2>3 DEF BackToStar, Stuck
  <2>4. CASE Mismatch(glob, str, st, nx) BY <2>4 DEF Mismatch
  <2>5. CASE SkipStar(glob, str, st, nx) BY <2>5 DEF SkipStar, StarNext
  <2>6. CASE Finish(glob, str, st, nx) BY <2>6 DEF Finish
  <2> QED BY <2>1, <2>2, <2>3, <2>4, <2>5, <2>6 DEF Turns
<1>2. nx.star # 0 => glob[nx.star] = "*"
  <2>1. CASE nx.star = st.star BY <2>1 DEF Shape
  <2>2. CASE MeetStar(glob, str, st, nx) BY <2>2 DEF MeetStar, StarNext
  <2> QED BY <2>1, <2>2 DEF Literal, BackToStar, Mismatch, SkipStar, Finish, Turns
<1> QED BY <1>0, <1>1, <1>2 DEF Shape
-----------------------------------------------------------------------------
(* Moving the end of an alignment, or adding one character to it. *)
LEMMA Extend ==
  ASSUME NEW glob, NEW str, NEW st, Shape(glob, str, st), NEW i \in 0 .. Len(glob), NEW j \in 0 .. Len(str), NEW k \in 0 .. Len(str),
         Reaches(glob, str, i, j), i < Len(glob),
         \/ glob[i + 1] = "*" /\ j <= k
         \/ glob[i + 1] # "*" /\ k = j + 1 /\ (glob[i + 1] = "?" \/ glob[i + 1] = str[k])
  PROVE  Reaches(glob, str, i + 1, k)
<1>1. PICK f \in [0 .. Len(glob) -> 0 .. Len(str)] :
        f[0] = 0 /\ f[i] = j /\ \A n \in 1 .. i : Aligns(f, glob, str, n)
  BY DEF Reaches
<1> DEFINE g == [f EXCEPT ![i + 1] = k]
<1>0. Len(glob) \in Nat /\ Len(str) \in Nat BY Parts
<1>2. g \in [0 .. Len(glob) -> 0 .. Len(str)] BY <1>0
<1>3. g[i + 1] = k /\ \A n \in 0 .. i : g[n] = f[n] BY <1>0
<1>4. \A n \in 1 .. i : Aligns(g, glob, str, n)
  <2> TAKE n \in 1 .. i
  <2>1. g[n] = f[n] /\ g[n - 1] = f[n - 1] BY <1>3, <1>0
  <2> QED BY <1>1, <2>1 DEF Aligns
<1>5. Aligns(g, glob, str, i + 1)
  <2>1. g[i + 1] = k /\ g[(i + 1) - 1] = j BY <1>1, <1>3, <1>0
  <2> HIDE DEF g
  <2> QED BY <2>1 DEF Aligns
<1>6. g[0] = 0 /\ \A n \in 1 .. i + 1 : Aligns(g, glob, str, n)
  <2> HIDE DEF g
  <2> QED BY <1>1, <1>3, <1>4, <1>5, <1>0
<1> HIDE DEF g
<1> QED BY <1>2, <1>3, <1>6 DEF Reaches

(* A star takes one character more. *)
LEMMA Stretch ==
  ASSUME NEW glob, NEW str, NEW st, Shape(glob, str, st), NEW i \in 1 .. Len(glob), NEW j \in 0 .. Len(str), j + 1 <= Len(str),
         glob[i] = "*", Reaches(glob, str, i, j)
  PROVE  Reaches(glob, str, i, j + 1)
<1>1. PICK f \in [0 .. Len(glob) -> 0 .. Len(str)] :
        f[0] = 0 /\ f[i] = j /\ \A n \in 1 .. i : Aligns(f, glob, str, n)
  BY DEF Reaches
<1> DEFINE g == [f EXCEPT ![i] = j + 1]
<1>0. Len(glob) \in Nat /\ Len(str) \in Nat BY Parts
<1>2. g \in [0 .. Len(glob) -> 0 .. Len(str)] BY <1>0
<1>3. g[i] = j + 1 /\ \A n \in 0 .. i - 1 : g[n] = f[n] BY <1>0
<1>4. \A n \in 1 .. i - 1 : Aligns(g, glob, str, n)
  <2> TAKE n \in 1 .. i - 1
  <2>1. g[n] = f[n] /\ g[n - 1] = f[n - 1] BY <1>3, <1>0
  <2> QED BY <1>1, <2>1, <1>0 DEF Aligns
<1>5. Aligns(g, glob, str, i)
  <2>1. f[i - 1] <= j /\ f[i - 1] \in 0 .. Len(str) BY <1>1, <1>0 DEF Aligns
  <2>2. g[i] = j + 1 /\ g[i - 1] = f[i - 1] BY <1>3, <1>0
  <2> HIDE DEF g
  <2> QED BY <2>1, <2>2 DEF Aligns
<1> HIDE DEF g
<1>6. g[0] = 0 /\ \A n \in 1 .. i : Aligns(g, glob, str, n)
  BY <1>1, <1>3, <1>4, <1>5, <1>0
<1> QED BY <1>2, <1>3, <1>6 DEF Reaches

(* A turn keeps what is consumed aligned. *)
LEMMA SoundStep ==
  ASSUME NEW glob, NEW str, NEW st, NEW nx,
         Shape(glob, str, st), Sound(glob, str, st), Turn(glob, str, st, nx)
  PROVE  Sound(glob, str, nx)
<1>0. /\ st.out = "run"
      /\ Reaches(glob, str, st.gi, st.si) /\ (st.star # 0 => Reaches(glob, str, st.star, st.mark))
      /\ Turns(glob, str, st, nx)
  BY Cases DEF Sound
<1> SUFFICES /\ nx.out = "run" => /\ Reaches(glob, str, nx.gi, nx.si)
                                  /\ nx.star # 0 => Reaches(glob, str, nx.star, nx.mark)
             /\ nx.out = "yes" => Matches(glob, str)
  BY <1>0 DEF Sound
<1> USE Parts, <1>0
<1>1. CASE Literal(glob, str, st, nx)
  <2>1. Reaches(glob, str, st.gi + 1, st.si + 1)
    <3>1. glob[st.gi + 1] # "*" BY <1>1 DEF Literal, Fits
    <3> QED BY <3>1, <1>1, Extend DEF Literal, Fits
  <2> QED BY <1>1, <2>1 DEF Literal
<1>2. CASE MeetStar(glob, str, st, nx)
  <2>1. Reaches(glob, str, st.gi + 1, st.si) BY <1>2, Extend DEF MeetStar, StarNext
  <2> QED BY <1>2, <2>1 DEF MeetStar
<1>3. CASE BackToStar(glob, str, st, nx)
  <2>0. st.si < Len(str) /\ st.star # 0 BY <1>3 DEF BackToStar, Stuck
  <2>1. Reaches(glob, str, st.star, st.mark) /\ st.mark + 1 <= Len(str) /\ st.star \in 1 .. Len(glob)
    BY <2>0
  <2>2. glob[st.star] = "*" BY <2>0 DEF Shape
  <2>3. Reaches(glob, str, st.star, st.mark + 1) BY <2>1, <2>2, Stretch
  <2> QED BY <1>3, <2>3 DEF BackToStar
<1>4. CASE Mismatch(glob, str, st, nx) BY <1>4 DEF Mismatch
<1>5. CASE SkipStar(glob, str, st, nx)
  <2>1. Reaches(glob, str, st.gi + 1, st.si) BY <1>5, Extend DEF SkipStar, StarNext
  <2> QED BY <1>5, <2>1 DEF SkipStar
<1>6. CASE Finish(glob, str, st, nx)
  <2>1. CASE st.gi = Len(glob)
    <3>1. st.si = Len(str) BY <1>6 DEF Finish
    <3>2. Reaches(glob, str, Len(glob), Len(str)) BY <2>1, <3>1
    <3>3. PICK f \in Alignments(glob, str) : TRUE BY <3>2 DEF Reaches, Alignments
    <3> QED BY <1>6, <3>3 DEF Finish, Matches
  <2>2. CASE st.gi # Len(glob) BY <1>6, <2>2 DEF Finish
  <2> QED BY <2>1, <2>2
<1> QED BY <1>1, <1>2, <1>3, <1>4, <1>5, <1>6 DEF Turns
-----------------------------------------------------------------------------
(* What an alignment says of one position. *)
LEMMA Alignment ==
  ASSUME NEW glob, NEW str, NEW st, Shape(glob, str, st), NEW f \in Alignments(glob, str)
  PROVE  /\ f \in [0 .. Len(glob) -> 0 .. Len(str)] /\ f[0] = 0 /\ f[Len(glob)] = Len(str)
         /\ \A i \in 0 .. Len(glob) : f[i] \in 0 .. Len(str)
BY Parts DEF Alignments

(* What an alignment does with the next character of the glob. *)
LEMMA Consumes ==
  ASSUME NEW glob, NEW str, NEW st, Shape(glob, str, st), NEW f \in Alignments(glob, str), NEW i \in 0 .. Len(glob), i < Len(glob)
  PROVE  /\ i + 1 \in 1 .. Len(glob) /\ f[i] \in 0 .. Len(str) /\ f[i + 1] \in 0 .. Len(str)
         /\ glob[i + 1] = "*" => f[i] <= f[i + 1]
         /\ glob[i + 1] # "*" => /\ f[i + 1] = f[i] + 1
                                 /\ glob[i + 1] = "?" \/ glob[i + 1] = str[f[i] + 1]
<1>1. i + 1 \in 1 .. Len(glob) /\ (i + 1) - 1 = i BY Parts
<1>2. Aligns(f, glob, str, i + 1) BY <1>1 DEF Alignments
<1>3. f[i] \in 0 .. Len(str) /\ f[i + 1] \in 0 .. Len(str) BY <1>1, Alignment, Parts
<1>4. CASE glob[i + 1] = "*" BY <1>1, <1>2, <1>3, <1>4 DEF Aligns
<1>5. CASE glob[i + 1] # "*" BY <1>1, <1>2, <1>3, <1>5 DEF Aligns
<1> QED BY <1>1, <1>3, <1>4, <1>5

(* No alignment is where the matcher is stuck. *)
LEMMA NotHere ==
  ASSUME NEW glob, NEW str, NEW st, Shape(glob, str, st), Stuck(glob, str, st), NEW f \in Alignments(glob, str)
  PROVE  f[st.gi] # st.si
<1> SUFFICES ASSUME f[st.gi] = st.si PROVE FALSE OBVIOUS
<1>1. CASE st.gi = Len(glob) BY <1>1, Alignment, Parts DEF Stuck
<1>2. CASE st.gi < Len(glob)
  <2>1. st.gi \in 0 .. Len(glob) BY Parts
  <2>2. glob[st.gi + 1] # "*" /\ glob[st.gi + 1] # "?" /\ glob[st.gi + 1] # str[st.si + 1]
    BY <1>2 DEF Stuck, Fits, StarNext
  <2> QED BY <1>2, <2>1, <2>2, Consumes
<1> QED BY <1>1, <1>2, Parts

(* A turn passes over no alignment. *)
LEMMA CompleteStep ==
  ASSUME NEW glob, NEW str, NEW st, NEW nx,
         Shape(glob, str, st), Complete(glob, str, st), Turn(glob, str, st, nx)
  PROVE  Complete(glob, str, nx)
<1>0. /\ st.out = "run"
      /\ \A f \in Alignments(glob, str) : InStep(str, st, f)
      /\ st.star # 0 /\ st.si < Len(str) => st.si + st.star = st.mark + st.gi
      /\ Turns(glob, str, st, nx)
  BY Cases DEF Complete
<1>a. ASSUME NEW f \in Alignments(glob, str), nx.out = "run" PROVE InStep(str, nx, f)
  <2> DEFINE n == Len(glob)
             m == Len(str)
  <2>0. /\ f \in [0 .. n -> 0 .. m] /\ st.gi \in 0 .. n /\ st.star \in 0 .. n
        /\ f[st.gi] \in 0 .. m /\ f[st.star] \in 0 .. m
        /\ f[st.gi] >= st.si
        /\ st.si < m => IF st.star = 0 THEN f[st.gi] = st.si ELSE f[st.gi] + st.star = f[st.star] + st.gi
        /\ n \in Nat /\ m \in Nat /\ st.si \in 0 .. m /\ st.mark \in 0 .. m /\ st.star <= st.gi
    BY <1>0, <1>a, Alignment, Parts DEF InStep
  <2>1. SUFFICES /\ f[nx.gi] >= nx.si
                 /\ nx.si < m => IF nx.star = 0 THEN f[nx.gi] = nx.si
                                 ELSE f[nx.gi] + nx.star = f[nx.star] + nx.gi
    BY <1>0 DEF InStep
  <2>2. CASE Literal(glob, str, st, nx)
    <3>0. st.gi < n /\ glob[st.gi + 1] # "*" BY <2>2, Parts DEF Literal, Fits
    <3>1. st.gi + 1 \in 1 .. n /\ f[st.gi + 1] = f[st.gi] + 1
      BY <3>0, <2>0, <1>a, Consumes
    <3>2. /\ st.si < m /\ nx.si = st.si + 1 /\ nx.gi = st.gi + 1
          /\ nx.star = st.star
      BY <2>2 DEF Literal
    <3>3. CASE st.star = 0 BY <2>0, <3>1, <3>2, <3>3
    <3>4. CASE st.star # 0
      <4>0. /\ f[st.gi] + st.star = f[st.star] + st.gi
            /\ f[st.gi] \in Nat /\ f[st.star] \in Nat /\ st.star \in Nat /\ st.gi \in Nat
        BY <2>0, <3>2, <3>4
      <4>1. f[st.gi + 1] + st.star = f[st.star] + (st.gi + 1)
        <5> DEFINE a == f[st.gi]
                   b == st.star
                   c == f[st.star]
                   d == st.gi
        <5>1. a \in Nat /\ b \in Nat /\ c \in Nat /\ d \in Nat /\ a + b = c + d BY <4>0
        <5>2. SUFFICES (a + 1) + b = c + (d + 1) BY <3>1
        <5> HIDE DEF a, b, c, d
        <5> QED BY ONLY <5>1, SMT
      <4>2. f[st.gi + 1] >= st.si + 1 BY <2>0, <3>1
      <4> QED BY <3>2, <3>4, <4>1, <4>2
    <3> QED BY <3>3, <3>4
  <2>3. CASE MeetStar(glob, str, st, nx)
    <3>1. st.gi + 1 \in 1 .. n /\ f[st.gi] <= f[st.gi + 1] /\ f[st.gi + 1] \in 0 .. m
      BY <2>0, <2>3, <1>a, Consumes DEF MeetStar, StarNext
    <3> QED BY <2>0, <2>3, <3>1 DEF MeetStar
  <2>4. CASE BackToStar(glob, str, st, nx)
    <3>1. f[st.gi] # st.si BY <2>4, <1>a, NotHere DEF BackToStar
    <3>2. f[st.star] >= st.mark + 1
      <4> DEFINE a == f[st.gi]
                 b == st.star
                 c == f[st.star]
                 d == st.gi
                 e == st.si
                 k == st.mark
      <4>1. st.si < m /\ st.star # 0 BY <2>4 DEF BackToStar, Stuck
      <4>2. a + b = c + d BY ONLY <4>1, <2>0
      <4>3. e + b = k + d BY ONLY <4>1, <1>0
      <4>4. a >= e /\ a # e BY ONLY <2>0, <3>1
      <4>5. a \in Nat /\ b \in Nat /\ c \in Nat /\ d \in Nat /\ e \in Nat /\ k \in Nat
        BY ONLY <2>0
      <4>6. SUFFICES c >= k + 1 OBVIOUS
      <4> HIDE DEF a, b, c, d, e, k
      <4> QED BY ONLY <4>2, <4>3, <4>4, <4>5, SMT
    <3> QED BY <2>0, <2>4, <3>2 DEF BackToStar
  <2>5. CASE SkipStar(glob, str, st, nx)
    <3>1. st.gi + 1 \in 1 .. n /\ f[st.gi] <= f[st.gi + 1] /\ f[st.gi + 1] \in 0 .. m
      BY <2>0, <2>5, <1>a, Consumes DEF SkipStar, StarNext
    <3> QED BY <2>0, <2>5, <3>1 DEF SkipStar
  <2> QED BY <1>0, <1>a, <2>2, <2>3, <2>4, <2>5 DEF Mismatch, Finish, Turns
<1>b. nx.out = "run" /\ nx.star # 0 /\ nx.si < Len(str) => nx.si + nx.star = nx.mark + nx.gi
  <2> USE <1>0, Parts
  <2>1. CASE Literal(glob, str, st, nx)
    <3>1. /\ st.si < Len(str) /\ nx.si = st.si + 1 /\ nx.gi = st.gi + 1
          /\ nx.star = st.star /\ nx.mark = st.mark
      BY <2>1 DEF Literal
    <3>2. st.star # 0 => st.si + st.star = st.mark + st.gi BY <3>1
    <3>3. st.star # 0 => (st.si + 1) + st.star = st.mark + (st.gi + 1)
      <4> DEFINE a == st.si
                 b == st.star
                 c == st.mark
                 d == st.gi
      <4>1. a \in Nat /\ b \in Nat /\ c \in Nat /\ d \in Nat OBVIOUS
      <4>2. b # 0 => a + b = c + d BY <3>2
      <4>3. SUFFICES b # 0 => (a + 1) + b = c + (d + 1) OBVIOUS
      <4> HIDE DEF a, b, c, d
      <4> QED BY ONLY <4>1, <4>2, SMT
    <3> QED BY <3>1, <3>3
  <2>2. CASE MeetStar(glob, str, st, nx) BY <2>2 DEF MeetStar
  <2>3. CASE BackToStar(glob, str, st, nx) BY <2>3 DEF BackToStar
  <2>4. CASE Mismatch(glob, str, st, nx) BY <2>4 DEF Mismatch
  <2>5. CASE SkipStar(glob, str, st, nx) BY <2>5 DEF SkipStar
  <2>6. CASE Finish(glob, str, st, nx) BY <2>6 DEF Finish
  <2> QED BY <2>1, <2>2, <2>3, <2>4, <2>5, <2>6 DEF Turns
<1>c. ASSUME nx.out = "no", NEW f \in Alignments(glob, str) PROVE FALSE
  <2>0. f[st.gi] \in 0 .. Len(str) /\ f[st.gi] >= st.si
        /\ (st.si < Len(str) /\ st.star = 0 => f[st.gi] = st.si)
    BY <1>0, <1>c, Alignment, Parts DEF InStep
  <2>1. CASE Mismatch(glob, str, st, nx) BY <2>1, <2>0, <1>c, NotHere DEF Mismatch, Stuck
  <2>2. CASE Finish(glob, str, st, nx)
    <3>1. st.gi < Len(glob) /\ st.si = Len(str) /\ glob[st.gi + 1] # "*"
      BY <2>2, <1>c, Parts DEF Finish, StarNext
    <3>2. f[st.gi + 1] = f[st.gi] + 1 /\ f[st.gi + 1] \in 0 .. Len(str)
      BY <3>1, <1>c, Consumes, Parts
    <3> QED BY <3>1, <3>2, <2>0, Parts
  <2> QED BY <1>0, <1>c, <2>1, <2>2 DEF Literal, MeetStar, BackToStar, SkipStar, Turns
<1> QED BY <1>0, <1>a, <1>b, <1>c DEF Complete
-----------------------------------------------------------------------------
(* One more row of the table is as long as the glob. *)
LEMMA Rows ==
  ASSUME NEW n \in Nat, NEW a \in Nat, NEW b \in Nat
  PROVE  /\ (a + 1) * (n + 1) = a * (n + 1) + (n + 1)
         /\ a <= b => a * (n + 1) <= b * (n + 1)
         /\ a * (n + 1) \in Nat
<1>1. a <= b => \E d \in Nat : b = a + d
  <2> SUFFICES ASSUME a <= b PROVE \E d \in Nat : b = a + d OBVIOUS
  <2>1. b - a \in Nat /\ b = a + (b - a) OBVIOUS
  <2> QED BY <2>1
<1>2. \A d \in Nat : (a + d) * (n + 1) = a * (n + 1) + d * (n + 1) /\ d * (n + 1) \in Nat
  OBVIOUS
<1>3. a * (n + 1) \in Nat OBVIOUS
<1> QED BY <1>1, <1>2, <1>3

(* A turn makes progress. *)
LEMMA FastStep ==
  ASSUME NEW glob, NEW str, NEW st, NEW nx,
         Shape(glob, str, st), Turn(glob, str, st, nx)
  PROVE  /\ nx.out = "run" => Progress(glob, st) + 1 <= Progress(glob, nx)
         /\ nx.out # "run" => Progress(glob, st) = Progress(glob, nx)
<1> DEFINE n == Len(glob)
           P(mark, gi) == mark * (n + 1) + gi
<1>0. /\ n \in Nat /\ st.gi \in 0 .. n /\ st.star \in 0 .. st.gi
      /\ st.mark \in Nat /\ st.si \in Nat /\ st.mark <= st.si /\ st.out = "run"
      /\ Turns(glob, str, st, nx)
  BY Cases, Parts
<1>1. SUFFICES /\ nx.out = "run" => P(st.mark, st.gi) + 1 <= P(nx.mark, nx.gi)
               /\ nx.out # "run" => P(st.mark, st.gi) = P(nx.mark, nx.gi)
  BY DEF Progress
<1>2. /\ st.mark * (n + 1) \in Nat /\ st.si * (n + 1) \in Nat
      /\ st.mark * (n + 1) <= st.si * (n + 1)
      /\ (st.mark + 1) * (n + 1) = st.mark * (n + 1) + (n + 1)
  BY <1>0, Rows
<1>3. CASE Literal(glob, str, st, nx) \/ SkipStar(glob, str, st, nx)
  <2>1. P(nx.mark, nx.gi) = st.mark * (n + 1) + (st.gi + 1) /\ nx.out = "run"
    BY <1>0, <1>3 DEF Literal, SkipStar
  <2> HIDE DEF n
  <2> QED BY <1>0, <1>2, <2>1
<1>4. CASE MeetStar(glob, str, st, nx)
  <2>1. P(nx.mark, nx.gi) = st.si * (n + 1) + (st.gi + 1) /\ nx.out = "run"
    BY <1>0, <1>4 DEF MeetStar
  <2> HIDE DEF n
  <2> QED BY <1>0, <1>2, <2>1
<1>5. CASE BackToStar(glob, str, st, nx)
  <2>1. P(nx.mark, nx.gi) = (st.mark + 1) * (n + 1) + st.star /\ nx.out = "run"
    BY <1>0, <1>5 DEF BackToStar
  <2> HIDE DEF n
  <2> QED BY <1>0, <1>2, <2>1
<1>6. CASE Mismatch(glob, str, st, nx) \/ Finish(glob, str, st, nx)
  BY <1>0, <1>6 DEF Mismatch, Finish
<1> QED BY <1>0, <1>3, <1>4, <1>5, <1>6 DEF Turns

(* There is only so much of it to make. *)
LEMMA FastBound ==
  ASSUME NEW glob, NEW str, NEW st, Shape(glob, str, st)
  PROVE  /\ Progress(glob, st) \in Nat /\ (Len(str) + 1) * (Len(glob) + 1) \in Nat
         /\ Progress(glob, st) + 1 <= (Len(str) + 1) * (Len(glob) + 1)
<1> DEFINE n == Len(glob)
           m == Len(str)
<1>1. n \in Nat /\ m \in Nat /\ st.gi \in 0 .. n /\ st.mark \in Nat /\ st.mark <= m BY Parts
<1>2. /\ st.mark * (n + 1) <= m * (n + 1) /\ (m + 1) * (n + 1) = m * (n + 1) + (n + 1)
      /\ m * (n + 1) \in Nat /\ st.mark * (n + 1) \in Nat
  BY <1>1, Rows
<1>3. SUFFICES /\ st.mark * (n + 1) + st.gi \in Nat /\ (m + 1) * (n + 1) \in Nat
               /\ st.mark * (n + 1) + st.gi + 1 <= (m + 1) * (n + 1)
  BY DEF Progress
<1> HIDE DEF n, m
<1> QED BY <1>1, <1>2
-----------------------------------------------------------------------------
Good(glob, str, st) == Shape(glob, str, st) /\ Sound(glob, str, st) /\ Complete(glob, str, st)

(* The loop starts with nothing consumed. *)
LEMMA Starts ==
  ASSUME NEW glob \in Globs, NEW str \in Names
  PROVE  Good(glob, str, Start)
<1>0. Len(glob) \in Nat /\ Len(str) \in Nat BY DEF Globs, Names
<1>1. Shape(glob, str, Start) BY <1>0 DEF Shape, States, Start
<1>2. Sound(glob, str, Start)
  <2> DEFINE f == [i \in 0 .. Len(glob) |-> 0]
  <2>1. f \in [0 .. Len(glob) -> 0 .. Len(str)] /\ f[0] = 0 BY <1>0
  <2>2. Reaches(glob, str, 0, 0)
    <3> HIDE DEF f
    <3>1. \A n \in 1 .. 0 : Aligns(f, glob, str, n) OBVIOUS
    <3> QED BY <2>1, <3>1 DEF Reaches
  <2> QED BY <2>2 DEF Sound, Start
<1>3. Complete(glob, str, Start)
  <2>1. \A f \in Alignments(glob, str) : f[0] = 0 BY DEF Alignments
  <2> QED BY <2>1 DEF Complete, InStep, Start
<1> QED BY <1>1, <1>2, <1>3 DEF Good

(* Every turn keeps it. *)
LEMMA GoodStep ==
  ASSUME NEW glob, NEW str, NEW st, NEW nx, Good(glob, str, st), Turn(glob, str, st, nx)
  PROVE  Good(glob, str, nx)
BY ShapeStep, SoundStep, CompleteStep DEF Good

(* A set of natural numbers that is not empty has a least one. *)
LEMMA Least ==
  ASSUME NEW T \in SUBSET Nat, T # {}
  PROVE  \E x \in T : \A y \in T : x <= y
<1>1. \E x \in T : \A y \in T : ~ (<<y, x>> \in OpToRel(<, Nat))
  <2>0. T \subseteq Nat /\ T # {} OBVIOUS
  <2> HIDE DEF OpToRel
  <2> QED BY <2>0, NatLessThanWellFounded, WFMin
<1>2. PICK x \in T : \A y \in T : ~ (<<y, x>> \in OpToRel(<, Nat)) BY <1>1
<1>3. \A y \in T : ~ (y < x) BY <1>2 DEF OpToRel
<1> QED BY <1>3
-----------------------------------------------------------------------------
(* The states from which the loop comes to answer "yes": the least set that
   has the "yes" states and every state whose next one it has. *)
Closed(glob, str, C) ==
  /\ \A st \in States : st.out = "yes" => st \in C
  /\ \A st \in States : st.out = "run" /\ Step(glob, str, st) \in C => st \in C

Accepted(glob, str) == {st \in States : \A C \in SUBSET States : Closed(glob, str, C) => st \in C}

(* A state that is neither accepted nor leads to one is in the way of nothing. *)
LEMMA AcceptedIsFixed ==
  ASSUME NEW glob, NEW str, \A st \in States : st.out = "run" => Step(glob, str, st) \in States,
         NEW st \in States
  PROVE  st \in Accepted(glob, str) <=> IF st.out = "run" THEN Step(glob, str, st) \in Accepted(glob, str)
                                         ELSE st.out = "yes"
<1> DEFINE F == Accepted(glob, str)
           D == {s \in States : \/ s.out = "yes"
                                \/ s.out = "run" /\ Step(glob, str, s) \in F}
<1>1. Closed(glob, str, F) BY DEF Accepted, Closed
<1>2. D \subseteq F BY <1>1 DEF Closed
<1>3. Closed(glob, str, D) BY <1>2 DEF Closed
<1>4. F \subseteq D BY <1>3 DEF Accepted
<1>5. st \in F <=> st \in D BY <1>2, <1>4
<1>6. st \in D <=> IF st.out = "run" THEN Step(glob, str, st) \in F ELSE st.out = "yes" OBVIOUS
<1> QED BY <1>5, <1>6

(* A turn stays among the states, wherever the pointers are. *)
LEMMA StepIsState ==
  ASSUME NEW glob, NEW str, NEW st \in States
  PROVE  Step(glob, str, st) \in States
<1>0. st.gi \in Nat /\ st.gi + 1 \in Nat /\ st.si \in Nat /\ st.si + 1 \in Nat
      /\ st.star \in Nat /\ st.mark \in Nat /\ st.mark + 1 \in Nat
  BY DEF States
<1>1. /\ [st EXCEPT !.gi = st.gi + 1, !.si = st.si + 1] \in States
      /\ [st EXCEPT !.gi = st.gi + 1, !.star = st.gi + 1, !.mark = st.si] \in States
      /\ [st EXCEPT !.gi = st.star, !.si = st.mark + 1, !.mark = st.mark + 1] \in States
  BY <1>0, Moved
<1>2. /\ [st EXCEPT !.gi = st.gi + 1] \in States /\ [st EXCEPT !.out = "no"] \in States
      /\ [st EXCEPT !.out = IF st.gi = Len(glob) THEN "yes" ELSE "no"] \in States
  BY <1>0 DEF States
<1> QED BY <1>1, <1>2 DEF Step

(* GlobMatch is what the loop answers: there is a function that answers as
   the loop does, and the one that GlobMatch takes does so too. *)
LEMMA Answers ==
  ASSUME NEW glob, NEW str
  PROVE  \E run : /\ \A st \in States : run[st] = IF st.out = "run" THEN run[Step(glob, str, st)] ELSE st.out = "yes"
                  /\ GlobMatch(glob, str) = run[Start]
<1> DEFINE Eq(g) == g = [st \in States |-> IF st.out = "run" THEN g[Step(glob, str, st)] ELSE st.out = "yes"]
           f == [st \in States |-> st \in Accepted(glob, str)]
           run == CHOOSE g : Eq(g)
<1>1. Eq(f)
  <2>1. \A st \in States : Step(glob, str, st) \in States BY StepIsState
  <2>2. \A st \in States : st \in Accepted(glob, str)
            <=> IF st.out = "run" THEN Step(glob, str, st) \in Accepted(glob, str) ELSE st.out = "yes"
    BY <2>1, AcceptedIsFixed
  <2>3. \A st \in States : f[st] = IF st.out = "run" THEN f[Step(glob, str, st)] ELSE st.out = "yes"
    BY <2>1, <2>2
  <2> QED BY <2>3
<1>2. Eq(run)
  <2> HIDE DEF f, Eq
  <2> QED BY <1>1
<1>3. GlobMatch(glob, str) = run[Start] BY DEF GlobMatch
<1>4. \A st \in States : run[st] = IF st.out = "run" THEN run[Step(glob, str, st)] ELSE st.out = "yes"
  <2> HIDE DEF run
  <2> QED BY <1>2
<1> HIDE DEF run
<1> QED BY <1>3, <1>4

(* policy.ts:57-66, globMatch and the comment above it: the loop answers TRUE
   for the names that the glob covers, and for no other, for every glob and
   every name without a star. *)
THEOREM GlobMatches ==
  ASSUME NEW glob \in Globs, NEW str \in Names
  PROVE  GlobMatch(glob, str) <=> Matches(glob, str)
<1>1. PICK run : /\ \A st \in States : run[st] = IF st.out = "run" THEN run[Step(glob, str, st)] ELSE st.out = "yes"
                 /\ GlobMatch(glob, str) = run[Start]
  BY Answers
<1> DEFINE N == (Len(str) + 1) * (Len(glob) + 1)
           Right(st) == run[st] <=> Matches(glob, str)
           Wrong == {st \in States : Good(glob, str, st) /\ st.out = "run" /\ ~ Right(st)}
           T == {N - Progress(glob, st) : st \in Wrong}
<1>2. ASSUME NEW st \in States, Good(glob, str, st), st.out # "run" PROVE Right(st)
  <2>1. st.out = "yes" => Matches(glob, str) BY <1>2 DEF Good, Sound
  <2>2. st.out # "yes" => ~ Matches(glob, str) BY <1>2 DEF Good, Complete, Matches, States
  <2> QED BY <1>1, <1>2, <2>1, <2>2
<1>3. Wrong = {}
  <2> SUFFICES ASSUME Wrong # {} PROVE FALSE OBVIOUS
  <2>1. T \in SUBSET Nat /\ T # {}
    <3>1. \A st \in Wrong : N - Progress(glob, st) \in Nat
      <4> SUFFICES ASSUME NEW st \in Wrong PROVE N - Progress(glob, st) \in Nat OBVIOUS
      <4>1. Progress(glob, st) \in Nat /\ N \in Nat /\ Progress(glob, st) + 1 <= N BY FastBound DEF Good
      <4> HIDE DEF N, Wrong
      <4> QED BY <4>1
    <3> HIDE DEF N, Wrong
    <3> QED BY <3>1
  <2>2. PICK x \in T : \A y \in T : x <= y
    <3> HIDE DEF T
    <3> QED BY <2>1, Least
  <2>3. PICK st \in Wrong : x = N - Progress(glob, st) OBVIOUS
  <2> DEFINE nx == Step(glob, str, st)
  <2>4. /\ st \in States /\ Good(glob, str, st) /\ st.out = "run" /\ ~ Right(st)
        /\ nx \in States /\ Turn(glob, str, st, nx)
    BY StepIsState DEF Turn
  <2>5. run[st] = run[nx] BY <1>1, <2>4
  <2> HIDE DEF nx
  <2>6. Good(glob, str, nx) BY <2>4, GoodStep
  <2>7. nx.out = "run" /\ nx \in Wrong BY <1>2, <2>4, <2>5, <2>6
  <2>8. N - Progress(glob, nx) \in T BY <2>7
  <2>9. x <= N - Progress(glob, nx) BY <2>2, <2>8
  <2>10. Progress(glob, st) + 1 <= Progress(glob, nx) BY <2>4, <2>7, FastStep DEF Good
  <2>11. Progress(glob, st) \in Nat /\ Progress(glob, nx) \in Nat /\ N \in Nat
    BY <2>4, <2>6, FastBound DEF Good
  <2> HIDE DEF N, T, Wrong
  <2> QED BY <2>3, <2>9, <2>10, <2>11
<1>4. Start \in States BY DEF Start, States
<1>5. Good(glob, str, Start) BY Starts
<1>6. Start.out = "run" BY DEF Start
<1>7. Right(Start) BY <1>3, <1>4, <1>5, <1>6
<1> QED BY <1>1, <1>7

(* What the loop goes through. *)
Runs(glob, str) ==
  {s \in Seq(States) : /\ s # <<>> /\ s[1] = Start
                       /\ \A i \in 1 .. Len(s) - 1 : Turn(glob, str, s[i], s[i + 1])}

(* policy.ts:57 ("ReDoS-free"): a glob cannot keep the matcher busy, which
   takes at most one turn per pair of pointers. *)
THEOREM GlobIsFast ==
  ASSUME NEW glob \in Globs, NEW str \in Names, NEW s \in Runs(glob, str)
  PROVE  Len(s) - 1 <= (Len(str) + 1) * (Len(glob) + 1)
<1> DEFINE Extra(st) == IF st.out = "run" THEN 0 ELSE 1
           OnTime(i) == Good(glob, str, s[i]) /\ i - 1 <= Progress(glob, s[i]) + Extra(s[i])
           Late == {i \in 1 .. Len(s) : ~ OnTime(i)}
<1>0. s \in Seq(States) /\ Len(s) \in Nat /\ Len(s) > 0 /\ s[1] = Start
      /\ \A i \in 1 .. Len(s) - 1 : Turn(glob, str, s[i], s[i + 1])
  BY DEF Runs
<1>1. Late = {}
  <2> SUFFICES ASSUME Late # {} PROVE FALSE OBVIOUS
  <2>1. PICK i \in Late : \A j \in Late : i <= j
    <3>1. Late \in SUBSET Nat BY <1>0
    <3> HIDE DEF Late
    <3> QED BY <3>1, Least
  <2>2. i \in 1 .. Len(s) /\ ~ OnTime(i) OBVIOUS
  <2>3. CASE i = 1
    <3>1. Good(glob, str, s[i]) /\ s[i].out = "run" BY <1>0, <2>3, Starts DEF Start
    <3>2. Progress(glob, s[i]) \in Nat BY <3>1, FastBound DEF Good
    <3> QED BY <2>2, <2>3, <3>1, <3>2
  <2>4. CASE i # 1
    <3>1. i - 1 \in 1 .. Len(s) - 1 /\ i - 1 \in 1 .. Len(s) /\ (i - 1) + 1 = i /\ ~ (i <= i - 1) BY <1>0, <2>2, <2>4
    <3>2. i - 1 \notin Late BY <2>1, <3>1
    <3>3. OnTime(i - 1) BY <3>1, <3>2
    <3>4. Turn(glob, str, s[i - 1], s[i]) BY <1>0, <3>1
    <3>5. Good(glob, str, s[i]) BY <3>3, <3>4, GoodStep
    <3>6. /\ s[i - 1].out = "run"
          /\ s[i].out = "run" => Progress(glob, s[i - 1]) + 1 <= Progress(glob, s[i])
          /\ s[i].out # "run" => Progress(glob, s[i - 1]) = Progress(glob, s[i])
      BY <3>3, <3>4, FastStep DEF Good, Turn
    <3>7. Progress(glob, s[i - 1]) \in Nat /\ Progress(glob, s[i]) \in Nat BY <3>3, <3>5, FastBound DEF Good
    <3> HIDE DEF Late
    <3> QED BY <2>2, <3>3, <3>5, <3>6, <3>7
  <2> QED BY <2>3, <2>4
<1>2. Len(s) \in 1 .. Len(s) BY <1>0
<1>3. OnTime(Len(s)) BY <1>1, <1>2
<1>4. /\ Progress(glob, s[Len(s)]) \in Nat /\ (Len(str) + 1) * (Len(glob) + 1) \in Nat
      /\ Progress(glob, s[Len(s)]) + 1 <= (Len(str) + 1) * (Len(glob) + 1)
  BY <1>3, FastBound DEF Good
<1> QED BY <1>0, <1>3, <1>4
=============================================================================
