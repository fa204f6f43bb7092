--------------------------- MODULE ExecutionProofs --------------------------
(***************************************************************************)
(* Proofs about Execution: types, the command budget, the deadline, and    *)
(* that a result is that of the whole program.                             *)
(*                                                                         *)
(* An action changes the local state of one execution, or one clock, so    *)
(* the inductive invariant is a predicate of one local state and one clock.*)
(***************************************************************************)
EXTENDS Execution, TLAPS

\* The places where the commands of the current pipeline fit the budget and
\* are not counted yet; where there is a current pipeline; and after the
\* last one.
Admitted == {"expand", "prepare", "redirect", "begin"}
Inner == {"item", "pipeline", "running"} \union Admitted
Closing == {"check", "store", "count", "decide"}

\* The first m pipelines of the program have been dealt with as the grammar
\* says, and status is that of the last of them that ran.
Sound(prog, ran, status, m) ==
  /\ \A k \in DOMAIN ran : ran[k].pos \in 1..m
  /\ \A n \in 1..m : Ran(ran, n) <=> Selected(prog, ran, n)
  /\ m > 0 => ran # <<>> /\ status = ran[Len(ran)].status

\* What an execution's local state has counted.
Counted(r, x) ==
  /\ r.pc \in Inner => r.prog # <<>>
  /\ r.count <= MaxCommands
  /\ r.pc \in Admitted => r.count + r.prog[r.pos].size <= MaxCommands
  /\ r.late <= 1
  /\ r.late = 1 => x /\ r.pc \notin Admitted

\* Unless a limit or the deadline got in the way, what has been run is sound;
\* both of them show in the result.
Truthful(r, x) ==
  /\ r.limit => r.pc \in Closing \union {"done"} /\ r.status = LimitHit
  /\ r.pc \in Inner /\ ~x =>
       /\ Sound(r.prog, r.ran, r.status, r.pos - 1)
       /\ r.pc # "item" => Selected(r.prog, r.ran, r.pos)
  /\ r.pc \in Closing /\ ~x /\ ~r.limit /\ r.prog # <<>> =>
       Sound(r.prog, r.ran, r.status, Len(r.prog))
  /\ r.pc = "done" /\ r.result \notin {TimedOut, LimitHit} /\ r.prog # <<>> =>
       Sound(r.prog, r.ran, r.status, Len(r.prog)) /\ r.result = r.status

InPlace(r) == r.pos \in 1..(IF r.prog = <<>> THEN 1 ELSE Len(r.prog))

Good(r, x) == r \in Local /\ InPlace(r) /\ Counted(r, x) /\ Truthful(r, x)

IInv == TypeOK /\ \A e \in Execs : Good(run[e], expired[e])
Entry == [pos : Nat, status : Codes]
Stages == [op : {"list", "and", "or"}, size : Nat \ {0}]

\* The shell's own codes are codes.
LEMMA ShellCodes == {0, TimedOut, LimitHit, SyntaxError} \subseteq Codes
  BY DEF Codes, TimedOut, LimitHit, SyntaxError

-----------------------------------------------------------------------------
(***************************************************************************)
(* The history of a run and what the grammar selects.                      *)
(***************************************************************************)
\* What the parser guarantees of a program.
LEMMA ProgramShape ==
  ASSUME NEW prog \in Programs
  PROVE  /\ prog \in Seq(Stages) /\ Len(prog) \in Nat
         /\ \A n \in 1..Len(prog) :
              /\ prog[n].op \in {"list", "and", "or"}
              /\ prog[n].size \in Nat \ {0}
              /\ n = 1 => prog[n].op = "list"
<1>1. prog \in Seq(Stages) /\ (prog # <<>> => prog[1].op = "list")
  BY ProgramAssumption, Zenon DEF Stages
<1>2. Len(prog) \in Nat /\ \A n \in 1..Len(prog) : prog[n] \in Stages
  BY <1>1
<1>3. prog = <<>> => Len(prog) = 0
  OBVIOUS
<1>4. ASSUME NEW n \in 1..Len(prog) PROVE n = 1 => prog[n].op = "list"
  BY <1>1, <1>2, <1>3
<1>5. ASSUME NEW n \in 1..Len(prog)
      PROVE  prog[n].op \in {"list", "and", "or"} /\ prog[n].size \in Nat \ {0}
  BY <1>2 DEF Stages
<1> QED BY <1>1, <1>2, <1>4, <1>5

\* What the loops of exec_inner and exec_and_or_list look at decides as the
\* grammar does.
LEMMA SoundItem ==
  ASSUME NEW prog \in Programs, NEW ran \in Seq(Entry), NEW status \in Codes,
         NEW n \in 1..Len(prog), Sound(prog, ran, status, n - 1)
  PROVE  Selected(prog, ran, n)
           <=> (prog[n].op = "list" \/ (prog[n].op = "and" <=> status = 0))
<1>1. Len(prog) \in Nat /\ prog[n].op \in {"list", "and", "or"} /\ (n = 1 => prog[n].op = "list")
  BY ProgramShape
<1>2. CASE prog[n].op = "list"
  BY <1>2 DEF Selected
<1>3. CASE prog[n].op # "list"
  <2>1. n > 1
    BY <1>1, <1>3
  <2>2. ran # <<>> /\ status = ran[Len(ran)].status
    BY <2>1 DEF Sound
  <2>3. Len(ran) \in DOMAIN ran /\ \A k \in DOMAIN ran : k \in Nat /\ k <= Len(ran)
    BY <2>2
  <2>4. \A k \in DOMAIN ran : ran[k].pos < n
    BY DEF Sound, Entry
  <2>5. LastSucceeded(ran, n) <=> \E k \in DOMAIN ran : ran[k].status = 0 /\ \A j \in DOMAIN ran : j <= k
    BY <2>4 DEF LastSucceeded
  <2>6. LastSucceeded(ran, n) <=> status = 0
    BY <2>2, <2>3, <2>5
  <2> QED BY <1>1, <1>3, <2>6 DEF Selected
<1> QED BY <1>2, <1>3

\* A pipeline that is not selected may be skipped.
LEMMA SoundSkip ==
  ASSUME NEW prog \in Programs, NEW ran \in Seq(Entry), NEW status \in Codes,
         NEW n \in 1..Len(prog), Sound(prog, ran, status, n - 1),
         ~Selected(prog, ran, n)
  PROVE  Sound(prog, ran, status, n)
<1>0. Len(prog) \in Nat /\ (n = 1 => prog[n].op = "list")
  BY ProgramShape
<1>1. n > 1
  BY <1>0 DEF Selected
<1>2. \A k \in DOMAIN ran : ran[k].pos \in 1..n
  BY DEF Sound, Entry
<1>3. ~Ran(ran, n)
  BY DEF Sound, Entry, Ran
<1>4. \A m \in 1..n : Ran(ran, m) <=> Selected(prog, ran, m)
  <2> SUFFICES ASSUME NEW m \in 1..n PROVE Ran(ran, m) <=> Selected(prog, ran, m)
    OBVIOUS
  <2>1. m = n \/ m \in 1..(n - 1)
    OBVIOUS
  <2> QED BY <2>1, <1>3 DEF Sound
<1> QED BY <1>1, <1>2, <1>4 DEF Sound

\* A selected pipeline may run and end with any status.
LEMMA SoundRun ==
  ASSUME NEW prog \in Programs, NEW ran \in Seq(Entry), NEW status \in Codes,
         NEW n \in 1..Len(prog), Sound(prog, ran, status, n - 1),
         Selected(prog, ran, n), NEW end \in Codes,
         NEW new, new = Append(ran, [pos |-> n, status |-> end])
  PROVE  Sound(prog, new, end, n)
<1> DEFINE entry == [pos |-> n, status |-> end]
<1>1. /\ entry \in Entry /\ entry.pos = n /\ entry.status = end
      /\ new \in Seq(Entry) /\ Len(new) = Len(ran) + 1 /\ Len(ran) \in Nat
      /\ \A k \in DOMAIN ran : new[k] = ran[k]
      /\ new[Len(new)] = entry
  BY DEF Entry
<1>2. DOMAIN new = DOMAIN ran \union {Len(new)} /\ DOMAIN ran = 1..Len(ran)
  BY <1>1
<1>3. \A k \in DOMAIN ran : ran[k].pos \in 1..(n - 1)
  BY DEF Sound
<1> HIDE DEF entry
<1>4. ASSUME NEW m \in 1..n
      PROVE  {k \in DOMAIN new : new[k].pos < m} = {k \in DOMAIN ran : ran[k].pos < m}
  BY <1>1, <1>2
<1>5. ASSUME NEW m \in 1..n PROVE LastSucceeded(new, m) <=> LastSucceeded(ran, m)
  <2> DEFINE B == {k \in DOMAIN ran : ran[k].pos < m}
  <2>1. \A k \in B : new[k] = ran[k]
    BY <1>1
  <2>2. LastSucceeded(new, m) <=> \E k \in B : new[k].status = 0 /\ \A j \in B : j <= k
    BY <1>4 DEF LastSucceeded
  <2>3. LastSucceeded(ran, m) <=> \E k \in B : ran[k].status = 0 /\ \A j \in B : j <= k
    BY DEF LastSucceeded
  <2> QED BY <2>1, <2>2, <2>3
<1>6. ASSUME NEW m \in 1..n PROVE Ran(new, m) <=> Selected(prog, new, m)
  <2>1. CASE m = n
    BY <2>1, <1>1, <1>2, <1>5 DEF Ran, Selected
  <2>2. CASE m # n
    <3>1. m \in 1..(n - 1)
      BY <2>2
    <3>2. Ran(new, m) <=> Ran(ran, m)
      BY <2>2, <1>1, <1>2 DEF Ran
    <3> QED BY <3>1, <3>2, <1>5 DEF Sound, Selected
  <2> QED BY <2>1, <2>2
<1>7. \A k \in DOMAIN new : new[k].pos \in 1..n
  BY <1>1, <1>2, <1>3
<1>8. new # <<>> /\ end = new[Len(new)].status
  BY <1>1
<1> QED BY <1>6, <1>7, <1>8 DEF Sound

-----------------------------------------------------------------------------
(***************************************************************************)
(* Steps of one execution.                                                 *)
(***************************************************************************)
\* A good local state for one execution keeps the invariant, whatever the
\* step does to what is shared.
LEMMA LocalStep ==
  ASSUME IInv, NEW e \in Execs, NEW r, Good(r, expired[e]),
         run' = [run EXCEPT ![e] = r], UNCHANGED expired,
         stored' \in [by : Execs \union {Nobody}, status : Codes], commandsRun' \in Nat
  PROVE  IInv'
<1>1. run' = [run EXCEPT ![e] = r] /\ UNCHANGED expired
  OBVIOUS
<1>2. r \in Local /\ InPlace(r) /\ run \in [Execs -> Local]
  BY DEF Good, IInv, TypeOK
<1>3. run' \in [Execs -> Local] /\ \A f \in Execs : run'[f] = IF f = e THEN r ELSE run[f]
  BY <1>1, <1>2
<1>4. \A f \in Execs : Good(run'[f], expired[f])
  BY <1>3 DEF IInv
<1>5. \A f \in Execs : InPlace(run'[f])
  BY <1>4 DEF Good
<1>6. TypeOK'
  BY <1>1, <1>3, <1>5 DEF IInv, TypeOK, InPlace
<1>7. \A f \in Execs : Good(run'[f], expired'[f])
  BY <1>1, <1>4
<1> QED BY <1>6, <1>7 DEF IInv

LEMMA PutStep ==
  ASSUME IInv, NEW e \in Execs, NEW r, Put(e, r), Good(r, expired[e])
  PROVE  IInv'
<1>1. /\ run' = [run EXCEPT ![e] = r] /\ UNCHANGED expired
      /\ stored' \in [by : Execs \union {Nobody}, status : Codes] /\ commandsRun' \in Nat
  BY DEF Put, IInv, TypeOK
<1> QED BY <1>1, LocalStep

\* An execution with a current pipeline.
HasPipeline(r, x) ==
  /\ r \in Local /\ r.prog \in Programs /\ r.prog # <<>>
  /\ Len(r.prog) \in Nat /\ r.pos \in 1..Len(r.prog) /\ r.pos \in Nat
  /\ r.limit = FALSE
  /\ r.prog[r.pos].op \in {"list", "and", "or"}
  /\ r.prog[r.pos].size \in Nat \ {0}
  /\ r.count \in Nat /\ r.count <= MaxCommands /\ r.late \in Nat /\ r.late <= 1
  /\ r.late = 1 => x
  /\ r.ran \in Seq(Entry) /\ r.status \in Codes

\* Every place inside the loops of exec_inner has a current pipeline.
LEMMA InnerFacts ==
  ASSUME NEW r, NEW x \in BOOLEAN, Good(r, x), r.pc \in Inner
  PROVE  HasPipeline(r, x)
<1>1. r \in Local /\ r.prog \in Programs /\ r.prog # <<>>
  BY DEF Good, Counted, Local
<1>2. Len(r.prog) \in Nat /\ r.pos \in 1..Len(r.prog)
  BY <1>1, ProgramShape DEF Good, InPlace
<1>3. /\ r.prog[r.pos].op \in {"list", "and", "or"}
      /\ r.prog[r.pos].size \in Nat \ {0}
  BY <1>1, <1>2, ProgramShape
<1>4. r.limit = FALSE
  BY <1>1 DEF Good, Truthful, Inner, Admitted, Closing, Local
<1>5. r.ran \in Seq(Entry) /\ r.status \in Codes /\ r.count \in Nat /\ r.late \in Nat
  BY <1>1 DEF Local, Entry, Histories
<1>6. r.count <= MaxCommands /\ r.late <= 1 /\ (r.late = 1 => x)
  BY DEF Good, Counted
<1> QED BY <1>1, <1>2, <1>3, <1>4, <1>5, <1>6 DEF HasPipeline

\* The loops go on to the next pipeline, or end.
LEMMA AfterStep ==
  ASSUME NEW r \in Local, NEW x \in BOOLEAN, r.prog \in Programs, r.prog # <<>>,
         r.pos \in 1..Len(r.prog), r.count <= MaxCommands, r.late <= 1, r.late = 1 => x,
         r.limit => r.status = LimitHit,
         ~x /\ ~r.limit => Sound(r.prog, r.ran, r.status, r.pos)
  PROVE  Good(After(r), x)
<1> DEFINE last == r.limit \/ r.pos = Len(r.prog)
           s == After(r)
<1>1. Len(r.prog) \in Nat
  BY ProgramShape
<1>2. s = [r EXCEPT !.pc = IF last THEN "check" ELSE "item", !.pos = IF last THEN @ ELSE @ + 1]
  BY DEF After
<1>3. /\ s.pc = IF last THEN "check" ELSE "item"
      /\ s.pos = IF last THEN r.pos ELSE r.pos + 1
      /\ s.prog = r.prog /\ s.status = r.status /\ s.by = r.by /\ s.count = r.count
      /\ s.limit = r.limit /\ s.result = r.result /\ s.ran = r.ran /\ s.late = r.late
  BY <1>2 DEF Local
<1>4. s \in Local
  <2> DEFINE pc == IF last THEN "check" ELSE "item"
             pos == IF last THEN r.pos ELSE r.pos + 1
  <2>1. pc \in PCs /\ pos \in Nat /\ s = [r EXCEPT !.pc = pc, !.pos = pos]
    BY <1>1, <1>2 DEF PCs
  <2> HIDE DEF pc, pos
  <2> QED BY <2>1 DEF Local
<1> HIDE DEF s
<1>5. InPlace(s)
  BY <1>1, <1>3 DEF InPlace
<1>6. Counted(s, x)
  BY <1>3 DEF Counted, Admitted
<1>7. s.limit => s.pc \in Closing \union {"done"} /\ s.status = LimitHit
  BY <1>3 DEF Closing
<1>8. s.pc \in Inner /\ ~x =>
        /\ Sound(s.prog, s.ran, s.status, s.pos - 1)
        /\ s.pc # "item" => Selected(s.prog, s.ran, s.pos)
  <2> SUFFICES ASSUME s.pc \in Inner, ~x
               PROVE  Sound(s.prog, s.ran, s.status, s.pos - 1) /\ s.pc = "item"
    OBVIOUS
  <2>1. s.pc = "item" /\ ~last
    BY <1>3 DEF Inner, Admitted
  <2>2. s.pos - 1 = r.pos
    BY <1>1, <1>3, <2>1
  <2> QED BY <1>3, <2>1, <2>2
<1>9. s.pc \in Closing /\ ~x /\ ~s.limit /\ s.prog # <<>> =>
        Sound(s.prog, s.ran, s.status, Len(s.prog))
  BY <1>3 DEF Closing
<1>10. Truthful(s, x)
  BY <1>3, <1>7, <1>8, <1>9 DEF Truthful
<1>11. Good(s, x)
  BY <1>4, <1>5, <1>6, <1>10 DEF Good
<1> QED BY <1>11 DEF s

\* An execution goes on with its current pipeline.
LEMMA MoveStep ==
  ASSUME NEW r, NEW x \in BOOLEAN, Good(r, x), r.pc \in Inner,
         NEW pc \in Inner \ {"item"},
         pc \in Admitted => r.count + r.prog[r.pos].size <= MaxCommands /\ r.late # 1,
         ~x => Selected(r.prog, r.ran, r.pos)
  PROVE  Good([r EXCEPT !.pc = pc], x)
<1> DEFINE s == [r EXCEPT !.pc = pc]
<1>0. HasPipeline(r, x)
  BY InnerFacts
<1>1. r \in Local /\ r.limit = FALSE /\ r.late <= 1 /\ r.prog # <<>> /\ r.count <= MaxCommands
  BY <1>0 DEF HasPipeline
<1>2. pc \in PCs
  BY DEF PCs, Inner, Admitted
<1>3. /\ s.pc = pc /\ s.prog = r.prog /\ s.pos = r.pos /\ s.status = r.status
      /\ s.count = r.count /\ s.limit = r.limit /\ s.ran = r.ran /\ s.late = r.late
  BY <1>1 DEF Local
<1>4. s \in Local
  BY <1>1, <1>2 DEF Local
<1> HIDE DEF s
<1>5. InPlace(s)
  BY <1>3 DEF Good, InPlace
<1>6. Counted(s, x)
  BY <1>1, <1>3 DEF Good, Counted
<1>7. s.pc \notin Closing /\ s.pc # "done" /\ s.limit = FALSE
  BY <1>1, <1>3 DEF Closing, Inner, Admitted
<1>8. ~x => Sound(s.prog, s.ran, s.status, s.pos - 1) /\ Selected(s.prog, s.ran, s.pos)
  BY <1>3 DEF Good, Truthful
<1>9. Truthful(s, x)
  BY <1>7, <1>8 DEF Truthful
<1>10. Good(s, x)
  BY <1>4, <1>5, <1>6, <1>9 DEF Good
<1> QED BY <1>10 DEF s

\* An execution that is past its program, or whose time is up, goes on to
\* its end.
LEMMA CloseStep ==
  ASSUME NEW r, NEW x \in BOOLEAN, Good(r, x), r.pc \in Closing \/ (x /\ r.pc \in Inner),
         NEW pc \in Closing
  PROVE  Good([r EXCEPT !.pc = pc], x)
<1> DEFINE s == [r EXCEPT !.pc = pc]
<1>1. r \in Local
  BY DEF Good
<1>2. pc \in PCs /\ pc \notin Inner /\ pc \notin Admitted /\ pc # "done"
  BY DEF PCs, Closing, Inner, Admitted
<1>3. /\ s.pc = pc /\ s.prog = r.prog /\ s.pos = r.pos /\ s.status = r.status
      /\ s.count = r.count /\ s.limit = r.limit /\ s.ran = r.ran /\ s.late = r.late
  BY <1>1 DEF Local
<1>4. s \in Local
  BY <1>1, <1>2 DEF Local
<1> HIDE DEF s
<1>5. InPlace(s)
  BY <1>3 DEF Good, InPlace
<1>6. Counted(s, x)
  BY <1>2, <1>3 DEF Good, Counted
<1>7. s.limit => s.status = LimitHit
  BY <1>3 DEF Good, Truthful
<1>8. ~x /\ ~s.limit /\ s.prog # <<>> => Sound(s.prog, s.ran, s.status, Len(s.prog))
  BY <1>3 DEF Good, Truthful
<1>9. Truthful(s, x)
  BY <1>2, <1>3, <1>7, <1>8 DEF Truthful
<1>10. Good(s, x)
  BY <1>4, <1>5, <1>6, <1>9 DEF Good
<1> QED BY <1>10 DEF s

\* An execution ends: it is dropped, it times out, or it returns the status
\* of a run that the deadline did not cut short.
LEMMA EndStep ==
  ASSUME NEW r, NEW x \in BOOLEAN, Good(r, x), r.pc \in Closing \union Inner,
         NEW pc \in {"done", "dropped"}, NEW result \in Codes \union {Pending},
         \/ pc = "done" /\ result = TimedOut
         \/ pc = "dropped" /\ r.pc \in Inner
         \/ pc = "done" /\ r.pc \in Closing /\ ~x /\ result = r.status
  PROVE  Good([r EXCEPT !.pc = pc, !.result = result], x)
<1> DEFINE s == [r EXCEPT !.pc = pc, !.result = result]
<1>1. r \in Local
  BY DEF Good
<1>2. pc \in PCs /\ pc \notin Inner /\ pc \notin Admitted /\ pc \notin Closing
  BY DEF PCs, Closing, Inner, Admitted
<1>3. /\ s.pc = pc /\ s.prog = r.prog /\ s.pos = r.pos /\ s.status = r.status
      /\ s.count = r.count /\ s.limit = r.limit /\ s.ran = r.ran /\ s.late = r.late
      /\ s.result = result
  BY <1>1 DEF Local
<1>4. s \in Local
  BY <1>1, <1>2 DEF Local
<1> HIDE DEF s
<1>5. InPlace(s)
  BY <1>3 DEF Good, InPlace
<1>6. Counted(s, x)
  BY <1>2, <1>3 DEF Good, Counted
<1>7. s.limit => s.pc \in Closing \union {"done"} /\ s.status = LimitHit
  <2>1. r.pc \in Inner => r.limit = FALSE
    BY InnerFacts DEF HasPipeline
  <2>2. r.limit => r.status = LimitHit
    BY DEF Good, Truthful
  <2> QED BY <1>1, <1>3, <2>1, <2>2 DEF Local, Closing, Inner, Admitted
<1>8. s.pc = "done" /\ s.result \notin {TimedOut, LimitHit} /\ s.prog # <<>> =>
        Sound(s.prog, s.ran, s.status, Len(s.prog)) /\ s.result = s.status
  BY <1>3 DEF Good, Truthful, Closing, Inner, Admitted
<1>9. Truthful(s, x)
  BY <1>2, <1>3, <1>7, <1>8 DEF Truthful
<1>10. Good(s, x)
  BY <1>4, <1>5, <1>6, <1>9 DEF Good
<1> QED BY <1>10 DEF s

\* The shell refuses the current pipeline: a limit, or the deadline.
LEMMA RefuseStep ==
  ASSUME NEW r, NEW x \in BOOLEAN, Good(r, x), r.pc \in Inner,
         NEW status \in {TimedOut, LimitHit}, status = TimedOut => x
  PROVE  Good(After([r EXCEPT !.status = status, !.limit = status = LimitHit]), x)
<1> DEFINE limit == status = LimitHit
           s == [r EXCEPT !.status = status, !.limit = limit]
<1>0. HasPipeline(r, x)
  BY InnerFacts
<1>1. /\ r \in Local /\ r.prog \in Programs /\ r.prog # <<>> /\ r.pos \in 1..Len(r.prog)
      /\ r.count <= MaxCommands /\ r.late <= 1 /\ (r.late = 1 => x)
  BY <1>0 DEF HasPipeline
<1>2. /\ s.prog = r.prog /\ s.pos = r.pos /\ s.status = status /\ s.count = r.count
      /\ s.limit = limit /\ s.late = r.late
  BY <1>1 DEF Local
<1>3. status \in Codes /\ limit \in BOOLEAN
  BY ShellCodes
<1>4. s \in Local
  <2> HIDE DEF limit
  <2> QED BY <1>1, <1>3 DEF Local
<1>5. x \/ s.limit
  BY <1>2
<1> HIDE DEF s
<1>6. Good(After(s), x)
  BY <1>1, <1>2, <1>4, <1>5, AfterStep
<1> QED BY <1>6 DEF s

\* The current pipeline is skipped.
LEMMA SkipStep ==
  ASSUME NEW r, NEW x \in BOOLEAN, Good(r, x), r.pc \in Inner,
         ~x => ~Selected(r.prog, r.ran, r.pos)
  PROVE  Good(After(r), x)
<1>0. HasPipeline(r, x)
  BY InnerFacts
<1>1. /\ r \in Local /\ r.prog \in Programs /\ r.prog # <<>> /\ r.pos \in 1..Len(r.prog)
      /\ r.count <= MaxCommands /\ r.late <= 1 /\ (r.late = 1 => x) /\ r.limit = FALSE
      /\ r.ran \in Seq(Entry) /\ r.status \in Codes
  BY <1>0 DEF HasPipeline
<1>2. ~x => Sound(r.prog, r.ran, r.status, r.pos - 1)
  BY DEF Good, Truthful
<1>3. ~x => Sound(r.prog, r.ran, r.status, r.pos)
  BY <1>1, <1>2, SoundSkip
<1> QED BY <1>1, <1>3, AfterStep

\* The current pipeline has run.
LEMMA RunStep ==
  ASSUME NEW r, NEW x \in BOOLEAN, Good(r, x), r.pc = "running",
         NEW status \in Codes, NEW by \in Execs \union {Nobody}
  PROVE  Good(After([r EXCEPT !.status = status, !.by = by,
                              !.ran = Append(@, [pos |-> r.pos, status |-> status])]), x)
<1> DEFINE new == Append(r.ran, [pos |-> r.pos, status |-> status])
           s == [r EXCEPT !.status = status, !.by = by, !.ran = new]
<1>1. r.pc \in Inner /\ r.pc # "item"
  BY DEF Inner
<1>0. HasPipeline(r, x)
  BY <1>1, InnerFacts
<1>2. /\ r \in Local /\ r.prog \in Programs /\ r.prog # <<>> /\ r.pos \in 1..Len(r.prog)
      /\ r.count <= MaxCommands /\ r.late <= 1 /\ (r.late = 1 => x) /\ r.limit = FALSE
      /\ r.ran \in Seq(Entry) /\ r.status \in Codes /\ r.pos \in Nat
  BY <1>0 DEF HasPipeline
<1>3. ~x => Sound(r.prog, r.ran, r.status, r.pos - 1) /\ Selected(r.prog, r.ran, r.pos)
  BY <1>1 DEF Good, Truthful
<1>4. new = Append(r.ran, [pos |-> r.pos, status |-> status])
  OBVIOUS
<1>5. new \in Histories
  BY <1>2 DEF Entry, Histories
<1> HIDE DEF new
<1>9. ~x => Sound(r.prog, new, status, r.pos)
  <2>1. ASSUME NEW prog \in Programs, NEW ran \in Seq(Entry), NEW was \in Codes,
               NEW n \in 1..Len(prog), Sound(prog, ran, was, n - 1), Selected(prog, ran, n),
               new = Append(ran, [pos |-> n, status |-> status])
        PROVE  Sound(prog, new, status, n)
    BY <2>1, SoundRun
  <2> DEFINE n == r.pos
  <2>2. r.prog \in Programs /\ r.ran \in Seq(Entry) /\ r.status \in Codes /\ n \in 1..Len(r.prog)
    BY <1>2
  <2> HIDE DEF n
  <2>3. ~x => Sound(r.prog, new, status, n)
    BY <1>3, <1>4, <2>1, <2>2 DEF n
  <2> QED BY <2>3 DEF n
<1>6. /\ s.prog = r.prog /\ s.pos = r.pos /\ s.status = status /\ s.count = r.count
      /\ s.limit = r.limit /\ s.late = r.late /\ s.ran = new
  BY <1>2 DEF Local
<1>7. s \in Local
  <2>1. r \in Local
    BY <1>2
  <2> QED BY <1>5, <2>1, ZenonT(30) DEF Local
<1> HIDE DEF s
<1>8. Good(After(s), x)
  BY <1>2, <1>6, <1>7, <1>9, AfterStep
<1> QED BY <1>8 DEF s, new

\* The current pipeline is counted and starts.
LEMMA BeginStep ==
  ASSUME NEW r, NEW x \in BOOLEAN, Good(r, x), r.pc = "begin"
  PROVE  Good([r EXCEPT !.pc = "running", !.count = @ + r.prog[r.pos].size,
                        !.late = IF x THEN @ + 1 ELSE @], x)
<1> DEFINE count == r.count + r.prog[r.pos].size
           late == IF x THEN r.late + 1 ELSE r.late
           s == [r EXCEPT !.pc = "running", !.count = count, !.late = late]
<1>1. r.pc \in Inner /\ r.pc \in Admitted
  BY DEF Inner, Admitted
<1>0. HasPipeline(r, x)
  BY <1>1, InnerFacts
<1>2. /\ r \in Local /\ r.prog # <<>> /\ r.limit = FALSE /\ r.count \in Nat
      /\ r.prog[r.pos].size \in Nat /\ r.late \in Nat
  BY <1>0 DEF HasPipeline
<1>3. count \in Nat /\ count <= MaxCommands /\ r.late = 0
  BY <1>1, <1>2 DEF Good, Counted
<1>4. late \in Nat /\ late <= 1 /\ (late = 1 => x)
  BY <1>3
<1>5. "running" \notin Admitted \union Closing /\ "running" \in Inner
  BY DEF Admitted, Closing, Inner
<1> HIDE DEF count, late
<1>6. /\ s.pc = "running" /\ s.prog = r.prog /\ s.pos = r.pos /\ s.status = r.status
      /\ s.count = count /\ s.limit = r.limit /\ s.ran = r.ran /\ s.late = late
  BY <1>2 DEF Local
<1>7. s \in Local
  <2>1. "running" \in PCs
    BY DEF PCs
  <2>2. r \in Local /\ count \in Nat /\ late \in Nat
    BY <1>2, <1>3, <1>4
  <2> QED BY <2>1, <2>2 DEF Local
<1> HIDE DEF s
<1>8. InPlace(s)
  BY <1>6 DEF Good, InPlace
<1>9. Counted(s, x)
  BY <1>2, <1>3, <1>4, <1>5, <1>6 DEF Counted
<1>10. Truthful(s, x)
  BY <1>1, <1>2, <1>5, <1>6 DEF Good, Truthful
<1>11. Good(s, x)
  BY <1>7, <1>8, <1>9, <1>10 DEF Good
<1> QED BY <1>11 DEF s, count, late

-----------------------------------------------------------------------------
(***************************************************************************)
(* The invariant.                                                          *)
(***************************************************************************)
\* Before a program has run anything.
LEMMA StartStep ==
  ASSUME NEW p \in Programs \union {<<>>}, NEW x \in BOOLEAN, NEW status \in Codes,
         NEW by \in Execs \union {Nobody}, NEW pc \in {"idle", "item", "check", "decide"},
         pc = "item" <=> p # <<>>
  PROVE  Good(Fresh(pc, p, status, by), x)
<1> DEFINE s == Fresh(pc, p, status, by)
<1>2. pc \in PCs /\ <<>> \in Histories
  BY DEF PCs, Histories
<1>3. s \in Local
  BY <1>2 DEF Local, Fresh
<1>4. /\ s.pc = pc /\ s.prog = p /\ s.pos = 1 /\ s.status = status /\ s.count = 0
      /\ s.limit = FALSE /\ s.ran = <<>> /\ s.late = 0
  BY DEF Fresh
<1> HIDE DEF s
<1>5. p # <<>> => p \in Programs /\ Len(p) \in Nat /\ Len(p) >= 1
  <2> SUFFICES ASSUME p # <<>>, p \in Programs PROVE Len(p) \in Nat /\ Len(p) >= 1
    OBVIOUS
  <2>1. p \in Seq(Stages)
    BY ProgramShape
  <2> QED BY <2>1
<1>6. InPlace(s)
  BY <1>4, <1>5 DEF InPlace
<1>7. Counted(s, x)
  BY <1>4, ProgramAssumption DEF Counted, Admitted, Inner
<1>8. Sound(p, <<>>, status, 0)
  BY DEF Sound
<1>9. s.pos - 1 = 0 /\ s.pc # "done" /\ (s.pc \in Inner => s.pc = "item")
  BY <1>4 DEF Inner, Admitted
<1>10. s.pc \in Closing => s.prog = <<>>
  BY <1>4 DEF Closing
<1>11. Truthful(s, x)
  BY <1>4, <1>8, <1>9, <1>10 DEF Truthful
<1>12. Good(s, x)
  BY <1>3, <1>6, <1>7, <1>11 DEF Good
<1> QED BY <1>12 DEF s

LEMMA Initially == Init => IInv
<1> SUFFICES ASSUME Init PROVE IInv
  OBVIOUS
<1> DEFINE idle == Fresh("idle", <<>>, 0, Nobody)
<1>1. Good(idle, FALSE)
  <2>1. /\ <<>> \in Programs \union {<<>>} /\ 0 \in Codes /\ Nobody \in Execs \union {Nobody}
        /\ "idle" \in {"idle", "item", "check", "decide"} /\ "idle" # "item"
    BY ShellCodes
  <2> QED BY <2>1, StartStep
<1>2. idle \in Local /\ InPlace(idle)
  BY <1>1 DEF Good
<1>3. run = [e \in Execs |-> idle] /\ expired = [e \in Execs |-> FALSE]
  BY DEF Init
<1> HIDE DEF idle
<1>4. TypeOK
  <2>1. run \in [Execs -> Local] /\ \A e \in Execs : InPlace(run[e])
    BY <1>2, <1>3
  <2> QED BY <2>1, ShellCodes DEF TypeOK, Init, InPlace
<1> QED BY <1>1, <1>3, <1>4 DEF IInv

\* Every step keeps the invariant.
LEMMA NextStep == IInv /\ [Next]_vars => IInv'
<1> SUFFICES ASSUME IInv, [Next]_vars PROVE IInv'
  OBVIOUS
<1>1. /\ run \in [Execs -> Local] /\ expired \in [Execs -> BOOLEAN]
      /\ stored.by \in Execs \union {Nobody} /\ stored.status \in Codes /\ commandsRun \in Nat
      /\ \A e \in Execs : Good(run[e], expired[e]) /\ expired[e] \in BOOLEAN /\ run[e] \in Local
  BY DEF IInv, TypeOK
<1>2. ASSUME NEW e \in Execs, NEW p \in Programs, Start(e, p) PROVE IInv'
  <2> DEFINE pc == IF p = <<>> THEN "check" ELSE "item"
  <2>1. pc \in {"idle", "item", "check", "decide"} /\ (pc = "item" <=> p # <<>>)
    OBVIOUS
  <2>2. Put(e, Fresh(pc, p, stored.status, stored.by))
    BY <1>2 DEF Start
  <2> HIDE DEF pc
  <2>3. Good(Fresh(pc, p, stored.status, stored.by), expired[e])
    <3>1. /\ p \in Programs \union {<<>>} /\ expired[e] \in BOOLEAN
          /\ stored.status \in Codes /\ stored.by \in Execs \union {Nobody}
      BY <1>1
    <3> QED BY <2>1, <3>1, StartStep, ZenonT(30)
  <2> QED BY <2>2, <2>3, PutStep
<1>3. ASSUME NEW e \in Execs, Reject(e) PROVE IInv'
  <2>1. PICK status \in {LimitHit, SyntaxError} : Put(e, Fresh("decide", <<>>, status, Nobody))
    BY <1>3 DEF Reject
  <2>2. /\ status \in Codes /\ <<>> \in Programs \union {<<>>} /\ Nobody \in Execs \union {Nobody}
        /\ "decide" \in {"idle", "item", "check", "decide"} /\ "decide" # "item"
    BY ShellCodes
  <2>3. Good(Fresh("decide", <<>>, status, Nobody), expired[e])
    BY <1>1, <2>2, StartStep
  <2> QED BY <2>1, <2>3, PutStep
<1>4. ASSUME NEW e \in Execs, NEW status \in {TimedOut, LimitHit}, Refuse(e, status),
             run[e].pc \in Inner, status = TimedOut => expired[e]
      PROVE  IInv'
  <2> DEFINE r == After([run[e] EXCEPT !.status = status, !.limit = status = LimitHit])
  <2>1. Put(e, r)
    BY <1>4 DEF Refuse
  <2>2. Good(r, expired[e])
    BY <1>1, <1>4, RefuseStep
  <2> HIDE DEF r
  <2> QED BY <2>1, <2>2, PutStep
<1>5. ASSUME NEW e \in Execs, run[e].pc \in Inner, NEW pc \in Inner \ {"item"},
             Put(e, [run[e] EXCEPT !.pc = pc]),
             pc \in Admitted =>
               run[e].count + run[e].prog[run[e].pos].size <= MaxCommands /\ run[e].late # 1,
             ~expired[e] => Selected(run[e].prog, run[e].ran, run[e].pos)
      PROVE  IInv'
  <2>1. Good([run[e] EXCEPT !.pc = pc], expired[e])
    BY <1>1, <1>5, MoveStep
  <2> QED BY <1>5, <2>1, PutStep
<1>6. ASSUME NEW e \in Execs, NEW pc \in Closing, Put(e, [run[e] EXCEPT !.pc = pc]),
             run[e].pc \in Closing \/ (expired[e] /\ run[e].pc \in Inner)
      PROVE  IInv'
  <2>1. Good([run[e] EXCEPT !.pc = pc], expired[e])
    BY <1>1, <1>6, CloseStep
  <2> QED BY <1>6, <2>1, PutStep
<1>7. ASSUME NEW e \in Execs, Item(e) PROVE IInv'
  <2> DEFINE r == run[e]
             op == r.prog[r.pos].op
             runs == op = "list" \/ (op = "and" <=> r.status = 0)
  <2>1. r.pc = "item" /\ r.pc \in Inner /\ Good(r, expired[e]) /\ expired[e] \in BOOLEAN
    BY <1>1, <1>7 DEF Item, At, Inner
  <2>2. HasPipeline(r, expired[e])
    BY <2>1, InnerFacts
  <2>3. ~expired[e] => (Selected(r.prog, r.ran, r.pos) <=> runs)
    <3>1. ~expired[e] => Sound(r.prog, r.ran, r.status, r.pos - 1)
      BY <2>1 DEF Good, Truthful
    <3>2. r.prog \in Programs /\ r.ran \in Seq(Entry) /\ r.status \in Codes /\ r.pos \in 1..Len(r.prog)
      BY <2>2 DEF HasPipeline
    <3> DEFINE Runs(prog, status, n) == prog[n].op = "list" \/ (prog[n].op = "and" <=> status = 0)
    <3>3. ASSUME NEW prog \in Programs, NEW ran \in Seq(Entry), NEW status \in Codes,
                 NEW n \in 1..Len(prog), Sound(prog, ran, status, n - 1)
          PROVE  Selected(prog, ran, n) <=> Runs(prog, status, n)
      BY <3>3, SoundItem
    <3>4. runs <=> Runs(r.prog, r.status, r.pos)
      OBVIOUS
    <3> HIDE DEF Runs, runs
    <3>5. ~expired[e] => (Selected(r.prog, r.ran, r.pos) <=> Runs(r.prog, r.status, r.pos))
      BY <3>1, <3>2, <3>3
    <3> QED BY <3>4, <3>5
  <2>4. Put(e, IF op = "list" /\ IsCancelled(e) THEN [r EXCEPT !.pc = "check"]
               ELSE IF runs THEN [r EXCEPT !.pc = "pipeline"] ELSE After(r))
    BY <1>7 DEF Item, Current
  <2> HIDE DEF runs, op
  <2>5. CASE op = "list" /\ IsCancelled(e)
    <3>1. Put(e, [r EXCEPT !.pc = "check"]) /\ "check" \in Closing /\ expired[e]
      BY <2>4, <2>5 DEF Closing, IsCancelled
    <3> QED BY <1>6, <2>1, <3>1
  <2>6. CASE ~(op = "list" /\ IsCancelled(e)) /\ runs
    <3>1. /\ Put(e, [r EXCEPT !.pc = "pipeline"])
          /\ "pipeline" \in Inner \ {"item"} /\ "pipeline" \notin Admitted
      BY <2>4, <2>6 DEF Inner, Admitted
    <3> QED BY <1>5, <2>1, <2>3, <2>6, <3>1
  <2>7. CASE ~(op = "list" /\ IsCancelled(e)) /\ ~runs
    <3>1. Put(e, After(r))
      BY <2>4, <2>7
    <3>2. Good(After(r), expired[e])
      BY <2>1, <2>3, <2>7, SkipStep
    <3> QED BY <3>1, <3>2, PutStep
  <2> QED BY <2>5, <2>6, <2>7
<1>8. ASSUME NEW e \in Execs, run[e].pc \in Inner \ {"item"}
      PROVE  /\ ~expired[e] => Selected(run[e].prog, run[e].ran, run[e].pos)
             /\ run[e].pc \in Admitted =>
                  run[e].count + run[e].prog[run[e].pos].size <= MaxCommands /\ run[e].late # 1
             /\ HasPipeline(run[e], expired[e])
  <2>1. Good(run[e], expired[e]) /\ expired[e] \in BOOLEAN /\ run[e].pc \in Inner
    BY <1>1, <1>8
  <2>2. HasPipeline(run[e], expired[e])
    BY <2>1, InnerFacts
  <2> QED BY <1>8, <2>1, <2>2 DEF Good, Counted, Truthful
<1>9. ASSUME NEW e \in Execs, Pipeline(e) PROVE IInv'
  <2> DEFINE r == run[e]
  <2>1. r.pc \in Inner \ {"item"} /\ LimitHit # TimedOut
    BY <1>9 DEF Pipeline, At, Inner, LimitHit, TimedOut
  <2>2. CASE IsCancelled(e) /\ Refuse(e, TimedOut)
    BY <1>4, <2>1, <2>2 DEF IsCancelled
  <2>3. CASE Refuse(e, LimitHit)
    BY <1>4, <2>1, <2>3
  <2>4. CASE /\ ~IsCancelled(e) /\ Current(e).size <= BudgetLeft(e)
             /\ Put(e, [r EXCEPT !.pc = "expand"])
    <3>1. /\ r.count \in Nat /\ r.prog[r.pos].size \in Nat /\ MaxCommands \in Nat
          /\ r.late = 1 => expired[e]
      BY <1>8, <2>1, ProgramAssumption DEF HasPipeline
    <3>2. r.count + r.prog[r.pos].size <= MaxCommands /\ r.late # 1
      BY <2>4, <3>1 DEF IsCancelled, Current, BudgetLeft
    <3>3. "expand" \in Inner \ {"item"}
      BY DEF Inner, Admitted
    <3> QED BY <1>5, <1>8, <2>1, <2>4, <3>2, <3>3
  <2> QED BY <1>9, <2>2, <2>3, <2>4 DEF Pipeline
<1>10. ASSUME NEW e \in Execs, run[e].pc \in Admitted, NEW pc \in Admitted,
              Put(e, [run[e] EXCEPT !.pc = pc])
       PROVE  IInv'
  <2>1. run[e].pc \in Inner \ {"item"} /\ pc \in Inner \ {"item"}
    BY <1>10 DEF Inner, Admitted
  <2> QED BY <1>5, <1>8, <1>10, <2>1
<1>11. ASSUME NEW e \in Execs, Expand(e) \/ Prepare(e) \/ OpenRedirects(e) PROVE IInv'
  <2>1. run[e].pc \in Inner /\ run[e].pc \in Admitted /\ LimitHit # TimedOut
    BY <1>11 DEF Expand, Prepare, OpenRedirects, At, Inner, Admitted, LimitHit, TimedOut
  <2>2. \/ IsCancelled(e) /\ Refuse(e, TimedOut)
        \/ Refuse(e, LimitHit)
        \/ \E pc \in Admitted : Put(e, [run[e] EXCEPT !.pc = pc])
    <3>1. {"begin", "prepare", "redirect"} \subseteq Admitted
      BY DEF Admitted
    <3> QED BY <1>11, <3>1 DEF Expand, Prepare, OpenRedirects
  <2>3. CASE IsCancelled(e) /\ Refuse(e, TimedOut)
    BY <1>4, <2>1, <2>3 DEF IsCancelled
  <2>4. CASE Refuse(e, LimitHit)
    BY <1>4, <2>1, <2>4
  <2> QED BY <1>10, <2>1, <2>2, <2>3, <2>4
<1>12. ASSUME NEW e \in Execs, Begin(e) PROVE IInv'
  <2> DEFINE r == [run[e] EXCEPT !.pc = "running", !.count = @ + run[e].prog[run[e].pos].size,
                                 !.late = IF expired[e] THEN @ + 1 ELSE @]
  <2>1. run[e].pc = "begin" /\ Put(e, r)
    BY <1>12 DEF Begin, At, Current
  <2>2. Good(r, expired[e])
    BY <1>1, <2>1, BeginStep
  <2> HIDE DEF r
  <2> QED BY <2>1, <2>2, PutStep
<1>13. ASSUME NEW e \in Execs, Complete(e) PROVE IInv'
  <2> DEFINE After2(status, by) ==
        After([run[e] EXCEPT !.status = status, !.by = by,
                             !.ran = Append(@, [pos |-> run[e].pos, status |-> status])])
  <2>1. run[e].pc = "running" /\ run[e].by \in Execs \union {Nobody} /\ expired[e] \in BOOLEAN
    BY <1>1, <1>13 DEF Complete, At, Local
  <2>2. PICK status \in Statuses, by \in Execs \union {Nobody} : Put(e, After2(status, by))
    BY <1>13, <2>1 DEF Complete
  <2>3. status \in Codes
    BY ProgramAssumption
  <2>4. Good(After2(status, by), expired[e])
    <3>1. Good(run[e], expired[e])
      BY <1>1
    <3> QED BY <2>1, <2>3, <3>1, RunStep, ZenonT(30)
  <2> HIDE DEF After2
  <2> QED BY <2>2, <2>4, PutStep
<1>14. ASSUME NEW e \in Execs, NEW pc \in {"done", "dropped"}, NEW result \in Codes \union {Pending},
              run[e].pc \in Closing \union Inner,
              Put(e, [run[e] EXCEPT !.pc = pc, !.result = result]),
              \/ pc = "done" /\ result = TimedOut
              \/ pc = "dropped" /\ run[e].pc \in Inner
              \/ pc = "done" /\ run[e].pc \in Closing /\ ~expired[e] /\ result = run[e].status
       PROVE  IInv'
  <2>1. Good([run[e] EXCEPT !.pc = pc, !.result = result], expired[e])
    <3>1. Good(run[e], expired[e]) /\ expired[e] \in BOOLEAN
      BY <1>1
    <3> QED BY <1>14, <3>1, EndStep, ZenonT(30)
  <2> QED BY <1>14, <2>1, PutStep
<1>15. ASSUME NEW e \in Execs, Check(e) PROVE IInv'
  <2>1. run[e].pc \in Closing /\ {"store", "count"} \subseteq Closing
    BY <1>15 DEF Check, At, Closing
  <2>2. \E pc \in Closing : Put(e, [run[e] EXCEPT !.pc = pc])
    BY <1>15, <2>1 DEF Check
  <2> QED BY <1>6, <2>1, <2>2
<1>16. ASSUME NEW e \in Execs, Decide(e) PROVE IInv'
  <2>1. run[e].pc \in Closing /\ run[e].status \in Codes \union {Pending} /\ TimedOut \in Codes \union {Pending}
    <3>1. run[e] \in Local /\ run[e].pc = "decide"
      BY <1>1, <1>16 DEF Decide, At
    <3> QED BY <3>1, ShellCodes DEF Closing, Local
  <2>2. CASE IsCancelled(e)
    <3>1. Put(e, [run[e] EXCEPT !.pc = "done", !.result = TimedOut])
      BY <1>16, <2>2 DEF Decide
    <3> QED BY <1>14, <2>1, <3>1
  <2>3. CASE ~IsCancelled(e)
    <3>1. Put(e, [run[e] EXCEPT !.pc = "done", !.result = run[e].status])
      BY <1>16, <2>3 DEF Decide
    <3> QED BY <1>14, <2>1, <2>3, <3>1 DEF IsCancelled
  <2> QED BY <2>2, <2>3
<1>17. ASSUME NEW e \in Execs, Timeout(e) \/ DropExec(e) PROVE IInv'
  <2>1. run[e].pc \in Inner /\ TimedOut \in Codes \union {Pending} /\ run[e].result \in Codes \union {Pending}
    <3>1. run[e] \in Local
      BY <1>1
    <3>2. run[e].result \in Codes \union {Pending} /\ TimedOut \in Codes \union {Pending}
      BY <3>1, ShellCodes DEF Local
    <3>3. run[e].pc \in Inner
      BY <1>17 DEF Timeout, DropExec, Awaits, At, Inner, Admitted
    <3> QED BY <3>2, <3>3
  <2>2. CASE Timeout(e)
    <3>1. Put(e, [run[e] EXCEPT !.pc = "done", !.result = TimedOut])
      BY <2>2 DEF Timeout
    <3> QED BY <1>14, <2>1, <3>1
  <2>3. CASE DropExec(e)
    <3>1. [run[e] EXCEPT !.pc = "dropped"] = [run[e] EXCEPT !.pc = "dropped", !.result = run[e].result]
      BY <1>1 DEF Local
    <3>2. Put(e, [run[e] EXCEPT !.pc = "dropped", !.result = run[e].result])
      BY <2>3, <3>1 DEF DropExec
    <3> QED BY <1>14, <2>1, <3>2
  <2> QED BY <1>17, <2>2, <2>3
<1>18. ASSUME NEW e \in Execs, StoreSession(e) \/ Count(e) PROVE IInv'
  <2>1. \E pc \in Closing : run' = [run EXCEPT ![e] = [run[e] EXCEPT !.pc = pc]]
    <3>1. {"count", "decide"} \subseteq Closing
      BY DEF Closing
    <3>2. \/ run' = [run EXCEPT ![e].pc = "count"]
          \/ run' = [run EXCEPT ![e].pc = "decide"]
      BY <1>18 DEF StoreSession, Count
    <3> QED BY <3>1, <3>2
  <2>2. run[e].pc \in Closing /\ UNCHANGED expired
    BY <1>18 DEF StoreSession, Count, At, Closing
  <2>3. stored' \in [by : Execs \union {Nobody}, status : Codes] /\ commandsRun' \in Nat
    <3>1. /\ run[e].by \in Execs \union {Nobody} /\ run[e].status \in Codes /\ run[e].count \in Nat
          /\ stored \in [by : Execs \union {Nobody}, status : Codes]
      <4>1. run[e] \in Local /\ stored \in [by : Execs \union {Nobody}, status : Codes]
        BY <1>1 DEF IInv, TypeOK
      <4> QED BY <4>1 DEF Local
    <3> QED BY <1>1, <1>18, <3>1 DEF StoreSession, Count
  <2>4. PICK pc \in Closing : run' = [run EXCEPT ![e] = [run[e] EXCEPT !.pc = pc]]
    BY <2>1
  <2>5. Good([run[e] EXCEPT !.pc = pc], expired[e])
    BY <1>1, <2>2, CloseStep
  <2> QED BY <2>2, <2>3, <2>4, <2>5, LocalStep
<1>19. ASSUME NEW e \in Execs, Expire(e) PROVE IInv'
  <2>1. UNCHANGED <<run, stored, commandsRun>> /\ expired' = [expired EXCEPT ![e] = TRUE]
    BY <1>19 DEF Expire
  <2>2. expired' \in [Execs -> BOOLEAN] /\ \A f \in Execs : expired'[f] = IF f = e THEN TRUE ELSE expired[f]
    BY <1>1, <2>1
  <2>3. TypeOK'
    BY <2>1, <2>2 DEF IInv, TypeOK
  <2>4. run[e].pc # "done"
    BY <1>19 DEF Expire
  <2>5. Good(run[e], TRUE)
    <3>1. Good(run[e], expired[e])
      BY <1>1
    <3>2. Counted(run[e], TRUE)
      BY <3>1 DEF Good, Counted
    <3>3. Truthful(run[e], TRUE)
      BY <3>1 DEF Good, Truthful
    <3> QED BY <3>1, <3>2, <3>3 DEF Good
  <2>6. ASSUME NEW f \in Execs PROVE Good(run'[f], expired'[f])
    BY <1>1, <2>1, <2>2, <2>5
  <2> QED BY <2>3, <2>6 DEF IInv
<1>20. CASE UNCHANGED vars
  BY <1>20 DEF vars, IInv, TypeOK
<1> QED
  BY <1>2, <1>3, <1>7, <1>9, <1>11, <1>12, <1>13, <1>15, <1>16, <1>17, <1>18, <1>19, <1>20
  DEF Next, Advance, Finished

LEMMA Invariant == Spec => []IInv
<1> QED BY Initially, NextStep, PTL DEF Spec

-----------------------------------------------------------------------------
(***************************************************************************)
(* The theorems.                                                           *)
(***************************************************************************)
\* Every variable of exec keeps its type, and no execution runs off its
\* program.
THEOREM TypeCorrect == Spec => []TypeOK
<1>1. IInv => TypeOK
  BY DEF IInv
<1> QED BY <1>1, Invariant, PTL

\* exec_pipeline keeps every execution within max_commands, whatever the
\* program and the limit.
THEOREM WithinBudget == Spec => []CommandBudget
<1>1. IInv => CommandBudget
  BY DEF IInv, Good, Counted, CommandBudget
<1> QED BY <1>1, Invariant, PTL

\* Past the deadline an execution starts at most one more pipeline, whatever
\* the number of lists and pipelines that are left.
THEOREM DeadlineStops == Spec => []OneLateStart
<1>1. IInv => OneLateStart
  BY DEF IInv, Good, Counted, OneLateStart
<1> QED BY <1>1, Invariant, PTL

\* Both limits of an execution hold at every moment, for every program.
THEOREM LimitsEnforced == Spec => []LimitsHold
<1>1. CommandBudget /\ OneLateStart => LimitsHold
  BY DEF LimitsHold
<1> QED BY <1>1, WithinBudget, DeadlineStops, PTL

\* For every program, an exit code of exec that is neither a timeout nor a
\* limit is that of the whole program.
THEOREM NoPartialResult == Spec => []ResultIsComplete
<1>1. IInv => ResultIsComplete
  <2> SUFFICES ASSUME IInv, NEW e \in Execs, run[e].pc = "done",
                      run[e].result \notin {TimedOut, LimitHit}, run[e].prog # <<>>
               PROVE  /\ \A n \in DOMAIN run[e].prog :
                           Ran(run[e].ran, n) <=> Selected(run[e].prog, run[e].ran, n)
                      /\ run[e].result = run[e].ran[Len(run[e].ran)].status
    BY DEF ResultIsComplete
  <2> DEFINE r == run[e]
  <2>1. Good(r, expired[e]) /\ r.prog \in Programs
    <3>1. Good(r, expired[e])
      BY DEF IInv
    <3>2. r \in Local
      BY <3>1 DEF Good
    <3> QED BY <3>1, <3>2 DEF Local
  <2>2. Sound(r.prog, r.ran, r.status, Len(r.prog)) /\ r.result = r.status
    BY <2>1 DEF Good, Truthful
  <2>3. r.prog \in Seq(Stages)
    BY <2>1, ProgramShape
  <2>4. DOMAIN r.prog = 1..Len(r.prog) /\ Len(r.prog) > 0
    BY <2>3
  <2> QED BY <2>2, <2>4 DEF Sound
<1> QED BY <1>1, Invariant, PTL
=============================================================================
