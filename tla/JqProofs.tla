------------------------------ MODULE JqProofs ------------------------------
(***************************************************************************)
(* What jq reports is what its guest did (JqWorker), for any number of     *)
(* commands, whatever their arguments and inputs are, and any size of the  *)
(* pool and of the channel; and the permits of the pool are accounted for. *)
(***************************************************************************)
EXTENDS JqWorker, SequenceTheorems, FiniteSetTheorems, WellFoundedInduction,
        NaturalsInduction, TLAPS

-----------------------------------------------------------------------------
(***************************************************************************)
(* Recursion over the elements of a sequence.                              *)
(***************************************************************************)
\* A set of naturals has a least element.
LEMMA LeastElement ==
  ASSUME NEW T, T \subseteq Nat, T # {}
  PROVE  \E n \in T : \A m \in T : n <= m
<1>1. PICK n \in T : \A y \in T : ~(<<y, n>> \in OpToRel(<, Nat))
  BY WFMin, NatLessThanWellFounded, Zenon
<1>2. \A y \in T : ~(y < n)
  BY <1>1, Zenon DEF OpToRel
<1> QED
  BY <1>2

\* What holds at first and is passed on holds to the end.
LEMMA PassedOn ==
  ASSUME NEW Acc, NEW m \in Nat, NEW p, p[0] \in Acc,
         \A n \in 1..m : p[n - 1] \in Acc => p[n] \in Acc
  PROVE  \A n \in 0..m : p[n] \in Acc
<1> DEFINE Bad == {n \in 0..m : p[n] \notin Acc}
<1>1. SUFFICES ASSUME Bad # {}
               PROVE  FALSE
  OBVIOUS
<1>2. PICK n \in Bad : \A k \in Bad : n <= k
  <2>1. Bad \subseteq Nat
    OBVIOUS
  <2> HIDE DEF Bad
  <2> QED
    BY <1>1, <2>1, LeastElement, Zenon
<1>3. n \in 1..m /\ p[n] \notin Acc /\ n - 1 \in 0..m /\ ~(n <= n - 1)
  OBVIOUS
<1>4. p[n - 1] \in Acc
  BY <1>2, <1>3
<1> QED
  BY <1>3, <1>4

\* The results of a step that stays within a set, applied again and again.
Follows(f, base, G, k) == f[0] = base /\ \A n \in 1..k : f[n] = G[n][f[n - 1]]

\* There is such a sequence of results for any number of steps.
LEMMA Repeated ==
  ASSUME NEW Acc, NEW base \in Acc, NEW m \in Nat, NEW G \in [1..m -> [Acc -> Acc]]
  PROVE  \E f \in [0..m -> Acc] : Follows(f, base, G, m)
<1> DEFINE Bad == {k \in 0..m : ~\E f \in [0..k -> Acc] : Follows(f, base, G, k)}
<1>1. SUFFICES ASSUME Bad # {}
               PROVE  FALSE
  OBVIOUS
<1>2. PICK k \in Bad : \A l \in Bad : k <= l
  <2>1. Bad \subseteq Nat
    OBVIOUS
  <2> HIDE DEF Bad
  <2> QED
    BY <1>1, <2>1, LeastElement, Zenon
<1>3. k \in 0..m /\ ~\E f \in [0..k -> Acc] : Follows(f, base, G, k)
  OBVIOUS
<1>4. k # 0
  <2>1. SUFFICES ASSUME k = 0
                 PROVE  FALSE
    OBVIOUS
  <2> DEFINE f == [n \in 0..0 |-> base]
  <2>2. f \in [0..0 -> Acc] /\ Follows(f, base, G, 0)
    BY DEF Follows
  <2> QED
    BY <1>3, <2>1, <2>2
<1>5. k \in Nat /\ k - 1 \in 0..m /\ ~(k <= k - 1) /\ k \in 1..m
  BY <1>3, <1>4
<1>6. PICK f \in [0..(k - 1) -> Acc] : Follows(f, base, G, k - 1)
  BY <1>2, <1>5
<1> DEFINE g == [n \in 0..k |-> IF n = k THEN G[k][f[k - 1]] ELSE f[n]]
<1>7. f[k - 1] \in Acc /\ G[k] \in [Acc -> Acc]
  BY <1>5, <1>6
<1>8. g \in [0..k -> Acc]
  <2>1. \A n \in 0..k : n # k => n \in 0..(k - 1)
    BY <1>5
  <2> QED
    BY <1>6, <1>7, <2>1
<1>9. Follows(g, base, G, k)
  <2>1. g[0] = base
    BY <1>5, <1>6 DEF Follows
  <2>2. ASSUME NEW n \in 1..k
        PROVE  g[n] = G[n][g[n - 1]]
    <3>1. n - 1 \in 0..k /\ n - 1 # k /\ n \in 0..k
      BY <1>5
    <3>2. g[n - 1] = f[n - 1]
      BY <3>1
    <3>3. CASE n = k
      BY <3>1, <3>2, <3>3
    <3>4. CASE n # k
      <4>1. n \in 1..(k - 1)
        BY <1>5, <3>4
      <4>2. f[n] = G[n][f[n - 1]]
        BY <1>6, <4>1 DEF Follows
      <4> QED
        BY <3>1, <3>2, <3>4, <4>2
    <3> QED
      BY <3>3, <3>4
  <2> QED
    BY <2>1, <2>2, Zenon DEF Follows
<1> QED
  BY <1>3, <1>8, <1>9

-----------------------------------------------------------------------------
(***************************************************************************)
(* The command line and the inputs.                                        *)
(***************************************************************************)
\* What parse_jq_args has read so far.
Options(args) ==
  [ok : BOOLEAN, filter : {<<>>} \cup {<<arg>> : arg \in Range(args)},
   files : Seq({arg.k : arg \in Range(args)}), flags : SUBSET {"r", "j", "c", "e", "n", "s", "S"},
   vars : Seq({arg.good : arg \in Range(args)}), ended : BOOLEAN,
   want : {<<>>, <<"indent">>, <<"name", "value">>, <<"value">>}]

\* One more argument.
LEMMA ParsesOne ==
  ASSUME NEW args, NEW acc \in Options(args), NEW arg \in Range(args)
  PROVE  ParseArg(acc, arg) \in Options(args)
<1>1. Refused \in Options(args)
  BY DEF Refused, Options
<1>2. Append(acc.vars, arg.good) \in Seq({a.good : a \in Range(args)})
  BY DEF Options
<1>3. Append(acc.files, arg.k) \in Seq({a.k : a \in Range(args)})
  BY DEF Options
<1>4. <<arg>> \in {<<a>> : a \in Range(args)}
  OBVIOUS
<1>5. acc.want # <<>> /\ ~(Head(acc.want) = "value") => Tail(acc.want) \in {<<>>, <<"value">>}
  <2>1. acc.want \in {<<>>, <<"indent">>, <<"name", "value">>, <<"value">>}
    BY DEF Options
  <2>2. CASE acc.want = <<"indent">>
    <3>1. Tail(<<"indent">>) = <<>>
      OBVIOUS
    <3> QED
      BY <2>2, <3>1
  <2>3. CASE acc.want = <<"name", "value">>
    <3>1. Tail(<<"name", "value">>) = <<"value">>
      OBVIOUS
    <3> QED
      BY <2>3, <3>1
  <2>4. CASE acc.want = <<"value">>
    <3>1. Head(<<"value">>) = "value"
      OBVIOUS
    <3> QED
      BY <2>4, <3>1
  <2> QED
    BY <2>1, <2>2, <2>3, <2>4
<1> QED
  BY <1>1, <1>2, <1>3, <1>4, <1>5, ZenonT(30) DEF ParseArg, Options

\* parse_jq_args names files, and no file before the filter.
LEMMA Parsed ==
  ASSUME NEW args, args \in Seq(Range(args))
  PROVE  ParseJqArgs(args) \in Options(args)
<1> DEFINE m == Len(args)
           Acc == Options(args)
<1>1. m \in Nat /\ \A n \in 1..m : args[n] \in Range(args)
  BY LenProperties
<1>2. Parsing \in Acc /\ Refused \in Acc
  <2>1. Refused \in Options(args)
    BY DEF Refused, Options
  <2>2. [Refused EXCEPT !.ok = TRUE] \in Options(args)
    BY <2>1, Zenon DEF Options
  <2> QED
    BY <2>1, <2>2 DEF Parsing
<1> HIDE DEF m, Acc
<1>3. \A acc \in Acc : \A n \in 1..m : ParseArg(acc, args[n]) \in Acc
  BY <1>1, ParsesOne DEF Acc
<1> DEFINE G == [n \in 1..m |-> [acc \in Acc |-> ParseArg(acc, args[n])]]
<1>4. G \in [1..m -> [Acc -> Acc]]
  BY <1>3
<1>5. \A n \in 1..m : \A acc \in Acc : G[n][acc] = ParseArg(acc, args[n])
  OBVIOUS
<1> HIDE DEF G
<1>6. PICK f \in [0..m -> Acc] : Follows(f, Parsing, G, m)
  BY <1>1, <1>2, <1>4, Repeated, Zenon
<1>7. f = [n \in 0..m |-> IF n = 0 THEN Parsing ELSE ParseArg(f[n - 1], args[n])]
  <2>1. \A n \in 0..m : n # 0 => n \in 1..m /\ n - 1 \in 0..m
    BY <1>1
  <2>2. ASSUME NEW n \in 0..m
        PROVE  f[n] = IF n = 0 THEN Parsing ELSE ParseArg(f[n - 1], args[n])
    BY <1>5, <1>6, <2>1 DEF Follows
  <2> QED
    BY <2>2
<1> DEFINE parsed == CHOOSE p : p = [n \in 0..m |-> IF n = 0 THEN Parsing ELSE ParseArg(p[n - 1], args[n])]
<1>8. parsed = [n \in 0..m |-> IF n = 0 THEN Parsing ELSE ParseArg(parsed[n - 1], args[n])]
  BY <1>7, Zenon
<1> HIDE DEF parsed
<1>9. parsed[0] = Parsing /\ \A n \in 1..m : parsed[n] = ParseArg(parsed[n - 1], args[n])
  <2>1. 0 \in 0..m /\ \A n \in 1..m : n \in 0..m /\ n # 0
    BY <1>1
  <2> QED
    BY <1>8, <2>1, Zenon
<1>10. parsed[0] \in Acc /\ \A n \in 1..m : parsed[n - 1] \in Acc => parsed[n] \in Acc
  BY <1>2, <1>3, <1>9
<1>11. \A n \in 0..m : parsed[n] \in Acc
  BY <1>1, <1>10, PassedOn, Zenon
<1>12. parsed[m] \in Acc
  BY <1>1, <1>11
<1>13. ParseJqArgs(args) = IF parsed[m].want # <<>> \/ parsed[m].filter = <<>> THEN Refused ELSE parsed[m]
  BY DEF ParseJqArgs, parsed, m
<1> QED
  BY <1>2, <1>12, <1>13 DEF Acc

\* What read_jq_inputs returns are values.
LEMMA ReadsValues ==
  ASSUME NEW options, NEW K, options.files \in Seq(K), NEW docs,
         \A name \in DOMAIN docs : docs[name] \in Seq(JqValues), NEW limit
  PROVE  ReadJqInputs(options, docs, limit).values \in Seq(GuestValues)
<1> DEFINE names == IF "n" \in options.flags THEN <<>> ELSE Named(options)
           Drained(n) == names[n] = "-" /\ \E l \in 1..(n - 1) : names[l] = "-"
           m == Len(names)
           Acc == Seq(JqValues)
           Doc(n) == IF Drained(n) THEN <<>> ELSE docs[names[n]]
           read == CHOOSE p : p = [n \in 0..m |-> IF n = 0 THEN <<>> ELSE p[n - 1] \o Doc(n)]
<1>1. ReadJqInputs(options, docs, limit) =
        IF Range(names) \subseteq DOMAIN docs /\ Len(read[Len(names)]) <= limit /\ "deep" \notin Range(read[Len(names)])
        THEN [ok |-> TRUE, values |-> read[Len(names)]]
        ELSE [ok |-> FALSE, values |-> <<>>]
  BY DEF ReadJqInputs
<1>2. names \in Seq(K \cup {"-"})
  <2>1. <<>> \in Seq(K \cup {"-"}) /\ <<"-">> \in Seq(K \cup {"-"}) /\ options.files \in Seq(K \cup {"-"})
    OBVIOUS
  <2> QED
    BY <2>1, Zenon DEF Named
<1> HIDE DEF names
<1>3. m \in Nat /\ \A n \in 1..m : names[n] \in Range(names)
  BY <1>2, LenProperties DEF Range
<1>4. CASE Range(names) \subseteq DOMAIN docs
  <2>1. \A n \in 1..m : Doc(n) \in Acc
    BY <1>3, <1>4
  <2> HIDE DEF Doc, m
  <2>2. <<>> \in Acc /\ \A acc \in Acc : \A n \in 1..m : acc \o Doc(n) \in Acc
    BY <2>1, ConcatProperties
  <2> HIDE DEF Acc
  <2> DEFINE G == [n \in 1..m |-> [acc \in Acc |-> acc \o Doc(n)]]
  <2>3. G \in [1..m -> [Acc -> Acc]]
    BY <2>2
  <2>4. \A n \in 1..m : \A acc \in Acc : G[n][acc] = acc \o Doc(n)
    OBVIOUS
  <2> HIDE DEF G
  <2>5. PICK f \in [0..m -> Acc] : Follows(f, <<>>, G, m)
    BY <1>3, <2>2, <2>3, Repeated
  <2>6. f = [n \in 0..m |-> IF n = 0 THEN <<>> ELSE f[n - 1] \o Doc(n)]
    <3>1. \A n \in 0..m : n # 0 => n \in 1..m /\ n - 1 \in 0..m
      BY <1>3
    <3>2. ASSUME NEW n \in 0..m
          PROVE  f[n] = IF n = 0 THEN <<>> ELSE f[n - 1] \o Doc(n)
      BY <2>4, <2>5, <3>1, Zenon DEF Follows
    <3> QED
      BY <3>2
  <2>7. read = [n \in 0..m |-> IF n = 0 THEN <<>> ELSE read[n - 1] \o Doc(n)]
    BY <2>6, Zenon
  <2> HIDE DEF read
  <2>8. read[0] = <<>> /\ \A n \in 1..m : read[n] = read[n - 1] \o Doc(n)
    <3>1. 0 \in 0..m /\ \A n \in 1..m : n \in 0..m /\ n # 0
      BY <1>3
    <3> QED
      BY <2>7, <3>1, Zenon
  <2>9. read[0] \in Acc /\ \A n \in 1..m : read[n - 1] \in Acc => read[n] \in Acc
    BY <2>2, <2>8, Zenon
  <2>10. read[m] \in Acc
    <3>1. \A n \in 0..m : read[n] \in Acc
      BY <1>3, <2>9, PassedOn, Zenon
    <3> QED
      BY <1>3, <3>1
  <2>11. read[m] \in Seq(JqValues)
    BY <2>10 DEF Acc
  <2>12. CASE "deep" \notin Range(read[m])
    <3> HIDE DEF JqValues, GuestValues
    <3>1. ASSUME NEW s \in Seq(JqValues), "deep" \notin Range(s)
          PROVE  s \in Seq(GuestValues)
      <4>1. \A i \in 1..Len(s) : s[i] \in JqValues /\ s[i] \in Range(s)
        BY <3>1, LenProperties DEF Range
      <4>2. \A i \in 1..Len(s) : s[i] \in GuestValues
        BY <3>1, <4>1, Zenon DEF JqValues
      <4> QED
        BY <4>2
    <3>2. read[m] \in Seq(GuestValues)
      BY <2>11, <2>12, <3>1, Zenon
    <3> QED
      BY <1>1, <3>2 DEF m
  <2>13. CASE "deep" \in Range(read[m])
    BY <1>1, <2>13 DEF m
  <2> QED
    BY <2>12, <2>13
<1>5. CASE ~(Range(names) \subseteq DOMAIN docs)
  BY <1>1, <1>5
<1> QED
  BY <1>4, <1>5

-----------------------------------------------------------------------------
(***************************************************************************)
(* What the guest does, and the invariant.                                 *)
(***************************************************************************)
Outs == [k : {"out"}, v : GuestValues]
Events == Outs \cup [k : {"end", "fails"}, code : Nat] \cup [k : {"memory", "trap", "loop"}]
Messages == Outs \cup [k : {"err"}] \cup [k : {"done"}, code : Nat]

\* A run of the guest: values, and then the one event that ends it.
IsRun(todo) ==
    /\ todo \in Seq(Events) /\ todo # <<>>
    /\ \A n \in 1..Len(todo) : todo[n].k = "out" <=> n < Len(todo)

IsLine(line) ==
    /\ line.args \in Seq(Range(line.args))
    /\ \A name \in DOMAIN line.docs : line.docs[name] \in Seq(JqValues)

JobRecord(J) ==
    J \in [pc : {J.pc}, line : {J.line}, todo : {J.todo}, code : {J.code},
           held : {J.held}, written : {J.written}, why : {J.why}]
IsJob(J) ==
    /\ JobRecord(J)
    /\ J.pc \in {"parse", "permit", "spawn", "receive", "write", "done", "dropped"}
    /\ IsLine(J.line)
    /\ J.todo = <<>> \/ IsRun(J.todo)
    /\ J.held \in Seq(Messages) /\ J.written \in Seq(Messages)

WorkerRecord(W) ==
    W \in [pc : {W.pc}, todo : {W.todo}, code : {W.code}, blocked : {W.blocked}, panicked : {W.panicked}]
IsWorker(W) ==
    /\ WorkerRecord(W)
    /\ W.pc \in {"none", "begin", "run", "error", "result", "exiting", "exited"}
    /\ W.todo \in Seq(Events)
    /\ W.code \in Nat

\* The invariant is about one command J, its thread W, the channel C between
\* them and whether the deadline has passed (l, "late" if it has).
Typed(J, W, C) == IsJob(J) /\ IsWorker(W) /\ C \in Seq(Messages)

\* Where the command is, and what that says of the thread and the channel.
Placed(J, W, C) ==
    /\ J.pc \in {"parse", "permit", "spawn"} => W = NoWorker /\ C = <<>> /\ J.held = <<>> /\ J.written = <<>>
    /\ J.pc = "parse" => J.todo = <<>>
    /\ J.pc \in {"permit", "spawn"} => J.todo # <<>>
    /\ J.pc \in {"receive", "write"} => W.pc # "none"
    /\ J.pc = "receive" => J.held = <<>>
    /\ J.pc = "write" => Len(J.held) = 1
    /\ J.pc # "done" => J.why = "own"
    /\ \A n \in 1..Len(J.written) : J.written[n].k # "done"
    /\ \A n \in 1..Len(J.held) : J.held[n].k # "done"

\* What the thread has still to do is the rest of the run.
Working(todo, W) ==
    W.pc # "none" =>
        /\ todo # <<>>
        /\ Len(W.todo) \in 1..Len(todo)
        /\ \A n \in 1..Len(W.todo) : W.todo[n] = todo[(Len(todo) - Len(W.todo)) + n]

\* The messages so far (M): first the values of the run that were sent, then
\* at most a message for stderr and the status, which comes last; a status
\* other than the deadline's follows all of the values; and a thread that
\* ended in time has sent one, unless it panicked.
Flows(todo, W, M, l) ==
    LET s == Len(todo) - Len(W.todo)
        whole == s = Len(todo) - 1
    IN  /\ s <= Len(M)
        /\ \A n \in 1..s : M[n] = todo[n]
        /\ \A n \in 1..Len(M) : M[n].k = "out" => n <= s
        /\ W.pc \in {"begin", "run"} => Len(M) = s
        /\ W.pc = "error" => whole
        /\ W.pc = "result" => W.code = 124 \/ whole
        /\ \A n \in 1..Len(M) : M[n].k = "done" =>
              n = Len(M) /\ W.pc \in {"exiting", "exited"} /\ (M[n].code = 124 \/ whole)
        /\ (W.pc \in {"exiting", "exited"} /\ ~W.panicked /\ l # "late") => Len(M) # 0 /\ M[Len(M)].k = "done"

Stream(J, C) == (J.written \o J.held) \o C
Flowing(J, W, C, l) ==
    (J.pc \notin {"done", "dropped"} /\ W.pc # "none") => Flows(J.todo, W, Stream(J, C), l)

Complete(J) ==
    (J.pc = "done" /\ J.why = "own" /\ J.todo # <<>>) =>
       /\ \A n \in 1..Len(J.written) : J.written[n].k = "out" => n <= Len(J.todo) /\ J.written[n] = J.todo[n]
       /\ J.code # 124 => \A n \in 1..(Len(J.todo) - 1) : n <= Len(J.written) /\ J.written[n] = J.todo[n]
Told(J, W) == J.why = "silence" => J.pc = "done" /\ W.panicked

Good(J, W, C, l) ==
    Typed(J, W, C) /\ Placed(J, W, C) /\ Working(J.todo, W) /\ Flowing(J, W, C, l) /\ Complete(J) /\ Told(J, W)

Clock(j) == IF j \in late THEN "late" ELSE "early"
JqInv ==
    /\ job = [j \in Jobs |-> job[j]] /\ worker = [j \in Jobs |-> worker[j]] /\ chan = [j \in Jobs |-> chan[j]]
    /\ \A j \in Jobs : Good(job[j], worker[j], chan[j], Clock(j))

-----------------------------------------------------------------------------
(***************************************************************************)
(* A program emits values and ends once.                                   *)
(***************************************************************************)
LEMMA EndsOnce ==
  ASSUME NEW s \in Seq(Outs), NEW e \in Events, e.k # "out"
  PROVE  IsRun(s \o <<e>>)
<1>1. s \in Seq(Events) /\ <<e>> \in Seq(Events) /\ Len(<<e>>) = 1 /\ <<e>>[1] = e
  BY DEF Events
<1>2. /\ s \o <<e>> \in Seq(Events)
      /\ Len(s \o <<e>>) = Len(s) + 1
      /\ \A i \in 1..(Len(s) + 1) : (s \o <<e>>)[i] = IF i <= Len(s) THEN s[i] ELSE <<e>>[i - Len(s)]
  BY <1>1, ConcatProperties
<1>3. Len(s) \in Nat /\ \A i \in 1..Len(s) : s[i].k = "out"
  <2>1. Len(s) \in Nat /\ \A i \in 1..Len(s) : s[i] \in Outs
    BY LenProperties
  <2>2. \A o \in Outs : o.k = "out"
    BY DEF Outs
  <2> QED
    BY <2>1, <2>2
<1> DEFINE t == s \o <<e>>
<1>4. t # <<>>
  BY <1>2, <1>3
<1>5. ASSUME NEW n \in 1..Len(t)
      PROVE  t[n].k = "out" <=> n < Len(t)
  <2>1. CASE n <= Len(s)
    BY <1>2, <1>3, <2>1
  <2>2. CASE ~(n <= Len(s))
    <3>1. n = Len(s) + 1 /\ n - Len(s) = 1
      BY <1>2, <1>3, <2>2
    <3> QED
      BY <1>1, <1>2, <1>3, <2>2, <3>1
  <2> QED
    BY <2>1, <2>2
<1> QED
  BY <1>2, <1>4, <1>5 DEF IsRun

\* run_program on a sequence of values.
LEMMA ValuesRun ==
  ASSUME NEW options, NEW values \in Seq(GuestValues)
  PROVE  IsRun(RunValues(options, values))
<1> DEFINE stops == {i \in DOMAIN values : values[i] \notin {"true", "false"}}
           n == IF stops = {} THEN Len(values) ELSE CHOOSE i \in stops : \A j \in stops : i <= j
           c == IF stops = {} THEN n ELSE n - 1
           emitted == SubSeq(values, 1, c)
           outs == [i \in 1 .. Len(emitted) |-> Emit(emitted[i])]
           e == IF stops = {} THEN End(ExitCode(options, emitted)) ELSE Ends(values[n])
<1>1. RunValues(options, values) = outs \o <<e>>
  BY DEF RunValues
<1>2. Len(values) \in Nat /\ DOMAIN values = 1..Len(values) /\ \A i \in 1..Len(values) : values[i] \in GuestValues
  BY LenProperties
<1>3. /\ c \in 0..Len(values) /\ \A i \in 1..c : values[i] \in {"true", "false"}
      /\ stops # {} => n \in stops
  <2>1. CASE stops = {}
    BY <1>2, <2>1
  <2>2. CASE stops # {}
    <3>1. stops \subseteq Nat
      BY <1>2
    <3>2. n \in stops /\ \A j \in stops : n <= j
      <4>1. \E i \in stops : \A j \in stops : i <= j
        <5> HIDE DEF stops
        <5> QED
          BY <2>2, <3>1, LeastElement, Zenon
      <4> QED
        BY <2>2, <4>1
    <3>3. n \in 1..Len(values) /\ c = n - 1
      BY <1>2, <2>2, <3>2, Zenon
    <3>4. \A i \in DOMAIN values : i \notin stops => values[i] \in {"true", "false"}
      OBVIOUS
    <3> HIDE DEF stops, n, c
    <3>5. \A i \in 1..c : i \in DOMAIN values /\ ~(n <= i)
      BY <1>2, <3>3
    <3>6. c \in 0..Len(values)
      BY <1>2, <3>3
    <3> QED
      BY <3>2, <3>4, <3>5, <3>6
  <2> QED
    BY <2>1, <2>2, Zenon
<1>4. e \in Events /\ e.k # "out"
  <2>1. ExitCode(options, emitted) \in Nat
    BY DEF ExitCode
  <2>2. End(ExitCode(options, emitted)) \in Events /\ End(ExitCode(options, emitted)).k # "out"
    BY <2>1 DEF End, Events
  <2>3. stops # {} => values[n] \in GuestValues \ {"true", "false"}
    BY <1>2, <1>3
  <2>4. \A v \in GuestValues \ {"true", "false"} : Ends(v) \in Events /\ Ends(v).k # "out"
    BY DEF Ends, GuestValues, Events, Fails
  <2> HIDE DEF stops, n, emitted
  <2> QED
    BY <2>2, <2>3, <2>4
<1>5. outs \in Seq(Outs)
  <2> HIDE DEF c
  <2>1. Len(emitted) = c /\ \A i \in 1..c : emitted[i] = values[i]
    BY <1>2, <1>3, SubSeqProperties
  <2>2. c \in Nat
    BY <1>2, <1>3
  <2> HIDE DEF emitted
  <2>3. \A i \in 1..c : Emit(emitted[i]) \in Outs
    BY <1>3, <2>1 DEF Emit, Outs, GuestValues
  <2> QED
    BY <2>1, <2>2, <2>3
<1> HIDE DEF outs, e
<1> QED
  BY <1>1, <1>4, <1>5, EndsOnce

\* run_program on what was read, with its options.
LEMMA ProgramRuns ==
  ASSUME NEW options, NEW values \in Seq(GuestValues)
  PROVE  IsRun(RunProgram(options, values))
<1>1. \A code \in Nat : IsRun(<<Fails(code)>>)
  <2>1. ASSUME NEW code \in Nat
        PROVE  IsRun(<<Fails(code)>>)
    <3>1. Fails(code) \in Events /\ Fails(code).k # "out"
      BY DEF Fails, Events
    <3> HIDE DEF Fails
    <3>2. <<>> \in Seq(Outs) /\ <<>> \o <<Fails(code)>> = <<Fails(code)>>
      OBVIOUS
    <3>3. IsRun(<<>> \o <<Fails(code)>>)
      BY <3>1, <3>2, EndsOnce, Zenon
    <3> QED
      BY <3>2, <3>3
  <2> QED
    BY <2>1
<1>2. <<"true">> \in Seq(GuestValues)
  BY DEF GuestValues
<1>3. IsRun(RunValues(options, <<"true">>)) /\ IsRun(RunValues(options, values))
  BY <1>2, ValuesRun, Zenon
<1> QED
  BY <1>1, <1>3 DEF RunProgram

-----------------------------------------------------------------------------
(***************************************************************************)
(* One command and its thread: what each step does to the invariant.       *)
(***************************************************************************)

\* The command's own steps before it starts its thread.
LEMMA StartGood ==
  ASSUME NEW line, IsLine(line), NEW l
  PROVE  Good(NewJob(line), NoWorker, <<>>, l)
<1>1. Typed(NewJob(line), NoWorker, <<>>)
  BY DEF Typed, IsJob, IsWorker, NewJob, NoWorker, JobRecord, WorkerRecord
<1>2. Placed(NewJob(line), NoWorker, <<>>)
  BY DEF Placed, NewJob, NoWorker
<1>3. Working(NewJob(line).todo, NoWorker) /\ Flowing(NewJob(line), NoWorker, <<>>, l)
  BY DEF Working, Flowing, NoWorker
<1>4. Complete(NewJob(line)) /\ Told(NewJob(line), NoWorker)
  BY DEF Complete, Told, NewJob
<1> QED
  BY <1>1, <1>2, <1>3, <1>4 DEF Good

\* A record, field by field.
JobIs(J, pc, line, todo, code, held, written, why) ==
    /\ JobRecord(J)
    /\ J.pc = pc /\ J.line = line /\ J.todo = todo /\ J.code = code
    /\ J.held = held /\ J.written = written /\ J.why = why
WorkerIs(W, pc, todo, code, blocked, panicked) ==
    /\ WorkerRecord(W)
    /\ W.pc = pc /\ W.todo = todo /\ W.code = code /\ W.blocked = blocked /\ W.panicked = panicked

\* A command's record with some fields replaced.
LEMMA JobFields ==
  ASSUME NEW J, JobRecord(J), NEW x, NEW y, NEW z
  PROVE  /\ JobIs([J EXCEPT !.pc = x], x, J.line, J.todo, J.code, J.held, J.written, J.why)
         /\ JobIs([J EXCEPT !.pc = x, !.todo = y], x, J.line, y, J.code, J.held, J.written, J.why)
         /\ JobIs([J EXCEPT !.pc = x, !.held = y], x, J.line, J.todo, J.code, y, J.written, J.why)
         /\ JobIs([J EXCEPT !.pc = x, !.held = y, !.written = z], x, J.line, J.todo, J.code, y, z, J.why)
         /\ JobIs([J EXCEPT !.pc = x, !.code = y, !.why = z], x, J.line, J.todo, y, J.held, J.written, z)
<1>1. JobIs([J EXCEPT !.pc = x], x, J.line, J.todo, J.code, J.held, J.written, J.why)
  <2> DEFINE K == [J EXCEPT !.pc = x]
  <2>1. K.pc = x /\ K.line = J.line /\ K.todo = J.todo /\ K.code = J.code /\ K.held = J.held /\ K.written = J.written /\ K.why = J.why
    BY DEF JobRecord
  <2>2. JobRecord(K)
    BY <2>1 DEF JobRecord
  <2> HIDE DEF K
  <2>3. JobIs(K, x, J.line, J.todo, J.code, J.held, J.written, J.why)
    BY <2>1, <2>2 DEF JobIs
  <2> QED
    BY <2>3 DEF K
<1>2. JobIs([J EXCEPT !.pc = x, !.todo = y], x, J.line, y, J.code, J.held, J.written, J.why)
  <2> DEFINE K == [J EXCEPT !.pc = x, !.todo = y]
  <2>1. K.pc = x /\ K.line = J.line /\ K.todo = y /\ K.code = J.code /\ K.held = J.held /\ K.written = J.written /\ K.why = J.why
    BY DEF JobRecord
  <2>2. JobRecord(K)
    BY <2>1, Zenon DEF JobRecord
  <2> HIDE DEF K
  <2>3. JobIs(K, x, J.line, y, J.code, J.held, J.written, J.why)
    BY <2>1, <2>2 DEF JobIs
  <2> QED
    BY <2>3 DEF K
<1>3. JobIs([J EXCEPT !.pc = x, !.held = y], x, J.line, J.todo, J.code, y, J.written, J.why)
  <2> DEFINE K == [J EXCEPT !.pc = x, !.held = y]
  <2>1. K.pc = x /\ K.line = J.line /\ K.todo = J.todo /\ K.code = J.code /\ K.held = y /\ K.written = J.written /\ K.why = J.why
    BY DEF JobRecord
  <2>2. JobRecord(K)
    BY <2>1, Zenon DEF JobRecord
  <2> HIDE DEF K
  <2>3. JobIs(K, x, J.line, J.todo, J.code, y, J.written, J.why)
    BY <2>1, <2>2 DEF JobIs
  <2> QED
    BY <2>3 DEF K
<1>4. JobIs([J EXCEPT !.pc = x, !.held = y, !.written = z], x, J.line, J.todo, J.code, y, z, J.why)
  <2> DEFINE K == [J EXCEPT !.pc = x, !.held = y, !.written = z]
  <2>1. K.pc = x /\ K.line = J.line /\ K.todo = J.todo /\ K.code = J.code /\ K.held = y /\ K.written = z /\ K.why = J.why
    BY DEF JobRecord
  <2>2. JobRecord(K)
    BY <2>1, Zenon DEF JobRecord
  <2> HIDE DEF K
  <2>3. JobIs(K, x, J.line, J.todo, J.code, y, z, J.why)
    BY <2>1, <2>2 DEF JobIs
  <2> QED
    BY <2>3 DEF K
<1>5. JobIs([J EXCEPT !.pc = x, !.code = y, !.why = z], x, J.line, J.todo, y, J.held, J.written, z)
  <2> DEFINE K == [J EXCEPT !.pc = x, !.code = y, !.why = z]
  <2>1. K.pc = x /\ K.line = J.line /\ K.todo = J.todo /\ K.code = y /\ K.held = J.held /\ K.written = J.written /\ K.why = z
    BY DEF JobRecord
  <2>2. JobRecord(K)
    BY <2>1, Zenon DEF JobRecord
  <2> HIDE DEF K
  <2>3. JobIs(K, x, J.line, J.todo, y, J.held, J.written, z)
    BY <2>1, <2>2 DEF JobIs
  <2> QED
    BY <2>3 DEF K
<1> QED
  BY <1>1, <1>2, <1>3, <1>4, <1>5

\* A thread's record with some fields replaced.
LEMMA WorkerFields ==
  ASSUME NEW W, WorkerRecord(W), NEW x, NEW y, NEW z
  PROVE  /\ WorkerIs([W EXCEPT !.pc = x], x, W.todo, W.code, W.blocked, W.panicked)
         /\ WorkerIs([W EXCEPT !.blocked = x], W.pc, W.todo, W.code, x, W.panicked)
         /\ WorkerIs([W EXCEPT !.todo = x, !.blocked = y], W.pc, x, W.code, y, W.panicked)
         /\ WorkerIs([W EXCEPT !.pc = x, !.blocked = y], x, W.todo, W.code, y, W.panicked)
         /\ WorkerIs([W EXCEPT !.pc = x, !.panicked = y], x, W.todo, W.code, W.blocked, y)
         /\ WorkerIs([W EXCEPT !.pc = x, !.code = y, !.blocked = z], x, W.todo, y, z, W.panicked)
<1>1. WorkerIs([W EXCEPT !.pc = x], x, W.todo, W.code, W.blocked, W.panicked)
  <2> DEFINE K == [W EXCEPT !.pc = x]
  <2>1. K.pc = x /\ K.todo = W.todo /\ K.code = W.code /\ K.blocked = W.blocked /\ K.panicked = W.panicked
    BY DEF WorkerRecord
  <2>2. WorkerRecord(K)
    BY <2>1 DEF WorkerRecord
  <2> HIDE DEF K
  <2>3. WorkerIs(K, x, W.todo, W.code, W.blocked, W.panicked)
    BY <2>1, <2>2 DEF WorkerIs
  <2> QED
    BY <2>3 DEF K
<1>2. WorkerIs([W EXCEPT !.blocked = x], W.pc, W.todo, W.code, x, W.panicked)
  <2> DEFINE K == [W EXCEPT !.blocked = x]
  <2>1. K.pc = W.pc /\ K.todo = W.todo /\ K.code = W.code /\ K.blocked = x /\ K.panicked = W.panicked
    BY DEF WorkerRecord
  <2>2. WorkerRecord(K)
    BY <2>1 DEF WorkerRecord
  <2> HIDE DEF K
  <2>3. WorkerIs(K, W.pc, W.todo, W.code, x, W.panicked)
    BY <2>1, <2>2 DEF WorkerIs
  <2> QED
    BY <2>3 DEF K
<1>3. WorkerIs([W EXCEPT !.todo = x, !.blocked = y], W.pc, x, W.code, y, W.panicked)
  <2> DEFINE K == [W EXCEPT !.todo = x, !.blocked = y]
  <2>1. K.pc = W.pc /\ K.todo = x /\ K.code = W.code /\ K.blocked = y /\ K.panicked = W.panicked
    BY DEF WorkerRecord
  <2>2. WorkerRecord(K)
    BY <2>1, Zenon DEF WorkerRecord
  <2> HIDE DEF K
  <2>3. WorkerIs(K, W.pc, x, W.code, y, W.panicked)
    BY <2>1, <2>2 DEF WorkerIs
  <2> QED
    BY <2>3 DEF K
<1>4. WorkerIs([W EXCEPT !.pc = x, !.blocked = y], x, W.todo, W.code, y, W.panicked)
  <2> DEFINE K == [W EXCEPT !.pc = x, !.blocked = y]
  <2>1. K.pc = x /\ K.todo = W.todo /\ K.code = W.code /\ K.blocked = y /\ K.panicked = W.panicked
    BY DEF WorkerRecord
  <2>2. WorkerRecord(K)
    BY <2>1, Zenon DEF WorkerRecord
  <2> HIDE DEF K
  <2>3. WorkerIs(K, x, W.todo, W.code, y, W.panicked)
    BY <2>1, <2>2 DEF WorkerIs
  <2> QED
    BY <2>3 DEF K
<1>5. WorkerIs([W EXCEPT !.pc = x, !.panicked = y], x, W.todo, W.code, W.blocked, y)
  <2> DEFINE K == [W EXCEPT !.pc = x, !.panicked = y]
  <2>1. K.pc = x /\ K.todo = W.todo /\ K.code = W.code /\ K.blocked = W.blocked /\ K.panicked = y
    BY DEF WorkerRecord
  <2>2. WorkerRecord(K)
    BY <2>1, Zenon DEF WorkerRecord
  <2> HIDE DEF K
  <2>3. WorkerIs(K, x, W.todo, W.code, W.blocked, y)
    BY <2>1, <2>2 DEF WorkerIs
  <2> QED
    BY <2>3 DEF K
<1>6. WorkerIs([W EXCEPT !.pc = x, !.code = y, !.blocked = z], x, W.todo, y, z, W.panicked)
  <2> DEFINE K == [W EXCEPT !.pc = x, !.code = y, !.blocked = z]
  <2>1. K.pc = x /\ K.todo = W.todo /\ K.code = y /\ K.blocked = z /\ K.panicked = W.panicked
    BY DEF WorkerRecord
  <2>2. WorkerRecord(K)
    BY <2>1, Zenon DEF WorkerRecord
  <2> HIDE DEF K
  <2>3. WorkerIs(K, x, W.todo, y, z, W.panicked)
    BY <2>1, <2>2 DEF WorkerIs
  <2> QED
    BY <2>3 DEF K
<1> QED
  BY <1>1, <1>2, <1>3, <1>4, <1>5, <1>6

\* A command that has parsed its line asks for a run.
LEMMA ParseGood ==
  ASSUME NEW J, NEW W, NEW C, NEW l, Good(J, W, C, l), J.pc = "parse",
         NEW todo, IsRun(todo)
  PROVE  Good([J EXCEPT !.pc = "permit", !.todo = todo], W, C, l)
<1> DEFINE K == [J EXCEPT !.pc = "permit", !.todo = todo]
<1>0. JobRecord(J)
  BY DEF Good, Typed, IsJob
<1>1. /\ IsLine(J.line) /\ J.held \in Seq(Messages) /\ J.written \in Seq(Messages)
      /\ IsWorker(W) /\ C \in Seq(Messages)
  BY SMTT(30) DEF Good, Typed, IsJob
<1>2. JobIs(K, "permit", J.line, todo, J.code, J.held, J.written, J.why)
  BY <1>0, JobFields, Zenon
<1> HIDE DEF K
<1>3. Typed(K, W, C)
  BY <1>1, <1>2 DEF JobIs, WorkerIs, Typed, IsJob
<1>4. W = NoWorker /\ C = <<>> /\ J.held = <<>> /\ J.written = <<>> /\ J.why = "own"
  BY DEF Good, Placed
<1>5. Placed(K, W, C)
  BY <1>2, <1>4 DEF JobIs, WorkerIs, Placed, IsRun
<1>6. Working(K.todo, W) /\ Flowing(K, W, C, l) /\ Complete(K) /\ Told(K, W)
  BY <1>2, <1>4 DEF JobIs, WorkerIs, Working, Flowing, Complete, Told, NoWorker
<1> QED
  BY <1>3, <1>5, <1>6 DEF Good, K

\* A command that has its permit is about to start its thread.
LEMMA AcquireGood ==
  ASSUME NEW J, NEW W, NEW C, NEW l, Good(J, W, C, l), J.pc = "permit"
  PROVE  Good([J EXCEPT !.pc = "spawn"], W, C, l)
<1> DEFINE K == [J EXCEPT !.pc = "spawn"]
<1>0. JobRecord(J)
  BY DEF Good, Typed, IsJob
<1>1. /\ IsLine(J.line) /\ J.held \in Seq(Messages) /\ J.written \in Seq(Messages)
      /\ IsWorker(W) /\ C \in Seq(Messages) /\ (J.todo = <<>> \/ IsRun(J.todo))
  BY SMTT(30) DEF Good, Typed, IsJob
<1>2. JobIs(K, "spawn", J.line, J.todo, J.code, J.held, J.written, J.why)
  BY <1>0, JobFields, Zenon
<1> HIDE DEF K
<1>3. Typed(K, W, C)
  BY <1>1, <1>2 DEF JobIs, WorkerIs, Typed, IsJob
<1>4. W = NoWorker /\ C = <<>> /\ J.held = <<>> /\ J.written = <<>> /\ J.why = "own" /\ J.todo # <<>>
  BY DEF Good, Placed
<1>5. Placed(K, W, C)
  BY <1>2, <1>4 DEF JobIs, WorkerIs, Placed
<1>6. Working(K.todo, W) /\ Flowing(K, W, C, l) /\ Complete(K) /\ Told(K, W)
  BY <1>2, <1>4 DEF JobIs, WorkerIs, Working, Flowing, Complete, Told, NoWorker
<1> QED
  BY <1>3, <1>5, <1>6 DEF Good, K

\* A thread starts with the whole run before it.
LEMMA SpawnGood ==
  ASSUME NEW J, NEW W, NEW C, NEW l, Good(J, W, C, l), J.pc = "spawn"
  PROVE  Good([J EXCEPT !.pc = "receive"], [NoWorker EXCEPT !.pc = "begin", !.todo = J.todo], C, l)
<1> DEFINE K == [J EXCEPT !.pc = "receive"]
           V == [NoWorker EXCEPT !.pc = "begin", !.todo = J.todo]
<1>0. JobRecord(J)
  BY DEF Good, Typed, IsJob
<1>1. /\ IsLine(J.line) /\ C \in Seq(Messages) /\ (J.todo = <<>> \/ IsRun(J.todo))
  BY SMTT(30) DEF Good, Typed, IsJob
<1>2. JobIs(K, "receive", J.line, J.todo, J.code, J.held, J.written, J.why)
  BY <1>0, JobFields, Zenon
<1>3. WorkerIs(V, "begin", J.todo, 0, FALSE, FALSE)
  BY Zenon DEF NoWorker, WorkerIs, WorkerRecord
<1> HIDE DEF K, V
<1>4. C = <<>> /\ J.held = <<>> /\ J.written = <<>> /\ J.why = "own" /\ J.todo # <<>>
  BY DEF Good, Placed
<1>5. IsRun(J.todo) /\ J.todo \in Seq(Events)
  BY <1>1, <1>4 DEF IsRun
<1>6. Typed(K, V, C)
  <2>1. <<>> \in Seq(Messages)
    OBVIOUS
  <2> QED
    BY <1>1, <1>2, <1>3, <1>4, <1>5, <2>1 DEF JobIs, WorkerIs, Typed, IsJob, IsWorker
<1>7. Placed(K, V, C)
  BY <1>2, <1>3, <1>4 DEF JobIs, WorkerIs, Placed
<1>8. Len(J.todo) \in Nat /\ Len(J.todo) # 0
  BY <1>4, <1>5, LenProperties, EmptySeq
<1>9. Working(K.todo, V)
  BY <1>2, <1>3, <1>4, <1>8 DEF JobIs, WorkerIs, Working
<1>10. Stream(K, C) = <<>>
  BY <1>2, <1>4 DEF JobIs, WorkerIs, Stream
<1>11. Flows(K.todo, V, <<>>, l)
  <2>1. Len(<<>>) = 0 /\ 1..0 = {}
    OBVIOUS
  <2>2. K.todo = J.todo /\ V.todo = J.todo /\ V.pc = "begin" /\ Len(J.todo) - Len(J.todo) = 0
    BY <1>2, <1>3, <1>8 DEF JobIs, WorkerIs
  <2> QED
    BY <2>1, <2>2 DEF Flows
<1>12. Complete(K) /\ Told(K, V)
  BY <1>2, <1>4, SMTT(30) DEF JobIs, WorkerIs, Complete, Told
<1> QED
  BY <1>6, <1>7, <1>9, <1>10, <1>11, <1>12 DEF Good, Flowing, K, V

\* The parts of a command's record, for the steps that change some of them.
LEMMA JobParts ==
  ASSUME NEW J, NEW W, NEW C, NEW l, Good(J, W, C, l)
  PROVE  /\ JobRecord(J) /\ IsLine(J.line) /\ (J.todo = <<>> \/ IsRun(J.todo))
         /\ J.held \in Seq(Messages) /\ J.written \in Seq(Messages)
         /\ IsWorker(W) /\ C \in Seq(Messages)
  BY DEF Good, Typed, IsJob

\* A command may stop at any time for a reason that is not its run's: what it
\* has written stays, and nothing is claimed of it.
LEMMA CloseGood ==
  ASSUME NEW J, NEW W, NEW C, NEW l, Good(J, W, C, l),
         NEW K, NEW pc \in {"done", "dropped"}, NEW code, NEW why,
         JobIs(K, pc, J.line, J.todo, code, J.held, J.written, why),
         \/ pc = "dropped" /\ why = "own"
         \/ pc = "done" /\ why \in {"timeout", "break"}
         \/ pc = "done" /\ why = "own" /\ J.todo = <<>>
  PROVE  Good(K, W, C, l)
<1>1. Typed(K, W, C)
  BY JobParts DEF Typed, IsJob, JobIs
<1>2. Placed(K, W, C)
  <2>1. /\ \A n \in 1..Len(J.written) : J.written[n].k # "done"
        /\ \A n \in 1..Len(J.held) : J.held[n].k # "done"
    BY DEF Good, Placed
  <2> QED
    BY <2>1 DEF Placed, JobIs
<1>3. Working(K.todo, W)
  BY DEF Good, JobIs
<1>4. Flowing(K, W, C, l) /\ Complete(K) /\ Told(K, W)
  BY DEF Flowing, Complete, Told, JobIs
<1> QED
  BY <1>1, <1>2, <1>3, <1>4 DEF Good

\* Moving a message from the channel to the command's hand, and from there to
\* its output, leaves the stream of messages as it was.
LEMMA Regroup ==
  ASSUME NEW a \in Seq(Messages), NEW b \in Seq(Messages), b # <<>>
  PROVE  /\ Head(b) \in Messages /\ Tail(b) \in Seq(Messages)
         /\ (a \o <<Head(b)>>) \o Tail(b) = (a \o <<>>) \o b
<1>1. Head(b) \in Messages /\ Tail(b) \in Seq(Messages) /\ b = <<Head(b)>> \o Tail(b)
  BY HeadTailProperties, EmptySeq
<1>2. <<Head(b)>> \in Seq(Messages)
  BY <1>1
<1>3. (a \o <<Head(b)>>) \o Tail(b) = a \o (<<Head(b)>> \o Tail(b))
  BY <1>1, <1>2, ConcatAssociative, SMTT(30)
<1>4. a \o <<>> = a
  BY ConcatEmptySeq
<1> QED
  BY <1>1, <1>3, <1>4

\* The elements of a concatenation.
LEMMA Joined ==
  ASSUME NEW S, NEW a \in Seq(S), NEW b \in Seq(S)
  PROVE  /\ a \o b \in Seq(S) /\ Len(a) \in Nat /\ Len(b) \in Nat /\ Len(a \o b) = Len(a) + Len(b)
         /\ \A n \in 1..Len(a) : (a \o b)[n] = a[n]
         /\ \A n \in 1..Len(b) : (a \o b)[Len(a) + n] = b[n]
         /\ \A n \in 1..Len(a \o b) : \/ n \in 1..Len(a) /\ (a \o b)[n] = a[n]
                                      \/ \E m \in 1..Len(b) : n = Len(a) + m /\ (a \o b)[n] = b[m]
<1> DEFINE t == a \o b
<1>1. Len(a) \in Nat /\ Len(b) \in Nat
  BY LenProperties
<1>2. /\ t \in Seq(S) /\ Len(t) = Len(a) + Len(b)
      /\ \A i \in 1..(Len(a) + Len(b)) : t[i] = IF i <= Len(a) THEN a[i] ELSE b[i - Len(a)]
  BY ConcatProperties
<1> HIDE DEF t
<1>3. \A n \in 1..Len(a) : t[n] = a[n]
  BY <1>1, <1>2
<1>4. ASSUME NEW n \in 1..Len(b)
      PROVE  t[Len(a) + n] = b[n]
  <2>1. Len(a) + n \in 1..(Len(a) + Len(b)) /\ ~(Len(a) + n <= Len(a)) /\ (Len(a) + n) - Len(a) = n
    BY <1>1
  <2> QED
    BY <1>2, <2>1
<1>5. ASSUME NEW n \in 1..Len(t), n \notin 1..Len(a)
      PROVE  \E m \in 1..Len(b) : n = Len(a) + m /\ t[n] = b[m]
  <2>1. n - Len(a) \in 1..Len(b) /\ n = Len(a) + (n - Len(a))
    BY <1>1, <1>2, <1>5
  <2>2. t[Len(a) + (n - Len(a))] = b[n - Len(a)]
    BY <1>4, <2>1
  <2> QED
    BY <2>1, <2>2
<1> QED
  BY <1>1, <1>2, <1>3, <1>4, <1>5 DEF t

\* No status in two sequences, none in their concatenation.
LEMMA NoneDone ==
  ASSUME NEW a \in Seq(Messages), NEW b \in Seq(Messages),
         \A n \in 1..Len(a) : a[n].k # "done", \A n \in 1..Len(b) : b[n].k # "done"
  PROVE  \A n \in 1..Len(a \o b) : (a \o b)[n].k # "done"
<1> DEFINE t == a \o b
<1>1. \A n \in 1..Len(t) : \/ n \in 1..Len(a) /\ t[n] = a[n]
                           \/ \E m \in 1..Len(b) : n = Len(a) + m /\ t[n] = b[m]
  BY Joined
<1> HIDE DEF t
<1>2. \A n \in 1..Len(t) : t[n].k # "done"
  BY <1>1, SMTT(30)
<1> QED
  BY <1>2 DEF t

\* The command takes a message that is not the status.
LEMMA ReceiveGood ==
  ASSUME NEW J, NEW W, NEW C, NEW l, Good(J, W, C, l), J.pc = "receive",
         C # <<>>, Head(C).k # "done"
  PROVE  Good([J EXCEPT !.pc = "write", !.held = <<Head(C)>>], W, Tail(C), l)
<1> DEFINE K == [J EXCEPT !.pc = "write", !.held = <<Head(C)>>]
<1>1. JobIs(K, "write", J.line, J.todo, J.code, <<Head(C)>>, J.written, J.why)
  BY JobParts, JobFields, Zenon
<1> HIDE DEF K
<1>2. J.held = <<>> /\ J.why = "own" /\ W.pc # "none" /\ \A n \in 1..Len(J.written) : J.written[n].k # "done"
  BY DEF Good, Placed
<1>3. Head(C) \in Messages /\ Tail(C) \in Seq(Messages) /\ (J.written \o <<Head(C)>>) \o Tail(C) = (J.written \o <<>>) \o C
  BY JobParts, Regroup, SMTT(30)
<1>4. <<Head(C)>> \in Seq(Messages) /\ Len(<<Head(C)>>) = 1 /\ <<Head(C)>>[1] = Head(C)
  BY <1>3
<1>5. Typed(K, W, Tail(C))
  BY <1>1, <1>3, <1>4, JobParts DEF Typed, IsJob, JobIs
<1>6. Placed(K, W, Tail(C))
  <2>1. \A n \in 1..Len(K.held) : K.held[n].k # "done"
    BY <1>1, <1>4 DEF JobIs
  <2> QED
    BY <1>1, <1>2, <1>4, <2>1 DEF Placed, JobIs
<1>7. Working(K.todo, W)
  BY <1>1 DEF Good, JobIs
<1>8. Flowing(K, W, Tail(C), l)
  <2>1. Stream(K, Tail(C)) = Stream(J, C)
    BY <1>1, <1>2, <1>3, SMTT(30) DEF Stream, JobIs
  <2>2. Flows(J.todo, W, Stream(J, C), l)
    BY <1>2 DEF Good, Flowing
  <2> QED
    BY <1>1, <2>1, <2>2, SMTT(30) DEF Flowing, JobIs
<1>9. Complete(K) /\ Told(K, W)
  BY <1>1, <1>2 DEF Complete, Told, JobIs
<1> QED
  BY <1>5, <1>6, <1>7, <1>8, <1>9 DEF Good, K

\* The command writes the message it has.
LEMMA WriteGood ==
  ASSUME NEW J, NEW W, NEW C, NEW l, Good(J, W, C, l), J.pc = "write"
  PROVE  Good([J EXCEPT !.pc = "receive", !.held = <<>>, !.written = J.written \o J.held], W, C, l)
<1> DEFINE K == [J EXCEPT !.pc = "receive", !.held = <<>>, !.written = J.written \o J.held]
           both == J.written \o J.held
<1>1. JobIs(K, "receive", J.line, J.todo, J.code, <<>>, both, J.why)
  BY JobParts, JobFields, Zenon
<1> HIDE DEF K
<1>2. J.why = "own" /\ W.pc # "none"
  BY DEF Good, Placed
<1>3. both \in Seq(Messages) /\ both \o <<>> = both /\ <<>> \in Seq(Messages) /\ Len(<<>>) = 0
  BY JobParts, ConcatProperties, ConcatEmptySeq, EmptySeq
<1>4. \A n \in 1..Len(both) : both[n].k # "done"
  <2>1. /\ \A n \in 1..Len(J.written) : J.written[n].k # "done"
        /\ \A n \in 1..Len(J.held) : J.held[n].k # "done"
    BY DEF Good, Placed
  <2>2. J.written \in Seq(Messages) /\ J.held \in Seq(Messages)
    BY JobParts
  <2> QED
    BY <2>1, <2>2, NoneDone, Zenon
<1> HIDE DEF both
<1>5. Typed(K, W, C)
  BY <1>1, <1>3, JobParts DEF Typed, IsJob, JobIs
<1>6. Placed(K, W, C)
  BY <1>1, <1>2, <1>3, <1>4 DEF Placed, JobIs
<1>7. Working(K.todo, W)
  BY <1>1 DEF Good, JobIs
<1>8. Flowing(K, W, C, l)
  <2>1. Stream(K, C) = Stream(J, C)
    BY <1>1, <1>3 DEF Stream, JobIs, both
  <2>2. Flows(J.todo, W, Stream(J, C), l)
    BY <1>2 DEF Good, Flowing
  <2> QED
    BY <1>1, <2>1, <2>2 DEF Flowing, JobIs
<1>9. Complete(K) /\ Told(K, W)
  BY <1>1, <1>2 DEF Complete, Told, JobIs
<1> QED
  BY <1>5, <1>6, <1>7, <1>8, <1>9, SMTT(30) DEF Good, K, both

\* The stream when the command is about to receive: what it wrote, and then
\* what is in the channel.
LEMMA StreamWhenReceiving ==
  ASSUME NEW J, NEW W, NEW C, NEW l, Good(J, W, C, l), J.pc = "receive"
  PROVE  /\ Stream(J, C) = J.written \o C
         /\ J.written \in Seq(Messages) /\ C \in Seq(Messages)
         /\ Flows(J.todo, W, Stream(J, C), l)
<1>1. J.held = <<>> /\ W.pc # "none"
  BY DEF Good, Placed
<1>2. J.written \in Seq(Messages) /\ C \in Seq(Messages)
  BY JobParts
<1>3. J.written \o <<>> = J.written
  BY <1>2, ConcatEmptySeq
<1>4. Stream(J, C) = J.written \o C
  BY <1>1, <1>3 DEF Stream
<1>5. Flows(J.todo, W, Stream(J, C), l)
  BY <1>1 DEF Good, Flowing
<1> QED
  BY <1>2, <1>4, <1>5

\* The status is the last message: when the command takes it, what it wrote
\* is what was sent, and that is the whole run unless the status says that the
\* deadline passed.
LEMMA StatusGood ==
  ASSUME NEW J, NEW W, NEW C, NEW l, Good(J, W, C, l), J.pc = "receive",
         C # <<>>, Head(C).k = "done"
  PROVE  Good([J EXCEPT !.pc = "done", !.code = Head(C).code, !.why = "own"], W, Tail(C), l)
<1> DEFINE K == [J EXCEPT !.pc = "done", !.code = Head(C).code, !.why = "own"]
           M == J.written \o C
           s == Len(J.todo) - Len(W.todo)
<1>1. JobIs(K, "done", J.line, J.todo, Head(C).code, J.held, J.written, "own")
  BY JobParts, JobFields, Zenon
<1> HIDE DEF K
<1>2. W.pc # "none" /\ J.held = <<>> /\ \A n \in 1..Len(J.written) : J.written[n].k # "done"
  BY DEF Good, Placed
<1>3. Flows(J.todo, W, M, l) /\ J.written \in Seq(Messages) /\ C \in Seq(Messages)
  BY StreamWhenReceiving, Zenon
<1>4. Tail(C) \in Seq(Messages) /\ Head(C) = C[1] /\ Len(C) \in Nat \ {0}
  BY <1>3, HeadTailProperties, EmptySeq
<1>5. Typed(K, W, Tail(C))
  BY <1>1, <1>4, JobParts DEF Typed, IsJob, JobIs
<1>6. Placed(K, W, Tail(C))
  <2>1. Len(<<>>) = 0
    OBVIOUS
  <2> QED
    BY <1>1, <1>2, <2>1 DEF Placed, JobIs
<1>7. Working(K.todo, W) /\ Flowing(K, W, Tail(C), l) /\ Told(K, W)
  BY <1>1 DEF Good, Flowing, Told, JobIs
<1>8. /\ Len(J.written) \in Nat /\ Len(M) = Len(J.written) + Len(C)
      /\ \A n \in 1..Len(J.written) : M[n] = J.written[n]
      /\ M[Len(J.written) + 1] = Head(C)
  <2>1. 1 \in 1..Len(C)
    BY <1>4, SMTT(30)
  <2> QED
    BY <1>3, <1>4, <2>1, Joined
<1>9. /\ IsRun(J.todo) /\ J.todo \in Seq(Events)
      /\ Len(W.todo) \in 1..Len(J.todo)
  BY <1>2, JobParts, Zenon DEF Good, Working, IsRun
<1>10. Len(J.todo) \in Nat /\ s \in Nat /\ s <= Len(J.todo) - 1
  BY <1>9, LenProperties
<1> HIDE DEF M, s
<1>11. /\ s <= Len(M)
       /\ \A n \in 1..s : M[n] = J.todo[n]
       /\ \A n \in 1..Len(M) : M[n].k = "out" => n <= s
       /\ \A n \in 1..Len(M) : M[n].k = "done" => M[n].code = 124 \/ s = Len(J.todo) - 1
  BY <1>3, Zenon DEF Flows, s
<1>12. s <= Len(J.written)
  <2> SUFFICES ASSUME ~(s <= Len(J.written)) PROVE FALSE
    OBVIOUS
  <2> DEFINE p == Len(J.written) + 1
  <2>1. p \in 1..s /\ p \in 1..Len(J.todo) /\ p < Len(J.todo)
    BY <1>8, <1>10
  <2>2. M[p] = J.todo[p] /\ M[p].k = "done"
    BY <1>8, <1>11, <2>1
  <2>3. J.todo[p].k = "out"
    BY <1>9, <2>1 DEF IsRun
  <2> QED
    BY <2>2, <2>3
<1>13. Complete(K)
  <2>1. \A n \in 1..Len(J.written) : n \in 1..Len(M)
    BY <1>4, <1>8
  <2>2. \A n \in 1..s : J.written[n] = J.todo[n] /\ n <= Len(J.written) /\ n <= Len(J.todo)
    <3>1. \A n \in 1..s : n \in 1..Len(J.written) /\ n <= Len(J.todo)
      BY <1>8, <1>10, <1>12
    <3> QED
      BY <1>8, <1>11, <3>1
  <2>3. \A n \in 1..Len(J.written) : J.written[n].k = "out" => n <= Len(J.todo) /\ J.written[n] = J.todo[n]
    <3>1. ASSUME NEW n \in 1..Len(J.written), J.written[n].k = "out"
          PROVE  n \in 1..s
      <4>1. n <= s
        BY <1>8, <1>11, <2>1, <3>1
      <4> QED
        BY <1>8, <1>10, <4>1
    <3> QED
      BY <2>2, <3>1
  <2>4. Head(C).code # 124 => s = Len(J.todo) - 1
    <3>1. Len(J.written) + 1 \in 1..Len(M)
      BY <1>4, <1>8
    <3> QED
      BY <1>8, <1>11, <3>1
  <2>5. Head(C).code # 124 => \A n \in 1..(Len(J.todo) - 1) : n <= Len(J.written) /\ J.written[n] = J.todo[n]
    BY <2>2, <2>4
  <2> QED
    BY <1>1, <2>3, <2>5 DEF Complete, JobIs
<1> QED
  BY <1>5, <1>6, <1>7, <1>13, SMTT(30) DEF Good, K

\* A thread that ended in time without a status has panicked.
LEMMA SilenceGood ==
  ASSUME NEW J, NEW W, NEW C, NEW l, Good(J, W, C, l), J.pc = "receive",
         C = <<>>, W.pc = "exited", l # "late"
  PROVE  Good([J EXCEPT !.pc = "done", !.code = 1, !.why = "silence"], W, C, l)
<1> DEFINE K == [J EXCEPT !.pc = "done", !.code = 1, !.why = "silence"]
<1>1. JobIs(K, "done", J.line, J.todo, 1, J.held, J.written, "silence")
  BY JobParts, JobFields, Zenon
<1> HIDE DEF K
<1>2. /\ \A n \in 1..Len(J.written) : J.written[n].k # "done"
      /\ \A n \in 1..Len(J.held) : J.held[n].k # "done"
  BY DEF Good, Placed
<1>3. Typed(K, W, C)
  BY <1>1, JobParts DEF Typed, IsJob, JobIs
<1>4. Placed(K, W, C)
  BY <1>1, <1>2, SMTT(30) DEF Placed, JobIs
<1>5. Working(K.todo, W) /\ Flowing(K, W, C, l) /\ Complete(K)
  BY <1>1 DEF Good, Flowing, Complete, JobIs
<1>6. Stream(J, C) = J.written
  <2>1. J.written \o <<>> = J.written
    BY StreamWhenReceiving, ConcatEmptySeq
  <2> QED
    BY <2>1, StreamWhenReceiving, Zenon
<1>7. W.panicked
  <2>1. Flows(J.todo, W, J.written, l)
    BY <1>6, StreamWhenReceiving
  <2>2. ~W.panicked => Len(J.written) # 0 /\ J.written[Len(J.written)].k = "done"
    BY <2>1 DEF Flows
  <2>3. Len(J.written) \in Nat
    BY StreamWhenReceiving, LenProperties
  <2> QED
    BY <1>2, <2>2, <2>3
<1>8. Told(K, W)
  BY <1>1, <1>7 DEF Told, JobIs
<1> QED
  BY <1>3, <1>4, <1>5, <1>8, SMTT(30) DEF Good, K

-----------------------------------------------------------------------------
(***************************************************************************)
(* The thread's steps.                                                     *)
(***************************************************************************)

\* A step of a thread that has started leaves its command where it is.
LEMMA WorkerGood ==
  ASSUME NEW J, NEW W, NEW C, NEW l, Good(J, W, C, l), W.pc # "none",
         NEW V, IsWorker(V), V.pc # "none", Working(J.todo, V), W.panicked => V.panicked,
         NEW D \in Seq(Messages),
         J.pc \notin {"done", "dropped"} => Flows(J.todo, V, Stream(J, D), l)
  PROVE  Good(J, V, D, l)
<1>1. J.pc \notin {"parse", "permit", "spawn"}
  BY SMTT(30) DEF Good, Placed, NoWorker
<1>2. Placed(J, V, D)
  BY <1>1 DEF Good, Placed
<1>3. Typed(J, V, D)
  BY DEF Good, Typed
<1>4. Flowing(J, V, D, l) /\ Complete(J) /\ Told(J, V)
  BY DEF Good, Flowing, Told
<1> QED
  BY <1>2, <1>3, <1>4, SMTT(30) DEF Good

\* The place of the first of the last b of a elements.
LEMMA FirstOfLast ==
  ASSUME NEW a \in Nat, NEW b \in 1..a
  PROVE  (a - b) + 1 \in 1..a /\ ((a - b) + 1 < a <=> b # 1)
  OBVIOUS

\* Where a thread is in its run.
LEMMA RunParts ==
  ASSUME NEW J, NEW W, NEW C, NEW l, Good(J, W, C, l), W.pc # "none"
  PROVE  /\ IsRun(J.todo) /\ Len(J.todo) \in Nat /\ Len(W.todo) \in 1..Len(J.todo)
         /\ W.todo \in Seq(Events) /\ W.todo # <<>>
         /\ Head(W.todo) \in Events
         /\ Head(W.todo) = J.todo[(Len(J.todo) - Len(W.todo)) + 1]
         /\ Head(W.todo).k = "out" <=> Len(W.todo) # 1
<1>1. IsRun(J.todo) /\ J.todo \in Seq(Events) /\ Len(W.todo) \in 1..Len(J.todo)
  BY JobParts, Zenon DEF Good, Working, IsRun
<1>2. W.todo \in Seq(Events)
  BY JobParts DEF IsWorker
<1>3. Len(J.todo) \in Nat /\ Len(W.todo) \in Nat
  BY <1>1, <1>2, LenProperties
<1>4. W.todo # <<>>
  BY <1>1, <1>3
<1>5. Head(W.todo) \in Events /\ Head(W.todo) = W.todo[1]
  BY <1>2, <1>4, HeadTailProperties, SMTT(30)
<1>6. W.todo[1] = J.todo[(Len(J.todo) - Len(W.todo)) + 1]
  <2>1. 1 \in 1..Len(W.todo)
    BY <1>1, <1>3
  <2>2. \A n \in 1..Len(W.todo) : W.todo[n] = J.todo[(Len(J.todo) - Len(W.todo)) + n]
    BY Zenon DEF Good, Working
  <2> QED
    BY <2>1, <2>2, Zenon
<1>7. J.todo[(Len(J.todo) - Len(W.todo)) + 1].k = "out" <=> Len(W.todo) # 1
  <2> DEFINE p == (Len(J.todo) - Len(W.todo)) + 1
  <2>1. p \in 1..Len(J.todo) /\ (p < Len(J.todo) <=> Len(W.todo) # 1)
    BY <1>1, <1>3, FirstOfLast, Zenon
  <2>2. \A n \in 1..Len(J.todo) : J.todo[n].k = "out" <=> n < Len(J.todo)
    BY <1>1 DEF IsRun
  <2> HIDE DEF p
  <2>3. J.todo[p].k = "out" <=> Len(W.todo) # 1
    BY <2>1, <2>2
  <2> QED
    BY <2>3, Zenon DEF p
<1> QED
  BY <1>1, <1>2, <1>3, <1>4, <1>5, <1>6, <1>7, Zenon

\* A thread that sends nothing and goes on to nothing of its run: it may keep
\* its place, report an error or a status of its own once the run is over, or
\* report the deadline's.
LEMMA QuietGood ==
  ASSUME NEW J, NEW W, NEW C, NEW l, Good(J, W, C, l), W.pc # "none",
         NEW V, WorkerRecord(V), V.todo = W.todo, V.code \in Nat,
         V.pc \in {"begin", "run", "error", "result", "exiting", "exited"},
         W.panicked => V.panicked,
         J.pc \notin {"done", "dropped"} =>
            /\ V.pc \in {"begin", "run"} => W.pc \in {"begin", "run"}
            /\ V.pc = "error" => Len(W.todo) = 1
            /\ V.pc = "result" => V.code = 124 \/ Len(W.todo) = 1
            /\ W.pc \in {"exiting", "exited"} => V.pc \in {"exiting", "exited"}
            /\ (V.pc \in {"exiting", "exited"} /\ ~V.panicked /\ l # "late") =>
                   W.pc \in {"exiting", "exited"} /\ ~W.panicked
  PROVE  Good(J, V, C, l)
<1>1. IsWorker(V) /\ V.pc # "none"
  BY RunParts, Zenon DEF IsWorker
<1>2. Working(J.todo, V)
  BY Zenon DEF Good, Working
<1>3. ASSUME J.pc \notin {"done", "dropped"}
      PROVE  Flows(J.todo, V, Stream(J, C), l)
  <2> DEFINE M == Stream(J, C)
  <2>1. Flows(J.todo, W, M, l)
    BY <1>3 DEF Good, Flowing
  <2> HIDE DEF M
  <2>2. Len(W.todo) = 1 => Len(J.todo) - Len(W.todo) = Len(J.todo) - 1
    OBVIOUS
  <2>3. Flows(J.todo, V, M, l)
    <3> DEFINE s == Len(J.todo) - Len(W.todo)
               whole == s = Len(J.todo) - 1
    <3>1. /\ s <= Len(M)
          /\ \A n \in 1..s : M[n] = J.todo[n]
          /\ \A n \in 1..Len(M) : M[n].k = "out" => n <= s
      BY <2>1, SMTT(30) DEF Flows
    <3>2. V.pc \in {"begin", "run"} => Len(M) = s
      BY <1>3, <2>1 DEF Flows
    <3>3. (V.pc = "error" => whole) /\ (V.pc = "result" => V.code = 124 \/ whole)
      BY <1>3, <2>2, Zenon
    <3>4. \A n \in 1..Len(M) : M[n].k = "done" => n = Len(M) /\ W.pc \in {"exiting", "exited"} /\ (M[n].code = 124 \/ whole)
      BY <2>1, Zenon DEF Flows
    <3>5. (W.pc \in {"exiting", "exited"} /\ ~W.panicked /\ l # "late") => Len(M) # 0 /\ M[Len(M)].k = "done"
      BY <2>1 DEF Flows
    <3> HIDE DEF s, whole
    <3>6. \A n \in 1..Len(M) : M[n].k = "done" => n = Len(M) /\ V.pc \in {"exiting", "exited"} /\ (M[n].code = 124 \/ whole)
      BY <1>3, <3>4, SMTT(30)
    <3>7. (V.pc \in {"exiting", "exited"} /\ ~V.panicked /\ l # "late") => Len(M) # 0 /\ M[Len(M)].k = "done"
      BY <1>3, <3>5, SMTT(30)
    <3> QED
      BY <3>1, <3>2, <3>3, <3>6, <3>7, Zenon DEF Flows, s, whole
  <2> QED
    BY <2>3 DEF M
<1>4. C \in Seq(Messages)
  BY JobParts
<1> QED
  BY <1>1, <1>2, <1>3, <1>4, WorkerGood, SMTT(30)

\* A message is sent: it goes to the end of the stream.
LEMMA SendExtends ==
  ASSUME NEW J, NEW W, NEW C, NEW l, Good(J, W, C, l), NEW m \in Messages
  PROVE  /\ Append(C, m) \in Seq(Messages)
         /\ Stream(J, C) \in Seq(Messages) /\ Len(Stream(J, C)) \in Nat
         /\ Len(Stream(J, Append(C, m))) = Len(Stream(J, C)) + 1
         /\ \A n \in 1..Len(Stream(J, C)) : Stream(J, Append(C, m))[n] = Stream(J, C)[n]
         /\ Stream(J, Append(C, m))[Len(Stream(J, C)) + 1] = m
<1> DEFINE a == J.written \o J.held
<1>1. C \in Seq(Messages) /\ J.written \in Seq(Messages) /\ J.held \in Seq(Messages)
  BY JobParts
<1>2. a \in Seq(Messages)
  BY <1>1, ConcatProperties
<1> HIDE DEF a
<1>3. <<m>> \in Seq(Messages) /\ Len(<<m>>) = 1 /\ <<m>>[1] = m
  OBVIOUS
<1>4. Append(C, m) \in Seq(Messages) /\ Append(C, m) = C \o <<m>>
  BY <1>1, AppendIsConcat, AppendProperties, SMTT(30)
<1>5. a \o (C \o <<m>>) = (a \o C) \o <<m>>
  BY <1>1, <1>2, <1>3, ConcatAssociative, SMTT(30)
<1> DEFINE t == a \o C
<1>6. t \in Seq(Messages) /\ Len(t) \in Nat
  BY <1>1, <1>2, ConcatProperties, LenProperties
<1> HIDE DEF t
<1>7. /\ Len(t \o <<m>>) = Len(t) + 1
      /\ \A n \in 1..Len(t) : (t \o <<m>>)[n] = t[n]
      /\ (t \o <<m>>)[Len(t) + 1] = m
  <2>1. 1 \in 1..Len(<<m>>)
    BY <1>3
  <2>2. /\ Len(t \o <<m>>) = Len(t) + Len(<<m>>)
        /\ \A n \in 1..Len(t) : (t \o <<m>>)[n] = t[n]
        /\ \A n \in 1..Len(<<m>>) : (t \o <<m>>)[Len(t) + n] = <<m>>[n]
    BY <1>3, <1>6, Joined, SMTT(30)
  <2> QED
    BY <1>3, <2>1, <2>2
<1>8. Stream(J, C) = t /\ Stream(J, Append(C, m)) = t \o <<m>>
  BY <1>4, <1>5, Zenon DEF Stream, a, t
<1> QED
  BY <1>4, <1>6, <1>7, <1>8, SMTT(30)

\* What a thread has to send is a message.
LEMMA MessageOf ==
  ASSUME NEW J, NEW W, NEW C, NEW l, Good(J, W, C, l), W.pc # "none"
  PROVE  /\ Message(W) \in Messages
         /\ W.pc = "result" => Message(W).k = "done" /\ Message(W).code = W.code
         /\ (W.pc = "run" /\ Head(W.todo).k = "out") => Message(W) = Head(W.todo) /\ Message(W).k = "out"
         /\ (W.pc = "error" \/ (W.pc = "run" /\ Head(W.todo).k # "out")) => Message(W).k = "err"
<1>1. W.code \in Nat
  BY JobParts DEF IsWorker
<1>2. Head(W.todo) \in Events
  BY RunParts, Zenon
<1>3. Head(W.todo).k = "out" => Head(W.todo) \in Outs
  BY <1>2 DEF Events
<1>4. [k |-> "err"] \in Messages /\ [k |-> "done", code |-> W.code] \in Messages
  BY <1>1 DEF Messages
<1>5. Outs \subseteq Messages
  BY DEF Messages
<1> QED
  BY <1>3, <1>4, <1>5 DEF Message

\* A thread that sends something other than a value of its run.
LEMMA NoteGood ==
  ASSUME NEW J, NEW W, NEW C, NEW l, Good(J, W, C, l), W.pc # "none", J.pc \notin {"done", "dropped"},
         W.pc \notin {"exiting", "exited"},
         NEW m \in Messages,
         NEW V, WorkerRecord(V), V.todo = W.todo, V.code \in Nat, V.panicked = W.panicked,
         \/ /\ m.k = "err" /\ V.pc = "result" /\ Len(W.todo) = 1
         \/ /\ m.k = "done" /\ V.pc = "exiting"
            /\ m.code = 124 \/ Len(W.todo) = 1
  PROVE  Good(J, V, Append(C, m), l)
<1> DEFINE M == Stream(J, C)
           N == Stream(J, Append(C, m))
           s == Len(J.todo) - Len(W.todo)
           whole == s = Len(J.todo) - 1
<1>1. /\ Append(C, m) \in Seq(Messages) /\ Len(M) \in Nat /\ Len(N) = Len(M) + 1
      /\ \A n \in 1..Len(M) : N[n] = M[n]
      /\ N[Len(M) + 1] = m
  BY SendExtends
<1>2. Flows(J.todo, W, M, l)
  BY SMTT(30) DEF Good, Flowing
<1>3. IsWorker(V) /\ V.pc # "none" /\ Working(J.todo, V)
  BY RunParts, Zenon DEF IsWorker, Good, Working
<1>4. s \in Nat /\ s <= Len(J.todo) - 1
  <2>1. Len(J.todo) \in Nat /\ Len(W.todo) \in 1..Len(J.todo)
    BY RunParts, Zenon
  <2> QED
    BY <2>1
<1>5. Len(W.todo) = 1 => whole
  OBVIOUS
<1>6. /\ s <= Len(M)
      /\ \A n \in 1..s : M[n] = J.todo[n]
      /\ \A n \in 1..Len(M) : M[n].k = "out" => n <= s
      /\ \A n \in 1..Len(M) : M[n].k # "done"
  BY <1>2, Zenon DEF Flows
<1> HIDE DEF M, N, s, whole
<1>7. \A n \in 1..Len(N) : n \in 1..Len(M) \/ n = Len(M) + 1
  BY <1>1
<1>8. s <= Len(N) /\ \A n \in 1..s : N[n] = J.todo[n]
  <2>1. \A n \in 1..s : n \in 1..Len(M)
    BY <1>1, <1>4, <1>6, SMTT(30)
  <2> QED
    BY <1>1, <1>4, <1>6, <2>1, SMTT(30)
<1>9. \A n \in 1..Len(N) : N[n].k = "out" => n <= s
  <2>1. m.k # "out"
    OBVIOUS
  <2> QED
    BY <1>1, <1>6, <1>7, <2>1, SMTT(30)
<1>10. \A n \in 1..Len(N) : N[n].k = "done" => n = Len(N) /\ V.pc = "exiting" /\ (N[n].code = 124 \/ whole)
  BY <1>1, <1>5, <1>6, <1>7, SMTT(30)
<1>11. V.pc = "exiting" => Len(N) # 0 /\ N[Len(N)].k = "done"
  BY <1>1
<1>12. V.pc \in {"result", "exiting"} /\ (V.pc = "result" => whole)
  BY <1>5
<1>13. Flows(J.todo, V, N, l)
  <2>1. V.pc \notin {"begin", "run", "error", "exited"}
    BY <1>12
  <2>2. \A n \in 1..Len(N) : N[n].k = "done" =>
           n = Len(N) /\ V.pc \in {"exiting", "exited"} /\ (N[n].code = 124 \/ whole)
    BY <1>10
  <2>3. (V.pc \in {"exiting", "exited"} /\ ~V.panicked /\ l # "late") => Len(N) # 0 /\ N[Len(N)].k = "done"
    BY <1>11, <2>1
  <2> QED
    BY <1>8, <1>9, <1>12, <2>1, <2>2, <2>3, Zenon DEF Flows, s, whole
<1> QED
  BY <1>1, <1>3, <1>13, WorkerGood, ZenonT(30) DEF N

\* A thread sends the next value of its run.
LEMMA ValueGood ==
  ASSUME NEW J, NEW W, NEW C, NEW l, Good(J, W, C, l), W.pc = "run", J.pc \notin {"done", "dropped"},
         Head(W.todo).k = "out",
         NEW V, WorkerRecord(V), V.pc = "run", V.todo = Tail(W.todo), V.code = W.code, V.panicked = W.panicked
  PROVE  Good(J, V, Append(C, Head(W.todo)), l)
<1> DEFINE m == Head(W.todo)
           M == Stream(J, C)
           N == Stream(J, Append(C, m))
           s == Len(J.todo) - Len(W.todo)
           t == Len(J.todo) - Len(V.todo)
<1>1. m \in Messages
  BY MessageOf
<1>2. /\ Append(C, m) \in Seq(Messages) /\ Len(M) \in Nat /\ Len(N) = Len(M) + 1
      /\ \A n \in 1..Len(M) : N[n] = M[n]
      /\ N[Len(M) + 1] = m
  <2> HIDE DEF m
  <2> QED
    BY <1>1, SendExtends, SMTT(30)
<1>3. /\ W.todo \in Seq(Events) /\ W.todo # <<>> /\ Len(J.todo) \in Nat
      /\ Len(W.todo) \in 1..Len(J.todo) /\ Len(W.todo) # 1
      /\ m = J.todo[s + 1]
  BY RunParts, Zenon
<1>4. /\ V.todo \in Seq(Events) /\ Len(V.todo) = Len(W.todo) - 1
      /\ \A n \in 1..Len(V.todo) : V.todo[n] = W.todo[n + 1]
  <2>1. /\ Tail(W.todo) \in Seq(Events) /\ Len(Tail(W.todo)) = Len(W.todo) - 1
        /\ \A i \in 1 .. Len(Tail(W.todo)) : Tail(W.todo)[i] = W.todo[i + 1]
    BY <1>3, HeadTailProperties
  <2> QED
    BY <2>1
<1>5. /\ s \in Nat /\ t = s + 1 /\ Len(V.todo) \in 1..Len(J.todo)
      /\ \A n \in 1..Len(V.todo) : n + 1 \in 1..Len(W.todo) /\ s + (n + 1) = t + n
  <2> DEFINE a == Len(J.todo)
             b == Len(W.todo)
             c == Len(V.todo)
  <2>1. a \in Nat /\ b \in 1..a /\ b # 1 /\ c = b - 1
    BY <1>3, <1>4
  <2> HIDE DEF a, b, c
  <2>2. a - b \in Nat /\ a - c = (a - b) + 1 /\ c \in 1..a
    BY <2>1
  <2>3. \A n \in 1..c : n + 1 \in 1..b /\ (a - b) + (n + 1) = (a - c) + n
    BY <2>1
  <2> QED
    BY <2>2, <2>3, Zenon DEF a, b, c
<1>6. Working(J.todo, V)
  <2>1. \A n \in 1..Len(W.todo) : W.todo[n] = J.todo[s + n]
    BY Zenon DEF Good, Working
  <2>2. ASSUME NEW n \in 1..Len(V.todo)
        PROVE  V.todo[n] = J.todo[t + n]
    <3>1. n + 1 \in 1..Len(W.todo) /\ s + (n + 1) = t + n
      BY <1>5, Zenon
    <3>2. V.todo[n] = W.todo[n + 1]
      BY <1>4
    <3>3. W.todo[n + 1] = J.todo[s + (n + 1)]
      BY <2>1, <3>1, Zenon
    <3>4. J.todo[s + (n + 1)] = J.todo[t + n]
      BY <3>1, Zenon
    <3> HIDE DEF s, t
    <3> QED
      BY <3>2, <3>3, <3>4, Zenon
  <2>3. J.todo # <<>>
    BY <1>3
  <2> QED
    BY <1>5, <2>2, <2>3, Zenon DEF Working
<1>7. IsWorker(V)
  <2>1. W.code \in Nat
    BY JobParts, SMTT(30) DEF IsWorker
  <2> QED
    BY <1>4, <2>1 DEF IsWorker
<1>8. /\ Len(M) = s
      /\ \A n \in 1..s : M[n] = J.todo[n]
      /\ \A n \in 1..Len(M) : M[n].k # "done"
  BY DEF Good, Flowing, Flows
<1>9. m.k # "done"
  OBVIOUS
<1> HIDE DEF m, M, N, s, t
<1>10. \A n \in 1..Len(N) : n \in 1..s \/ n = s + 1
  BY <1>2, <1>5, <1>8
<1>11. Len(N) = t /\ \A n \in 1..t : N[n] = J.todo[n]
  <2>1. Len(N) = t
    BY <1>2, <1>5, <1>8
  <2>2. \A n \in 1..s : N[n] = J.todo[n]
    BY <1>2, <1>8
  <2>3. N[s + 1] = J.todo[s + 1]
    BY <1>2, <1>3, <1>8
  <2> QED
    BY <1>10, <2>1, <2>2, <2>3
<1>12. \A n \in 1..Len(N) : N[n].k # "done" /\ n <= t
  <2>1. \A n \in 1..s : N[n].k # "done"
    BY <1>2, <1>8
  <2>2. N[s + 1].k # "done"
    BY <1>2, <1>8, <1>9
  <2>3. \A n \in 1..Len(N) : n <= t
    BY <1>5, <1>11
  <2> QED
    BY <1>10, <2>1, <2>2, <2>3, SMTT(30)
<1>13. t <= Len(N)
  BY <1>5, <1>11
<1>14. Flows(J.todo, V, N, l)
  <2>1. V.pc \notin {"error", "result", "exiting", "exited"}
    BY SMTT(30)
  <2> QED
    BY <1>11, <1>12, <1>13, <2>1, Zenon DEF Flows, t
<1>15. Good(J, V, Append(C, m), l)
  BY <1>2, <1>6, <1>7, <1>14, WorkerGood, Zenon DEF N
<1> QED
  BY <1>15 DEF m

\* The records a thread's steps make.
LEMMA ResultIs ==
  ASSUME NEW W, WorkerRecord(W), NEW code
  PROVE  /\ WorkerIs(Result(W, code, FALSE), "result", W.todo, code, FALSE, W.panicked)
         /\ WorkerIs(Result(W, code, TRUE), "error", W.todo, code, FALSE, W.panicked)
<1>1. /\ Result(W, code, FALSE) = [W EXCEPT !.pc = "result", !.code = code, !.blocked = FALSE]
      /\ Result(W, code, TRUE) = [W EXCEPT !.pc = "error", !.code = code, !.blocked = FALSE]
  BY DEF Result
<1>2. /\ WorkerIs([W EXCEPT !.pc = "result", !.code = code, !.blocked = FALSE],
                  "result", W.todo, code, FALSE, W.panicked)
      /\ WorkerIs([W EXCEPT !.pc = "error", !.code = code, !.blocked = FALSE],
                  "error", W.todo, code, FALSE, W.panicked)
  BY WorkerFields, Zenon
<1> QED
  BY <1>1, <1>2, Zenon

\* What a thread does after a send.
LEMMA SendEndsIs ==
  ASSUME NEW W, NEW outcome \in {"sent", "closed", "trapped"}
  PROVE  /\ W.pc = "error" => SendEnds(W, outcome) = [W EXCEPT !.pc = "result", !.blocked = FALSE]
         /\ W.pc = "result" => SendEnds(W, outcome) = [W EXCEPT !.pc = "exiting", !.blocked = FALSE]
         /\ (W.pc = "run" /\ outcome = "trapped") => SendEnds(W, outcome) = Result(W, 124, FALSE)
         /\ (W.pc = "run" /\ outcome # "trapped" /\ Head(W.todo).k = "fails") =>
               SendEnds(W, outcome) = Result(W, Head(W.todo).code, FALSE)
         /\ (W.pc = "run" /\ outcome = "sent" /\ Head(W.todo).k = "out") =>
               SendEnds(W, outcome) = [W EXCEPT !.todo = Tail(W.todo), !.blocked = FALSE]
         /\ (W.pc = "run" /\ outcome = "closed" /\ Head(W.todo).k = "out") =>
               SendEnds(W, outcome) = Result(W, 1, FALSE)
<1> DEFINE k == Head(W.todo).k
           pc == W.pc
<1>1. pc = "error" => SendEnds(W, outcome) = [W EXCEPT !.pc = "result", !.blocked = FALSE]
  BY DEF SendEnds
<1>2. pc = "result" => SendEnds(W, outcome) = [W EXCEPT !.pc = "exiting", !.blocked = FALSE]
  BY DEF SendEnds
<1>3. (pc = "run" /\ outcome = "trapped") => SendEnds(W, outcome) = Result(W, 124, FALSE)
  BY DEF SendEnds
<1>4. (pc = "run" /\ outcome # "trapped" /\ k = "fails") =>
         SendEnds(W, outcome) = Result(W, Head(W.todo).code, FALSE)
  BY Zenon DEF SendEnds
<1>5. (pc = "run" /\ outcome = "sent" /\ k = "out") =>
         SendEnds(W, outcome) = [W EXCEPT !.todo = Tail(W.todo), !.blocked = FALSE]
  BY DEF SendEnds
<1>6. (pc = "run" /\ outcome = "closed" /\ k = "out") => SendEnds(W, outcome) = Result(W, 1, FALSE)
  BY Zenon DEF SendEnds
<1> QED
  BY <1>1, <1>2, <1>3, <1>4, <1>5, <1>6, Zenon

-----------------------------------------------------------------------------
(***************************************************************************)
(* The invariant is preserved.                                             *)
(***************************************************************************)

\* A step concerns one command, its thread and their channel.
LEMMA Framed ==
  ASSUME JqInv, NEW j \in Jobs, NEW J, NEW W, NEW C,
         job' = [job EXCEPT ![j] = J], worker' = [worker EXCEPT ![j] = W], chan' = [chan EXCEPT ![j] = C],
         UNCHANGED late, Good(J, W, C, Clock(j))
  PROVE  JqInv'
<1>1. /\ job = [i \in Jobs |-> job[i]] /\ worker = [i \in Jobs |-> worker[i]] /\ chan = [i \in Jobs |-> chan[i]]
      /\ \A i \in Jobs : Good(job[i], worker[i], chan[i], Clock(i))
  BY DEF JqInv
<1>2. /\ job' = [i \in Jobs |-> job'[i]] /\ worker' = [i \in Jobs |-> worker'[i]]
      /\ chan' = [i \in Jobs |-> chan'[i]]
  BY <1>1, Zenon
<1>3. /\ job'[j] = J /\ worker'[j] = W /\ chan'[j] = C
      /\ \A i \in Jobs : i # j => job'[i] = job[i] /\ worker'[i] = worker[i] /\ chan'[i] = chan[i]
  BY <1>1
<1>4. \A i : Clock(i)' = Clock(i)
  BY DEF Clock
<1>5. \A i \in Jobs : Good(job'[i], worker'[i], chan'[i], Clock(i)')
  BY <1>1, <1>3, <1>4, Zenon
<1> QED
  BY <1>2, <1>5 DEF JqInv

\* What stays as it is, as an update.
LEMMA Kept ==
  ASSUME JqInv, NEW j \in Jobs
  PROVE  /\ job = [job EXCEPT ![j] = job[j]]
         /\ worker = [worker EXCEPT ![j] = worker[j]]
         /\ chan = [chan EXCEPT ![j] = chan[j]]
  BY Zenon DEF JqInv

\* The command's part of the step, with the thread as it is.
LEMMA JobFramed ==
  ASSUME JqInv, NEW j \in Jobs, NEW J, NEW C,
         job' = [job EXCEPT ![j] = J], chan' = [chan EXCEPT ![j] = C], UNCHANGED <<worker, late>>,
         Good(J, worker[j], C, Clock(j))
  PROVE  JqInv'
<1>1. worker' = [worker EXCEPT ![j] = worker[j]]
  BY Kept
<1> QED
  BY <1>1, Framed, Zenon

\* The thread's part of the step, with the command as it is.
LEMMA WorkerFramed ==
  ASSUME JqInv, NEW j \in Jobs, NEW W, NEW C,
         worker' = [worker EXCEPT ![j] = W], chan' = [chan EXCEPT ![j] = C], UNCHANGED <<job, late>>,
         Good(job[j], W, C, Clock(j))
  PROVE  JqInv'
<1>1. job' = [job EXCEPT ![j] = job[j]]
  BY Kept
<1> QED
  BY <1>1, Framed, Zenon

\* A command that finishes for a reason that is not its run's.
LEMMA FinishInv ==
  ASSUME JqInv, NEW j \in Jobs, NEW code, NEW why, Finish(j, code, why),
         why \in {"timeout", "break"} \/ (why = "own" /\ job[j].todo = <<>>),
         UNCHANGED <<worker, chan, late>>
  PROVE  JqInv'
<1> DEFINE K == [job[j] EXCEPT !.pc = "done", !.code = code, !.why = why]
<1>1. Good(job[j], worker[j], chan[j], Clock(j))
  BY DEF JqInv
<1>2. JobIs(K, "done", job[j].line, job[j].todo, code, job[j].held, job[j].written, why)
  BY <1>1, JobParts, JobFields, Zenon
<1>3. job' = [job EXCEPT ![j] = K]
  BY Zenon DEF Finish
<1> HIDE DEF K
<1>4. Good(K, worker[j], chan[j], Clock(j))
  BY <1>1, <1>2, CloseGood
<1> QED
  BY <1>3, <1>4, Kept, JobFramed, ZenonT(30)

\* jq_cmd: the line and the inputs.
LEMMA ParseInv ==
  ASSUME JqInv, NEW j \in Jobs, Parse(j)
  PROVE  JqInv'
<1> DEFINE J == job[j]
           options == ParseJqArgs(J.line.args)
           read == ReadJqInputs(options, J.line.docs, InputLimit)
           todo == RunProgram(options, read.values)
           K == [J EXCEPT !.pc = "permit", !.todo = todo]
<1>1. Good(J, worker[j], chan[j], Clock(j)) /\ J.pc = "parse"
  BY SMTT(30) DEF JqInv, Parse
<1>2. J.todo = <<>> /\ IsLine(J.line)
  BY <1>1, JobParts, Zenon DEF Good, Placed
<1>3. CASE Finish(j, 2, "own")
  BY <1>2, <1>3, FinishInv, SMTT(30) DEF Parse
<1>4. CASE job' = [job EXCEPT ![j].pc = "permit", ![j].todo = todo]
  <2>1. IsRun(todo)
    <3>1. options \in Options(J.line.args)
      BY <1>2, Parsed DEF IsLine
    <3>2. options.files \in Seq({arg.k : arg \in Range(J.line.args)})
      BY <3>1 DEF Options
    <3> HIDE DEF options
    <3>3. read.values \in Seq(GuestValues)
      BY <1>2, <3>2, ReadsValues, Zenon DEF IsLine
    <3> HIDE DEF read
    <3> QED
      BY <3>3, ProgramRuns
  <2> HIDE DEF todo
  <2>2. Good(K, worker[j], chan[j], Clock(j))
    BY <1>1, <2>1, ParseGood, Zenon
  <2>3. job' = [job EXCEPT ![j] = K]
    BY <1>4, Zenon
  <2> HIDE DEF K, J
  <2> QED
    BY <2>2, <2>3, Kept, JobFramed, Zenon DEF Parse
<1> QED
  BY <1>3, <1>4 DEF Parse

\* jq_cmd: the permit.
LEMMA AcquireInv ==
  ASSUME JqInv, NEW j \in Jobs, Acquire(j)
  PROVE  JqInv'
<1> DEFINE K == [job[j] EXCEPT !.pc = "spawn"]
<1>1. Good(job[j], worker[j], chan[j], Clock(j)) /\ job[j].pc = "permit"
  BY DEF JqInv, Acquire
<1>2. Good(K, worker[j], chan[j], Clock(j))
  BY <1>1, AcquireGood
<1>3. job' = [job EXCEPT ![j] = K] /\ UNCHANGED <<worker, chan, late>>
  BY DEF Acquire
<1> HIDE DEF K
<1> QED
  BY <1>2, <1>3, Kept, JobFramed, Zenon

\* jq_cmd: the thread is started, unless the deadline has passed.
LEMMA SpawnInv ==
  ASSUME JqInv, NEW j \in Jobs, Spawn(j)
  PROVE  JqInv'
<1> DEFINE K == [job[j] EXCEPT !.pc = "receive"]
           V == [NoWorker EXCEPT !.pc = "begin", !.todo = job[j].todo]
<1>1. Good(job[j], worker[j], chan[j], Clock(j)) /\ job[j].pc = "spawn"
  BY DEF JqInv, Spawn
<1>2. CASE j \in late
  BY <1>2, FinishInv DEF Spawn
<1>3. CASE j \notin late
  <2>1. Good(K, V, chan[j], Clock(j))
    BY <1>1, SpawnGood, Zenon
  <2>2. job' = [job EXCEPT ![j] = K] /\ worker' = [worker EXCEPT ![j] = V] /\ UNCHANGED <<chan, late>>
    BY <1>3 DEF Spawn
  <2> HIDE DEF K, V
  <2>3. chan' = [chan EXCEPT ![j] = chan[j]]
    BY <2>2, Kept
  <2> QED
    BY <2>1, <2>2, <2>3, Framed, Zenon
<1> QED
  BY <1>2, <1>3

\* jq_cmd: the thread cannot be started.
LEMMA SpawnFailsInv ==
  ASSUME JqInv, NEW j \in Jobs, SpawnFails(j)
  PROVE  JqInv'
  BY FinishInv DEF SpawnFails

\* jq_cmd: a message of the thread, or its status.
LEMMA ReceiveInv ==
  ASSUME JqInv, NEW j \in Jobs, Receive(j)
  PROVE  JqInv'
<1> DEFINE m == Head(chan[j])
<1>1. Good(job[j], worker[j], chan[j], Clock(j)) /\ job[j].pc = "receive" /\ chan[j] # <<>>
  BY DEF JqInv, Receive
<1>2. chan' = [chan EXCEPT ![j] = Tail(chan[j])] /\ UNCHANGED <<worker, late>>
  BY DEF Receive
<1>3. CASE m.k = "done"
  <2> DEFINE K == [job[j] EXCEPT !.pc = "done", !.code = m.code, !.why = "own"]
  <2>1. Good(K, worker[j], Tail(chan[j]), Clock(j))
    BY <1>1, <1>3, StatusGood, Zenon
  <2>2. job' = [job EXCEPT ![j] = K]
    BY <1>3, Zenon DEF Receive, Finish
  <2> HIDE DEF K
  <2> QED
    BY <1>2, <2>1, <2>2, JobFramed, Zenon
<1>4. CASE m.k # "done"
  <2> DEFINE K == [job[j] EXCEPT !.pc = "write", !.held = <<m>>]
  <2>1. Good(K, worker[j], Tail(chan[j]), Clock(j))
    BY <1>1, <1>4, ReceiveGood, Zenon
  <2>2. job' = [job EXCEPT ![j] = K]
    BY <1>4, Zenon DEF Receive
  <2> HIDE DEF K
  <2> QED
    BY <1>2, <2>1, <2>2, JobFramed, Zenon
<1> QED
  BY <1>3, <1>4

\* jq_cmd: a message is written.
LEMMA WriteOutInv ==
  ASSUME JqInv, NEW j \in Jobs, WriteOut(j)
  PROVE  JqInv'
<1> DEFINE J == job[j]
           K == [J EXCEPT !.pc = "receive", !.held = <<>>, !.written = J.written \o J.held]
<1>1. Good(J, worker[j], chan[j], Clock(j)) /\ J.pc = "write"
  BY DEF JqInv, WriteOut
<1>2. Good(K, worker[j], chan[j], Clock(j))
  BY <1>1, WriteGood, Zenon
<1>3. job' = [job EXCEPT ![j] = K] /\ UNCHANGED <<worker, chan, late>>
  BY Zenon DEF WriteOut
<1> HIDE DEF K, J
<1> QED
  BY <1>2, <1>3, Kept, JobFramed, Zenon

\* jq_cmd: the output is closed or full.
LEMMA OutputBreaksInv ==
  ASSUME JqInv, NEW j \in Jobs, OutputBreaks(j)
  PROVE  JqInv'
<1>1. PICK code \in {1, 5} : Finish(j, code, "break")
  BY DEF OutputBreaks
<1> QED
  BY <1>1, FinishInv DEF OutputBreaks

\* jq_cmd: the channel is closed without a status.
LEMMA SilenceInv ==
  ASSUME JqInv, NEW j \in Jobs, Silence(j)
  PROVE  JqInv'
<1> DEFINE K == [job[j] EXCEPT !.pc = "done", !.code = 1, !.why = "silence"]
<1>1. /\ Good(job[j], worker[j], chan[j], Clock(j)) /\ job[j].pc = "receive"
      /\ chan[j] = <<>> /\ worker[j].pc = "exited"
  BY DEF JqInv, Silence
<1>2. CASE j \in late
  BY <1>2, FinishInv, SMTT(30) DEF Silence
<1>3. CASE j \notin late
  <2>1. Clock(j) # "late"
    BY <1>3, SMTT(30) DEF Clock
  <2>2. Good(K, worker[j], chan[j], Clock(j))
    BY <1>1, <2>1, SilenceGood, Zenon
  <2>3. job' = [job EXCEPT ![j] = K] /\ UNCHANGED <<worker, chan, late>>
    BY <1>3, Zenon DEF Silence, Finish
  <2> HIDE DEF K
  <2> QED
    BY <2>2, <2>3, Kept, JobFramed, Zenon
<1> QED
  BY <1>2, <1>3

\* The execution drops the command.
LEMMA DropJobInv ==
  ASSUME JqInv, NEW j \in Jobs, DropJob(j)
  PROVE  JqInv'
<1> DEFINE J == job[j]
           K == [J EXCEPT !.pc = "dropped"]
<1>1. Good(J, worker[j], chan[j], Clock(j)) /\ J.pc \notin {"done", "dropped"}
  BY SMTT(30) DEF JqInv, DropJob, Over
<1>2. J.why = "own"
  BY <1>1, SMTT(30) DEF Good, Placed
<1>3. JobIs(K, "dropped", J.line, J.todo, J.code, J.held, J.written, J.why)
  BY <1>1, JobParts, JobFields, Zenon
<1>4. job' = [job EXCEPT ![j] = K] /\ UNCHANGED <<worker, chan, late>>
  BY SMTT(30) DEF DropJob
<1> HIDE DEF K, J
<1>5. Good(K, worker[j], chan[j], Clock(j))
  BY <1>1, <1>2, <1>3, CloseGood, SMTT(30)
<1> QED
  BY <1>4, <1>5, Kept, JobFramed, Zenon

\* The deadline passes.
LEMMA ExpireInv ==
  ASSUME JqInv, NEW j \in Jobs, Expire(j)
  PROVE  JqInv'
<1>1. \A i : Clock(i)' = Clock(i) \/ Clock(i)' = "late"
  BY DEF Expire, Clock
<1>2. ASSUME NEW J, NEW W, NEW C, NEW l, Good(J, W, C, l)
      PROVE  Good(J, W, C, "late")
  <2>1. \A M : Flows(J.todo, W, M, l) => Flows(J.todo, W, M, "late")
    BY Zenon DEF Flows
  <2>2. Flowing(J, W, C, "late")
    BY <1>2, <2>1 DEF Good, Flowing
  <2> QED
    BY <1>2, <2>2, SMTT(30) DEF Good
<1>3. \A i \in Jobs : Good(job[i], worker[i], chan[i], Clock(i)')
  BY <1>1, <1>2 DEF JqInv
<1>4. UNCHANGED <<job, worker, chan>>
  BY DEF Expire
<1> QED
  BY <1>3, <1>4 DEF JqInv

\* A thread's step that sends nothing.
LEMMA QuietInv ==
  ASSUME JqInv, NEW j \in Jobs, worker[j].pc # "none", NEW V,
         worker' = [worker EXCEPT ![j] = V], UNCHANGED <<job, chan, late>>,
         WorkerRecord(V), V.todo = worker[j].todo, V.code \in Nat,
         V.pc \in {"begin", "run", "error", "result", "exiting", "exited"},
         worker[j].panicked => V.panicked,
         ~Over(j) =>
            /\ V.pc \in {"begin", "run"} => worker[j].pc \in {"begin", "run"}
            /\ V.pc = "error" => Len(worker[j].todo) = 1
            /\ V.pc = "result" => V.code = 124 \/ Len(worker[j].todo) = 1
            /\ worker[j].pc \in {"exiting", "exited"} => V.pc \in {"exiting", "exited"}
            /\ (V.pc \in {"exiting", "exited"} /\ ~V.panicked /\ j \notin late) =>
                   worker[j].pc \in {"exiting", "exited"} /\ ~worker[j].panicked
  PROVE  JqInv'
<1> DEFINE W == worker[j]
           J == job[j]
<1>1. Good(J, W, chan[j], Clock(j))
  BY DEF JqInv
<1>2. J.pc \notin {"done", "dropped"} =>
            /\ V.pc \in {"begin", "run"} => W.pc \in {"begin", "run"}
            /\ V.pc = "error" => Len(W.todo) = 1
            /\ V.pc = "result" => V.code = 124 \/ Len(W.todo) = 1
            /\ W.pc \in {"exiting", "exited"} => V.pc \in {"exiting", "exited"}
            /\ (V.pc \in {"exiting", "exited"} /\ ~V.panicked /\ Clock(j) # "late") =>
                   W.pc \in {"exiting", "exited"} /\ ~W.panicked
  BY DEF Over, Clock
<1>3. /\ W.pc # "none" /\ V.todo = W.todo /\ (W.panicked => V.panicked)
  BY SMTT(30)
<1> HIDE DEF W, J
<1>4. Good(J, V, chan[j], Clock(j))
  BY <1>1, <1>2, <1>3, QuietGood, SMTT(30)
<1> QED
  BY <1>4, Kept, WorkerFramed, Zenon DEF J

\* The thread's record and where it is in its run.
LEMMA WorkerParts ==
  ASSUME JqInv, NEW j \in Jobs
  PROVE  /\ WorkerRecord(worker[j]) /\ worker[j].code \in Nat
         /\ worker[j].pc # "none" =>
               /\ Head(worker[j].todo) \in Events
               /\ Head(worker[j].todo).k = "out" <=> Len(worker[j].todo) # 1
<1>1. Good(job[j], worker[j], chan[j], Clock(j))
  BY SMTT(30) DEF JqInv
<1>2. WorkerRecord(worker[j]) /\ worker[j].code \in Nat
  BY <1>1, JobParts DEF IsWorker
<1>3. ASSUME worker[j].pc # "none"
      PROVE  /\ Head(worker[j].todo) \in Events
             /\ Head(worker[j].todo).k = "out" <=> Len(worker[j].todo) # 1
  <2> DEFINE W == worker[j]
  <2>1. W.pc # "none" /\ Good(job[j], W, chan[j], Clock(j))
    BY <1>1, <1>3, SMTT(30)
  <2> HIDE DEF W
  <2>2. Head(W.todo) \in Events /\ (Head(W.todo).k = "out" <=> Len(W.todo) # 1)
    BY <2>1, RunParts, Zenon
  <2> QED
    BY <2>2 DEF W
<1> QED
  BY <1>2, <1>3

\* A thread that goes on to its status, with a code of the deadline's or at
\* the end of its run, or after its command is gone.
LEMMA ResultInv ==
  ASSUME JqInv, NEW j \in Jobs, worker[j].pc \in {"begin", "run"}, NEW code \in Nat,
         ~Over(j) => code = 124 \/ Len(worker[j].todo) = 1,
         WorkerOnly(j, Result(worker[j], code, FALSE))
  PROVE  JqInv'
<1> DEFINE V == Result(worker[j], code, FALSE)
<1>1. WorkerIs(V, "result", worker[j].todo, code, FALSE, worker[j].panicked)
  BY WorkerParts, ResultIs, Zenon
<1>2. worker' = [worker EXCEPT ![j] = V] /\ UNCHANGED <<job, chan, late>>
  BY DEF WorkerOnly
<1> HIDE DEF V
<1> QED
  BY <1>1, <1>2, QuietInv, Zenon DEF WorkerIs

\* A thread whose guest failed goes on to its message.
LEMMA ErrorInv ==
  ASSUME JqInv, NEW j \in Jobs, worker[j].pc = "run", NEW code \in Nat,
         Len(worker[j].todo) = 1,
         WorkerOnly(j, Result(worker[j], code, TRUE))
  PROVE  JqInv'
<1> DEFINE V == Result(worker[j], code, TRUE)
<1>1. WorkerIs(V, "error", worker[j].todo, code, FALSE, worker[j].panicked)
  BY WorkerParts, ResultIs, Zenon
<1>2. worker' = [worker EXCEPT ![j] = V] /\ UNCHANGED <<job, chan, late>>
  BY DEF WorkerOnly
<1> HIDE DEF V
<1> QED
  BY <1>1, <1>2, QuietInv, Zenon DEF WorkerIs

\* run: the guest.
LEMMA BeginRunInv ==
  ASSUME JqInv, NEW j \in Jobs, BeginRun(j)
  PROVE  JqInv'
<1> DEFINE V == [worker[j] EXCEPT !.pc = "run"]
<1>1. worker[j].pc = "begin"
  BY DEF BeginRun, Is
<1>2. CASE WorkerOnly(j, Result(worker[j], 124, FALSE))
  BY <1>1, <1>2, ResultInv, Zenon
<1>3. CASE WorkerOnly(j, V)
  <2>1. WorkerIs(V, "run", worker[j].todo, worker[j].code, worker[j].blocked, worker[j].panicked)
    BY WorkerParts, WorkerFields, Zenon
  <2>2. worker' = [worker EXCEPT ![j] = V] /\ UNCHANGED <<job, chan, late>>
    BY <1>3 DEF WorkerOnly
  <2> HIDE DEF V
  <2> QED
    BY <1>1, <2>1, <2>2, WorkerParts, QuietInv, ZenonT(30) DEF WorkerIs
<1> QED
  BY <1>2, <1>3, Zenon DEF BeginRun

\* run_inner: the guest ends.
LEMMA GuestEndsInv ==
  ASSUME JqInv, NEW j \in Jobs, GuestEnds(j)
  PROVE  JqInv'
<1> DEFINE w == worker[j]
           event == Head(w.todo)
<1>1. w.pc = "run" /\ event.k \in {"end", "memory", "trap"}
  BY DEF GuestEnds, Is
<1>2. event \in Events /\ Len(w.todo) = 1
  BY <1>1, WorkerParts
<1>3. event.k = "end" => event.code \in Nat
  BY <1>2, SMTT(30) DEF Events, Outs
<1>4. \/ event.k = "end" /\ WorkerOnly(j, Result(w, event.code, FALSE))
      \/ WorkerOnly(j, Result(w, 124, FALSE))
      \/ WorkerOnly(j, Result(w, 5, TRUE))
  BY <1>1, Zenon DEF GuestEnds
<1>5. CASE event.k = "end" /\ WorkerOnly(j, Result(w, event.code, FALSE))
  <2> DEFINE code == event.code
  <2>1. code \in Nat /\ WorkerOnly(j, Result(w, code, FALSE))
    BY <1>3, <1>5, Zenon
  <2> HIDE DEF code
  <2> QED
    BY <1>1, <1>2, <2>1, ResultInv, Zenon
<1>6. CASE WorkerOnly(j, Result(w, 124, FALSE))
  BY <1>1, <1>6, ResultInv, ZenonT(30)
<1>7. CASE WorkerOnly(j, Result(w, 5, TRUE))
  BY <1>1, <1>2, <1>7, ErrorInv, Zenon
<1> QED
  BY <1>4, <1>5, <1>6, <1>7, ZenonT(30)

\* run_inner: the guest is interrupted.
LEMMA GuestInterruptedInv ==
  ASSUME JqInv, NEW j \in Jobs, GuestInterrupted(j)
  PROVE  JqInv'
  BY ResultInv, ZenonT(30) DEF GuestInterrupted, Is

\* A difference from a length.
LEMMA OneLeft ==
  ASSUME NEW a \in Nat, NEW b \in 1..a
  PROVE  a - b = a - 1 => b = 1
  OBVIOUS

\* Where a thread is that has something to send.
LEMMA SendingFrom ==
  ASSUME JqInv, NEW j \in Jobs, Sending(j)
  PROVE  /\ worker[j].pc \in {"error", "result", "run"}
         /\ worker[j].pc = "run" => Head(worker[j].todo).k \in {"out", "fails"}
         /\ Head(worker[j].todo).k = "fails" => Head(worker[j].todo).code \in Nat
<1>1. /\ worker[j].pc \in {"error", "result", "run"}
      /\ worker[j].pc = "run" => Head(worker[j].todo).k \in {"out", "fails"}
  BY DEF Sending, Is
<1>2. Head(worker[j].todo) \in Events
  BY <1>1, WorkerParts
<1>3. Head(worker[j].todo).k = "fails" => Head(worker[j].todo).code \in Nat
  BY <1>2 DEF Events, Outs
<1> QED
  BY <1>1, <1>3

\* send: a message goes into the channel.
LEMMA SendInv ==
  ASSUME JqInv, NEW j \in Jobs, Send(j)
  PROVE  JqInv'
<1> DEFINE W == worker[j]
           J == job[j]
           V == SendEnds(W, "sent")
           m == Message(W)
<1>1. Good(J, W, chan[j], Clock(j)) /\ J.pc \notin {"done", "dropped"}
  BY DEF JqInv, Send, Over
<1>2. /\ W.pc \in {"error", "result", "run"}
      /\ W.pc = "run" => Head(W.todo).k \in {"out", "fails"}
      /\ Head(W.todo).k = "fails" => Head(W.todo).code \in Nat
  BY SendingFrom DEF Send
<1>3. /\ WorkerRecord(W) /\ W.code \in Nat
      /\ Head(W.todo).k = "out" <=> Len(W.todo) # 1
  BY <1>2, WorkerParts
<1>4. /\ worker' = [worker EXCEPT ![j] = V] /\ chan' = [chan EXCEPT ![j] = Append(chan[j], m)]
      /\ UNCHANGED <<job, late>>
  BY SMTT(30) DEF Send
<1>5. Flows(J.todo, W, Stream(J, chan[j]), Clock(j))
  BY <1>1, <1>2, SMTT(30) DEF Good, Flowing
<1> HIDE DEF W, J
<1>6. /\ m \in Messages
      /\ W.pc = "result" => m.k = "done" /\ m.code = W.code
      /\ (W.pc = "run" /\ Head(W.todo).k = "out") => m = Head(W.todo)
      /\ (W.pc = "error" \/ (W.pc = "run" /\ Head(W.todo).k # "out")) => m.k = "err"
  BY <1>1, <1>2, MessageOf, SMTT(30)
<1>7. (W.pc = "error" => Len(W.todo) = 1) /\ (W.pc = "result" => W.code = 124 \/ Len(W.todo) = 1)
  <2>1. Len(J.todo) \in Nat /\ Len(W.todo) \in 1..Len(J.todo)
    BY <1>1, <1>2, RunParts, Zenon
  <2>2. Len(J.todo) - Len(W.todo) = Len(J.todo) - 1 => Len(W.todo) = 1
    BY <2>1, OneLeft, ZenonT(30)
  <2> QED
    BY <1>5, <2>2, Zenon DEF Flows
<1> HIDE DEF m
<1>8. Good(J, V, Append(chan[j], m), Clock(j))
  <2>1. CASE W.pc = "error"
    <3>1. V = [W EXCEPT !.pc = "result", !.blocked = FALSE]
      BY <2>1, SendEndsIs, Zenon
    <3>2. WorkerIs(V, "result", W.todo, W.code, FALSE, W.panicked)
      <4>1. WorkerIs([W EXCEPT !.pc = "result", !.blocked = FALSE], "result", W.todo, W.code, FALSE, W.panicked)
        BY <1>3, WorkerFields, Zenon
      <4> QED
        BY <3>1, <4>1, Zenon
    <3> HIDE DEF V
    <3> QED
      BY <1>1, <1>3, <1>6, <1>7, <2>1, <3>2, NoteGood, SMTT(30) DEF WorkerIs
  <2>2. CASE W.pc = "result"
    <3>1. V = [W EXCEPT !.pc = "exiting", !.blocked = FALSE]
      BY <2>2, SendEndsIs, Zenon
    <3>2. WorkerIs(V, "exiting", W.todo, W.code, FALSE, W.panicked)
      <4>1. WorkerIs([W EXCEPT !.pc = "exiting", !.blocked = FALSE], "exiting", W.todo, W.code, FALSE, W.panicked)
        BY <1>3, WorkerFields, Zenon
      <4> QED
        BY <3>1, <4>1, Zenon
    <3> HIDE DEF V
    <3> QED
      BY <1>1, <1>3, <1>6, <1>7, <2>2, <3>2, NoteGood, SMTT(30) DEF WorkerIs
  <2>3. CASE W.pc = "run" /\ Head(W.todo).k = "fails"
    <3>1. V = Result(W, Head(W.todo).code, FALSE)
      BY <2>3, SendEndsIs, ZenonT(30)
    <3>2. WorkerIs(V, "result", W.todo, Head(W.todo).code, FALSE, W.panicked)
      BY <1>3, <3>1, ResultIs, Zenon
    <3> HIDE DEF V
    <3> QED
      BY <1>1, <1>2, <1>3, <1>6, <2>3, <3>2, NoteGood, SMTT(30) DEF WorkerIs
  <2>4. CASE W.pc = "run" /\ Head(W.todo).k = "out"
    <3>1. V = [W EXCEPT !.todo = Tail(W.todo), !.blocked = FALSE]
      BY <2>4, SendEndsIs, Zenon
    <3>2. WorkerIs(V, "run", Tail(W.todo), W.code, FALSE, W.panicked)
      <4>1. WorkerIs([W EXCEPT !.todo = Tail(W.todo), !.blocked = FALSE], W.pc, Tail(W.todo), W.code, FALSE, W.panicked)
        BY <1>3, WorkerFields, Zenon
      <4> QED
        BY <2>4, <3>1, <4>1, Zenon
    <3> HIDE DEF V
    <3>3. Good(J, V, Append(chan[j], Head(W.todo)), Clock(j))
      BY <1>1, <2>4, <3>2, ValueGood, SMTT(30) DEF WorkerIs
    <3> QED
      BY <1>6, <2>4, <3>3
  <2> QED
    BY <1>2, <2>1, <2>2, <2>3, <2>4
<1> HIDE DEF V
<1> QED
  BY <1>4, <1>8, WorkerFramed, Zenon DEF J

\* send: the receiver is gone, or the wait is given up.
LEMMA UnsentInv ==
  ASSUME JqInv, NEW j \in Jobs, Sending(j), NEW outcome \in {"closed", "trapped"},
         outcome = "closed" => Over(j), outcome = "trapped" => Over(j) \/ j \in late,
         WorkerOnly(j, SendEnds(worker[j], outcome))
  PROVE  JqInv'
<1> DEFINE W == worker[j]
           V == SendEnds(W, outcome)
<1>1. /\ W.pc \in {"error", "result", "run"}
      /\ W.pc = "run" => Head(W.todo).k \in {"out", "fails"}
      /\ Head(W.todo).k = "fails" => Head(W.todo).code \in Nat
  BY SendingFrom
<1>2. WorkerRecord(W) /\ W.code \in Nat
  BY WorkerParts
<1>3. worker' = [worker EXCEPT ![j] = V] /\ UNCHANGED <<job, chan, late>>
  BY SMTT(30) DEF WorkerOnly
<1>4. CASE W.pc = "error"
  <2>1. V = [W EXCEPT !.pc = "result", !.blocked = FALSE]
    BY <1>4, SendEndsIs, ZenonT(30)
  <2>2. WorkerIs(V, "result", W.todo, W.code, FALSE, W.panicked)
    <3>1. WorkerIs([W EXCEPT !.pc = "result", !.blocked = FALSE], "result", W.todo, W.code, FALSE, W.panicked)
      BY <1>2, WorkerFields, ZenonT(30)
    <3> QED
      BY <2>1, <3>1, Zenon
  <2>3. ~Over(j) => Len(W.todo) = 1
    <3>1. Good(job[j], W, chan[j], Clock(j)) /\ W.pc # "none"
      BY <1>1, SMTT(30) DEF JqInv
    <3>2. ~Over(j) => Flows(job[j].todo, W, Stream(job[j], chan[j]), Clock(j))
      BY <3>1, SMTT(30) DEF Good, Flowing, Over
    <3>3. Len(job[j].todo) \in Nat /\ Len(W.todo) \in 1..Len(job[j].todo)
      <4> HIDE DEF W
      <4> QED
        BY <3>1, RunParts, Zenon
    <3>4. Len(job[j].todo) - Len(W.todo) = Len(job[j].todo) - 1 => Len(W.todo) = 1
      BY <3>3, OneLeft, Zenon
    <3> QED
      BY <1>4, <3>2, <3>4 DEF Flows
  <2> HIDE DEF V
  <2> QED
    BY <1>1, <1>2, <1>3, <1>4, <2>2, <2>3, QuietInv, Zenon DEF WorkerIs
<1>5. CASE W.pc = "result"
  <2>1. V = [W EXCEPT !.pc = "exiting", !.blocked = FALSE]
    BY <1>5, SendEndsIs, Zenon
  <2>2. WorkerIs(V, "exiting", W.todo, W.code, FALSE, W.panicked)
    <3>1. WorkerIs([W EXCEPT !.pc = "exiting", !.blocked = FALSE], "exiting", W.todo, W.code, FALSE, W.panicked)
      BY <1>2, WorkerFields, ZenonT(30)
    <3> QED
      BY <2>1, <3>1, Zenon
  <2> HIDE DEF V
  <2> QED
    BY <1>1, <1>2, <1>3, <1>5, <2>2, QuietInv, Zenon DEF WorkerIs
<1>6. CASE W.pc = "run"
  <2>1. PICK code \in Nat : V = Result(W, code, FALSE) /\ (code = 124 \/ Over(j))
    <3>1. CASE outcome = "trapped"
      BY <1>6, <3>1, SendEndsIs, ZenonT(30)
    <3>2. CASE outcome = "closed" /\ Head(W.todo).k = "fails"
      BY <1>1, <1>6, <3>2, SendEndsIs, ZenonT(30)
    <3>3. CASE outcome = "closed" /\ Head(W.todo).k = "out"
      BY <1>6, <3>3, SendEndsIs, ZenonT(30)
    <3> QED
      BY <1>1, <1>6, <3>1, <3>2, <3>3, Zenon
  <2>2. WorkerOnly(j, Result(W, code, FALSE))
    BY <2>1, Zenon
  <2> QED
    BY <1>6, <2>1, <2>2, ResultInv, Zenon
<1> QED
  BY <1>1, <1>4, <1>5, <1>6, SMTT(30)

\* send: the channel is full.
LEMMA WaitForRoomInv ==
  ASSUME JqInv, NEW j \in Jobs, WaitForRoom(j)
  PROVE  JqInv'
<1> DEFINE W == worker[j]
           V == [W EXCEPT !.blocked = TRUE]
<1>1. W.pc \in {"error", "result", "run"}
  BY SendingFrom DEF WaitForRoom
<1>2. WorkerIs(V, W.pc, W.todo, W.code, TRUE, W.panicked) /\ W.code \in Nat
  BY WorkerParts, WorkerFields, Zenon
<1>3. worker' = [worker EXCEPT ![j] = V] /\ UNCHANGED <<job, chan, late>>
  BY DEF WaitForRoom, WorkerOnly
<1>4. Good(job[j], W, chan[j], Clock(j)) /\ W.pc # "none"
  BY <1>1, SMTT(30) DEF JqInv
<1>5. ~Over(j) => (W.pc = "error" => Len(W.todo) = 1) /\ (W.pc = "result" => W.code = 124 \/ Len(W.todo) = 1)
  <2>1. ~Over(j) => Flows(job[j].todo, W, Stream(job[j], chan[j]), Clock(j))
    BY <1>4, ZenonT(30) DEF Good, Flowing, Over
  <2>2. Len(job[j].todo) \in Nat /\ Len(W.todo) \in 1..Len(job[j].todo)
    <3> HIDE DEF W
    <3> QED
      BY <1>4, RunParts, Zenon
  <2>3. Len(job[j].todo) - Len(W.todo) = Len(job[j].todo) - 1 => Len(W.todo) = 1
    BY <2>2, OneLeft, Zenon
  <2> QED
    BY <2>1, <2>3, ZenonT(30) DEF Flows
<1> HIDE DEF V
<1> QED
  BY <1>1, <1>2, <1>3, <1>5, QuietInv, Zenon DEF WorkerIs

\* The thread ends.
LEMMA ExitInv ==
  ASSUME JqInv, NEW j \in Jobs, Exit(j)
  PROVE  JqInv'
<1> DEFINE W == worker[j]
           V == [W EXCEPT !.pc = "exited"]
<1>1. W.pc = "exiting"
  BY DEF Exit, Is
<1>2. WorkerIs(V, "exited", W.todo, W.code, W.blocked, W.panicked) /\ W.code \in Nat
  BY WorkerParts, WorkerFields, Zenon
<1>3. worker' = [worker EXCEPT ![j] = V] /\ UNCHANGED <<job, chan, late>>
  BY DEF Exit
<1> HIDE DEF V
<1> QED
  BY <1>1, <1>2, <1>3, QuietInv, ZenonT(30) DEF WorkerIs

\* The thread panics.
LEMMA PanicInv ==
  ASSUME JqInv, NEW j \in Jobs, Panic(j)
  PROVE  JqInv'
<1> DEFINE W == worker[j]
           V == [W EXCEPT !.pc = "exited", !.panicked = TRUE]
<1>1. W.pc \in {"begin", "run"}
  BY DEF Panic
<1>2. WorkerIs(V, "exited", W.todo, W.code, W.blocked, TRUE) /\ W.code \in Nat
  BY WorkerParts, WorkerFields, Zenon
<1>3. worker' = [worker EXCEPT ![j] = V] /\ UNCHANGED <<job, chan, late>>
  BY Zenon DEF Panic
<1> HIDE DEF V
<1> QED
  BY <1>1, <1>2, <1>3, QuietInv, Zenon DEF WorkerIs

\* At the start every command has its line before it.
LEMMA StartInv ==
  ASSUME JqAssumption, JqInit
  PROVE  JqInv
<1>1. PICK line \in JobLines : job = [j \in Jobs |-> NewJob(line[j])]
  BY DEF JqInit
<1>2. worker = [j \in Jobs |-> NoWorker] /\ chan = [j \in Jobs |-> <<>>]
  BY DEF JqInit
<1>3. ASSUME NEW j \in Jobs
      PROVE  Good(job[j], worker[j], chan[j], Clock(j))
  <2>1. IsLine(line[j])
    BY DEF JqAssumption, IsLine
  <2>2. job[j] = NewJob(line[j]) /\ worker[j] = NoWorker /\ chan[j] = <<>>
    BY <1>1, <1>2
  <2>3. Good(NewJob(line[j]), NoWorker, <<>>, Clock(j))
    BY <2>1, StartGood
  <2> QED
    BY <2>2, <2>3, Zenon
<1>4. job = [j \in Jobs |-> job[j]] /\ worker = [j \in Jobs |-> worker[j]] /\ chan = [j \in Jobs |-> chan[j]]
  BY <1>1, <1>2
<1> QED
  BY <1>3, <1>4 DEF JqInv

\* Every step preserves the invariant.
LEMMA StepInv ==
  ASSUME JqInv, [JqNext]_jqVars
  PROVE  JqInv'
<1>1. CASE UNCHANGED jqVars
  <2>1. UNCHANGED <<job, worker, chan, late>>
    BY <1>1 DEF jqVars
  <2>2. \A j : Clock(j)' = Clock(j)
    BY <2>1 DEF Clock
  <2> QED
    BY <2>1, <2>2 DEF JqInv
<1>2. CASE JqEnd
  <2>1. UNCHANGED <<job, worker, chan, late>>
    BY <1>2 DEF JqEnd, jqVars
  <2>2. \A j : Clock(j)' = Clock(j)
    BY <2>1 DEF Clock
  <2> QED
    BY <2>1, <2>2 DEF JqInv
<1>3. ASSUME NEW j \in Jobs, JobStep(j)
      PROVE  JqInv'
  <2>1. CASE Parse(j)
    BY <2>1, ParseInv
  <2>2. CASE Acquire(j)
    BY <2>2, AcquireInv, SMTT(30)
  <2>3. CASE Spawn(j)
    BY <2>3, SpawnInv
  <2>4. CASE Receive(j)
    BY <2>4, ReceiveInv
  <2>5. CASE WriteOut(j)
    BY <2>5, WriteOutInv
  <2>6. CASE Silence(j)
    BY <2>6, SilenceInv
  <2> QED
    BY <1>3, <2>1, <2>2, <2>3, <2>4, <2>5, <2>6, SMTT(30) DEF JobStep
<1>4. ASSUME NEW j \in Jobs, WorkerStep(j)
      PROVE  JqInv'
  <2>1. CASE BeginRun(j)
    BY <2>1, BeginRunInv
  <2>2. CASE GuestEnds(j)
    BY <2>2, GuestEndsInv
  <2>3. CASE GuestInterrupted(j)
    BY <2>3, GuestInterruptedInv
  <2>4. CASE Send(j)
    BY <2>4, SendInv
  <2>5. CASE SendClosed(j)
    BY <2>5, UnsentInv, SMTT(30) DEF SendClosed
  <2>6. CASE WaitForRoom(j)
    BY <2>6, WaitForRoomInv
  <2>7. CASE SendInterrupted(j)
    BY <2>7, UnsentInv, SMTT(30) DEF SendInterrupted, GivesUp, Interrupted, Cancelled
  <2>8. CASE Exit(j)
    BY <2>8, ExitInv
  <2> QED
    BY <1>4, <2>1, <2>2, <2>3, <2>4, <2>5, <2>6, <2>7, <2>8, SMTT(30) DEF WorkerStep
<1>5. ASSUME NEW j \in Jobs, Breaks(j)
      PROVE  JqInv'
  <2>1. CASE SpawnFails(j)
    BY <2>1, SpawnFailsInv
  <2>2. CASE OutputBreaks(j)
    BY <2>2, OutputBreaksInv
  <2>3. CASE Panic(j)
    BY <2>3, PanicInv
  <2>4. CASE DropJob(j)
    BY <2>4, DropJobInv
  <2> QED
    BY <1>5, <2>1, <2>2, <2>3, <2>4, SMTT(30) DEF Breaks
<1> QED
  BY <1>1, <1>2, <1>3, <1>4, <1>5, ExpireInv, SMTT(30) DEF JqNext

\* The invariant says that what jq reports is what its guest did.
LEMMA InvIsHonest ==
  ASSUME JqInv
  PROVE  JqHonest
<1>1. JqSilence
  BY SMTT(30) DEF JqInv, Good, Told, JqSilence
<1>2. ASSUME NEW j \in Jobs, job[j].pc = "done", job[j].why = "own", job[j].todo # <<>>
      PROVE  LET todo == job[j].todo
                 written == job[j].written
                 Shown(n) == n \in DOMAIN written /\ written[n] = todo[n]
             IN  /\ \A n \in DOMAIN written : written[n].k = "out" => n \in DOMAIN todo /\ Shown(n)
                 /\ job[j].code # 124 => \A n \in DOMAIN todo : todo[n].k = "out" => Shown(n)
  <2> DEFINE todo == job[j].todo
             written == job[j].written
  <2>1. Good(job[j], worker[j], chan[j], Clock(j))
    BY DEF JqInv
  <2>2. written \in Seq(Messages) /\ IsRun(todo) /\ todo \in Seq(Events)
    BY <1>2, <2>1, JobParts DEF IsRun
  <2>3. /\ Len(written) \in Nat /\ DOMAIN written = 1..Len(written)
        /\ Len(todo) \in Nat /\ DOMAIN todo = 1..Len(todo)
    BY <2>2, LenProperties, SMTT(30)
  <2>4. /\ \A n \in 1..Len(written) : written[n].k = "out" => n <= Len(todo) /\ written[n] = todo[n]
        /\ job[j].code # 124 => \A n \in 1..(Len(todo) - 1) : n <= Len(written) /\ written[n] = todo[n]
    BY <1>2, <2>1 DEF Good, Complete
  <2>5. \A n \in 1..Len(todo) : todo[n].k = "out" => n < Len(todo)
    BY <2>2 DEF IsRun
  <2> HIDE DEF todo, written
  <2>6. \A n \in DOMAIN written : written[n].k = "out" =>
           n \in DOMAIN todo /\ (n \in DOMAIN written /\ written[n] = todo[n])
    BY <2>3, <2>4, SMTT(30)
  <2>7. job[j].code # 124 => \A n \in DOMAIN todo : todo[n].k = "out" =>
           (n \in DOMAIN written /\ written[n] = todo[n])
    <3>1. ASSUME NEW n \in 1..Len(todo), todo[n].k = "out"
          PROVE  n \in 1..(Len(todo) - 1)
      BY <2>3, <2>5, <3>1
    <3>2. \A n \in 1..(Len(todo) - 1) : n <= Len(written) => n \in 1..Len(written)
      BY <2>3, SMTT(30)
    <3> QED
      BY <2>3, <2>4, <3>1, <3>2, SMTT(30)
  <2> QED
    BY <2>6, <2>7, SMTT(30) DEF todo, written
<1>3. JqComplete
  BY <1>2 DEF JqComplete
<1> QED
  BY <1>1, <1>3 DEF JqHonest

\* What jq_cmd reports is what its guest did: the values it wrote are the first
\* values of the run, in order and none twice; a status of the guest's own
\* comes after all of them; and a thread that went silent is blamed only if it
\* panicked.  For any number of commands, lines, documents, permits and any
\* room in the channel.
THEOREM JqReportsItsGuest ==
  ASSUME JqAssumption
  PROVE  JqSpec => []JqHonest
<1>1. JqInit => JqInv
  BY StartInv
<1>2. JqInv /\ [JqNext]_jqVars => JqInv'
  BY StepInv
<1>3. JqInv => JqHonest
  BY InvIsHonest
<1> QED
  BY <1>1, <1>2, <1>3, PTL DEF JqSpec

-----------------------------------------------------------------------------
(***************************************************************************)
(* The permits.                                                            *)
(***************************************************************************)

\* The permit a command has, and the one a thread has.
Taking(J) == IF J.pc = "spawn" THEN 1 ELSE 0
Busy(W) == IF W.pc \in {"none", "exited"} THEN 0 ELSE 1

\* A set of commands after one of them changed.
LEMMA Counted ==
  ASSUME IsFiniteSet(Jobs), NEW j \in Jobs, NEW A \in SUBSET Jobs, NEW B \in SUBSET Jobs,
         \A i \in Jobs : i # j => (i \in A <=> i \in B)
  PROVE  /\ Cardinality(A) \in Nat /\ Cardinality(B) \in Nat
         /\ Cardinality(B) = Cardinality(A) + (IF j \in B THEN 1 ELSE 0) - (IF j \in A THEN 1 ELSE 0)
<1>1. IsFiniteSet(A) /\ IsFiniteSet(B)
  BY FS_Subset
<1>2. Cardinality(A) \in Nat /\ Cardinality(B) \in Nat
  BY <1>1, FS_CardinalityType
<1>3. CASE j \in A <=> j \in B
  <2>1. A = B
    BY <1>3
  <2> QED
    BY <1>2, <2>1
<1>4. CASE j \in A /\ j \notin B
  <2>1. A = B \cup {j}
    BY <1>4
  <2>2. Cardinality(B \cup {j}) = Cardinality(B) + 1
    BY <1>1, <1>4, FS_AddElement
  <2> QED
    BY <1>2, <1>4, <2>1, <2>2, SMTT(30)
<1>5. CASE j \notin A /\ j \in B
  <2>1. B = A \cup {j}
    BY <1>5
  <2>2. Cardinality(A \cup {j}) = Cardinality(A) + 1
    BY <1>1, <1>5, FS_AddElement, SMTT(30)
  <2> QED
    BY <1>2, <1>5, <2>1, <2>2
<1> QED
  BY <1>3, <1>4, <1>5

\* A step keeps the account if it takes and gives what it changes.
LEMMA AccountKept ==
  ASSUME JqAssumption, JqInv, JqTypeOK, NEW j \in Jobs, NEW J, NEW W, NEW C,
         job' = [job EXCEPT ![j] = J], worker' = [worker EXCEPT ![j] = W], chan' = [chan EXCEPT ![j] = C],
         Len(C) <= Room,
         permits' = permits + (Taking(job[j]) - Taking(J)) + (Busy(worker[j]) - Busy(W))
  PROVE  JqTypeOK'
<1> DEFINE A == {i \in Jobs : job[i].pc = "spawn"}
           B == {i \in Jobs : job'[i].pc = "spawn"}
           D == {i \in Jobs : worker[i].pc \notin {"none", "exited"}}
           E == {i \in Jobs : worker'[i].pc \notin {"none", "exited"}}
<1>1. /\ job'[j] = J /\ worker'[j] = W /\ chan'[j] = C
      /\ \A i \in Jobs : i # j => job'[i] = job[i] /\ worker'[i] = worker[i] /\ chan'[i] = chan[i]
  BY DEF JqInv
<1>2. IsFiniteSet(Jobs) /\ JqWorkers \in Nat
  BY DEF JqAssumption
<1>3. /\ A \in SUBSET Jobs /\ B \in SUBSET Jobs /\ D \in SUBSET Jobs /\ E \in SUBSET Jobs
      /\ \A i \in Jobs : i # j => (i \in A <=> i \in B) /\ (i \in D <=> i \in E)
  BY <1>1
<1>4. /\ Taking(job[j]) = (IF j \in A THEN 1 ELSE 0) /\ Taking(J) = (IF j \in B THEN 1 ELSE 0)
      /\ Busy(worker[j]) = (IF j \in D THEN 1 ELSE 0) /\ Busy(W) = (IF j \in E THEN 1 ELSE 0)
  BY <1>1 DEF Taking, Busy
<1>5. permits = JqWorkers - Cardinality(A) - Cardinality(D)
  BY DEF JqTypeOK, Exited
<1> HIDE DEF A, B, D, E
<1>6. /\ Cardinality(A) \in Nat /\ Cardinality(B) \in Nat
      /\ Cardinality(B) = Cardinality(A) + (IF j \in B THEN 1 ELSE 0) - (IF j \in A THEN 1 ELSE 0)
  BY <1>2, <1>3, Counted, SMTT(30)
<1>7. /\ Cardinality(D) \in Nat /\ Cardinality(E) \in Nat
      /\ Cardinality(E) = Cardinality(D) + (IF j \in E THEN 1 ELSE 0) - (IF j \in D THEN 1 ELSE 0)
  BY <1>2, <1>3, Counted, SMTT(30)
<1>8. permits' = JqWorkers - Cardinality(B) - Cardinality(E)
  <2>1. PICK a \in {0, 1}, b \in {0, 1}, d \in {0, 1}, e \in {0, 1} :
          /\ Taking(job[j]) = a /\ Taking(J) = b /\ Busy(worker[j]) = d /\ Busy(W) = e
          /\ Cardinality(B) = Cardinality(A) + b - a
          /\ Cardinality(E) = Cardinality(D) + e - d
    BY <1>4, <1>6, <1>7, SMTT(30)
  <2>2. permits' = permits + (a - b) + (d - e)
    BY <2>1, SMTT(30)
  <2> DEFINE cA == Cardinality(A)
             cB == Cardinality(B)
             cD == Cardinality(D)
             cE == Cardinality(E)
  <2>3. /\ cA \in Nat /\ cB \in Nat /\ cD \in Nat /\ cE \in Nat
        /\ cB = cA + b - a /\ cE = cD + e - d /\ permits = JqWorkers - cA - cD
    BY <1>5, <1>6, <1>7, <2>1, SMTT(30)
  <2> HIDE DEF cA, cB, cD, cE
  <2>4. permits' = JqWorkers - cB - cE
    BY <1>2, <2>2, <2>3, SMTT(30)
  <2> QED
    BY <2>4, SMTT(30) DEF cB, cE
<1>9. permits' = JqWorkers - Cardinality({i \in Jobs : job'[i].pc = "spawn"})
                     - Cardinality({i \in Jobs : ~Exited(i)'})
  <2>1. E = {i \in Jobs : ~Exited(i)'}
    BY DEF E, Exited
  <2> QED
    BY <1>8, <2>1 DEF B
<1>10. \A i \in Jobs : Len(chan'[i]) <= Room
  BY <1>1 DEF JqTypeOK
<1> QED
  BY <1>9, <1>10 DEF JqTypeOK

\* The free permits are a number.
LEMMA PermitsType ==
  ASSUME JqAssumption, JqTypeOK
  PROVE  permits \in Int
<1>1. IsFiniteSet(Jobs) /\ JqWorkers \in Nat
  BY DEF JqAssumption
<1>2. IsFiniteSet({i \in Jobs : job[i].pc = "spawn"}) /\ IsFiniteSet({i \in Jobs : ~Exited(i)})
  BY <1>1, FS_Subset, SMTT(30)
<1>3. /\ Cardinality({i \in Jobs : job[i].pc = "spawn"}) \in Nat
      /\ Cardinality({i \in Jobs : ~Exited(i)}) \in Nat
  BY <1>2, FS_CardinalityType
<1> QED
  BY <1>1, <1>3 DEF JqTypeOK

\* The same for a step of the command alone.
LEMMA JobAccount ==
  ASSUME JqAssumption, JqInv, JqTypeOK, NEW j \in Jobs, NEW J, NEW C,
         job' = [job EXCEPT ![j] = J], chan' = [chan EXCEPT ![j] = C], UNCHANGED worker,
         Len(C) <= Room,
         permits' = permits + (Taking(job[j]) - Taking(J))
  PROVE  JqTypeOK'
<1>1. worker' = [worker EXCEPT ![j] = worker[j]]
  BY Kept
<1>2. permits' = permits + (Taking(job[j]) - Taking(J)) + (Busy(worker[j]) - Busy(worker[j]))
  <2>1. permits \in Int
    BY PermitsType
  <2>2. Taking(job[j]) \in Int /\ Taking(J) \in Int /\ Busy(worker[j]) \in Int
    BY DEF Taking, Busy
  <2> QED
    BY <2>1, <2>2
<1> QED
  BY <1>1, <1>2, AccountKept, Zenon

\* The same for a step of the thread alone.
LEMMA WorkerAccount ==
  ASSUME JqAssumption, JqInv, JqTypeOK, NEW j \in Jobs, NEW W, NEW C,
         worker' = [worker EXCEPT ![j] = W], chan' = [chan EXCEPT ![j] = C], UNCHANGED job,
         Len(C) <= Room,
         permits' = permits + (Busy(worker[j]) - Busy(W))
  PROVE  JqTypeOK'
<1>1. job' = [job EXCEPT ![j] = job[j]]
  BY Kept
<1>2. permits' = permits + (Taking(job[j]) - Taking(job[j])) + (Busy(worker[j]) - Busy(W))
  <2>1. permits \in Int
    BY PermitsType
  <2>2. Taking(job[j]) \in Int /\ Busy(W) \in Int /\ Busy(worker[j]) \in Int
    BY DEF Taking, Busy
  <2> QED
    BY <2>1, <2>2
<1> QED
  BY <1>1, <1>2, AccountKept, Zenon

\* Steps that take and give no permit.
LEMMA QuietJob ==
  ASSUME JqAssumption, JqInv, JqTypeOK, NEW j \in Jobs, NEW J, NEW C,
         job' = [job EXCEPT ![j] = J], chan' = [chan EXCEPT ![j] = C], UNCHANGED <<worker, permits>>,
         Len(C) <= Room, job[j].pc # "spawn", J.pc # "spawn"
  PROVE  JqTypeOK'
<1>1. Taking(job[j]) = 0 /\ Taking(J) = 0 /\ permits \in Int
  BY PermitsType DEF Taking
<1>2. permits' = permits + (Taking(job[j]) - Taking(J))
  BY <1>1
<1> QED
  BY <1>2, JobAccount, Zenon

\* The same for the thread.
LEMMA QuietWorker ==
  ASSUME JqAssumption, JqInv, JqTypeOK, NEW j \in Jobs, NEW W, NEW C,
         worker' = [worker EXCEPT ![j] = W], chan' = [chan EXCEPT ![j] = C], UNCHANGED <<job, permits>>,
         Len(C) <= Room, worker[j].pc \notin {"none", "exited"}, W.pc \notin {"none", "exited"}
  PROVE  JqTypeOK'
<1>1. Busy(worker[j]) = 1 /\ Busy(W) = 1 /\ permits \in Int
  BY PermitsType DEF Busy
<1>2. permits' = permits + (Busy(worker[j]) - Busy(W))
  BY <1>1
<1> QED
  BY <1>2, WorkerAccount, Zenon

\* A command gives its permit back.
LEMMA GivesBack ==
  ASSUME JqAssumption, JqInv, JqTypeOK, NEW j \in Jobs, NEW J,
         job' = [job EXCEPT ![j] = J], UNCHANGED <<worker, chan>>, permits' = permits + 1,
         job[j].pc = "spawn", J.pc # "spawn"
  PROVE  JqTypeOK'
<1>1. Taking(job[j]) = 1 /\ Taking(J) = 0 /\ permits \in Int
  BY PermitsType DEF Taking
<1>2. permits' = permits + (Taking(job[j]) - Taking(J))
  BY <1>1
<1>3. chan' = [chan EXCEPT ![j] = chan[j]] /\ Len(chan[j]) <= Room
  BY Kept DEF JqTypeOK
<1> QED
  BY <1>2, <1>3, JobAccount, Zenon

\* A thread that ends gives its permit back.
LEMMA ThreadEnds ==
  ASSUME JqAssumption, JqInv, JqTypeOK, NEW j \in Jobs, NEW W,
         worker' = [worker EXCEPT ![j] = W], UNCHANGED <<job, chan>>, permits' = permits + 1,
         worker[j].pc \notin {"none", "exited"}, W.pc = "exited"
  PROVE  JqTypeOK'
<1>1. Busy(worker[j]) = 1 /\ Busy(W) = 0 /\ permits \in Int
  BY PermitsType DEF Busy
<1>2. permits' = permits + (Busy(worker[j]) - Busy(W))
  BY <1>1
<1>3. chan' = [chan EXCEPT ![j] = chan[j]] /\ Len(chan[j]) <= Room
  BY Kept DEF JqTypeOK
<1> QED
  BY <1>2, <1>3, WorkerAccount, Zenon

\* The channel as it was is within its room.
LEMMA RoomKept ==
  ASSUME JqInv, JqTypeOK, NEW j \in Jobs
  PROVE  /\ chan = [chan EXCEPT ![j] = chan[j]] /\ Len(chan[j]) <= Room
         /\ JobRecord(job[j]) /\ WorkerRecord(worker[j]) /\ chan[j] \in Seq(Messages)
<1>1. Good(job[j], worker[j], chan[j], Clock(j))
  BY SMTT(30) DEF JqInv
<1>2. JobRecord(job[j]) /\ WorkerRecord(worker[j]) /\ chan[j] \in Seq(Messages)
  BY <1>1, JobParts, SMTT(30) DEF IsWorker
<1> QED
  BY <1>2, Kept DEF JqTypeOK

\* A command that finishes is not about to start a thread any more.
LEMMA FinishAccount ==
  ASSUME JqAssumption, JqInv, JqTypeOK, NEW j \in Jobs, NEW code, NEW why,
         Finish(j, code, why), UNCHANGED worker,
         \/ job[j].pc = "spawn" /\ permits' = permits + 1 /\ UNCHANGED chan
         \/ job[j].pc # "spawn" /\ permits' = permits /\ UNCHANGED chan
  PROVE  JqTypeOK'
<1> DEFINE K == [job[j] EXCEPT !.pc = "done", !.code = code, !.why = why]
<1>1. job' = [job EXCEPT ![j] = K]
  BY Zenon DEF Finish
<1>2. K.pc = "done"
  BY RoomKept DEF JobRecord
<1> HIDE DEF K
<1>3. CASE job[j].pc = "spawn" /\ permits' = permits + 1 /\ UNCHANGED chan
  BY <1>1, <1>2, <1>3, GivesBack, Zenon
<1>4. CASE job[j].pc # "spawn" /\ permits' = permits /\ UNCHANGED chan
  <2>1. chan' = [chan EXCEPT ![j] = chan[j]] /\ Len(chan[j]) <= Room
    BY <1>4, RoomKept
  <2> QED
    BY <1>1, <1>2, <1>4, <2>1, QuietJob, Zenon
<1> QED
  BY <1>3, <1>4

\* The steps of the command.
LEMMA JobStepAccount ==
  ASSUME JqAssumption, JqInv, JqTypeOK, NEW j \in Jobs, JobStep(j)
  PROVE  JqTypeOK'
<1> DEFINE J == job[j]
<1>0. /\ chan = [chan EXCEPT ![j] = chan[j]] /\ Len(chan[j]) <= Room /\ JobRecord(J)
      /\ WorkerRecord(worker[j]) /\ chan[j] \in Seq(Messages)
  BY RoomKept, SMTT(30)
<1>1. CASE Parse(j)
  <2>1. CASE Finish(j, 2, "own")
    BY <1>1, <2>1, FinishAccount, SMTT(30) DEF Parse
  <2>2. CASE \E todo : job' = [job EXCEPT ![j].pc = "permit", ![j].todo = todo]
    <3>1. PICK todo : job' = [job EXCEPT ![j].pc = "permit", ![j].todo = todo]
      BY <2>2, Zenon
    <3> DEFINE K == [J EXCEPT !.pc = "permit", !.todo = todo]
    <3>2. job' = [job EXCEPT ![j] = K] /\ K.pc = "permit"
      BY <1>0, <3>1, Zenon DEF JobRecord
    <3> HIDE DEF K
    <3>3. UNCHANGED <<worker, permits, chan>> /\ job[j].pc = "parse"
      BY <1>1 DEF Parse
    <3> QED
      BY <1>0, <3>2, <3>3, QuietJob, Zenon
  <2> QED
    BY <1>1, <2>1, <2>2, SMTT(30) DEF Parse
<1>2. CASE Acquire(j)
  <2> DEFINE K == [J EXCEPT !.pc = "spawn"]
  <2>1. job' = [job EXCEPT ![j] = K] /\ K.pc = "spawn" /\ J.pc = "permit"
    BY <1>0, <1>2 DEF JobRecord, Acquire
  <2> HIDE DEF K
  <2>2. Taking(job[j]) = 0 /\ Taking(K) = 1 /\ permits \in Int
    BY <2>1, PermitsType DEF Taking
  <2>3. permits' = permits + (Taking(job[j]) - Taking(K)) /\ UNCHANGED <<worker, chan>>
    BY <1>2, <2>2, SMTT(30) DEF Acquire
  <2> QED
    BY <1>0, <2>1, <2>3, JobAccount, Zenon
<1>3. CASE Spawn(j)
  <2>1. CASE j \in late
    BY <1>3, <2>1, FinishAccount, SMTT(30) DEF Spawn
  <2>2. CASE j \notin late
    <3> DEFINE K == [J EXCEPT !.pc = "receive"]
               V == [NoWorker EXCEPT !.pc = "begin", !.todo = J.todo]
    <3>1. job' = [job EXCEPT ![j] = K] /\ K.pc = "receive" /\ J.pc = "spawn"
      BY <1>0, <1>3, <2>2 DEF JobRecord, Spawn
    <3>2. worker' = [worker EXCEPT ![j] = V] /\ V.pc = "begin" /\ UNCHANGED <<chan, permits>>
      BY <1>3, <2>2, SMTT(30) DEF Spawn, NoWorker
    <3> HIDE DEF K, V
    <3>3. worker[j] = NoWorker
      BY <3>1, SMTT(30) DEF JqInv, Good, Placed
    <3>4. Taking(job[j]) = 1 /\ Taking(K) = 0 /\ Busy(worker[j]) = 0 /\ Busy(V) = 1 /\ permits \in Int
      BY <3>1, <3>2, <3>3, PermitsType, SMTT(30) DEF Taking, Busy, NoWorker
    <3>5. permits' = permits + (Taking(job[j]) - Taking(K)) + (Busy(worker[j]) - Busy(V))
      BY <3>2, <3>4, SMTT(30)
    <3> QED
      BY <1>0, <3>1, <3>2, <3>5, AccountKept, Zenon
  <2> QED
    BY <2>1, <2>2
<1>4. CASE Receive(j)
  <2>1. chan' = [chan EXCEPT ![j] = Tail(chan[j])] /\ chan[j] # <<>> /\ UNCHANGED <<worker, permits>> /\ J.pc = "receive"
    BY <1>4 DEF Receive
  <2>2. Len(Tail(chan[j])) <= Room
    <3>1. Len(Tail(chan[j])) = Len(chan[j]) - 1 /\ Len(chan[j]) \in Nat /\ Room \in Nat
      BY <1>0, <2>1, HeadTailProperties, LenProperties, SMTT(30) DEF JqAssumption
    <3> QED
      BY <1>0, <3>1
  <2>3. PICK K : job' = [job EXCEPT ![j] = K] /\ K.pc \in {"done", "write"}
    <3> DEFINE m == Head(chan[j])
               A == [J EXCEPT !.pc = "done", !.code = m.code, !.why = "own"]
               B == [J EXCEPT !.pc = "write", !.held = <<m>>]
    <3>1. A.pc = "done" /\ B.pc = "write"
      BY <1>0 DEF JobRecord
    <3>2. job' = [job EXCEPT ![j] = A] \/ job' = [job EXCEPT ![j] = B]
      BY <1>4, Zenon DEF Receive, Finish
    <3> HIDE DEF A, B
    <3> QED
      BY <3>1, <3>2, SMTT(30)
  <2> QED
    BY <2>1, <2>2, <2>3, QuietJob, ZenonT(30)
<1>5. CASE WriteOut(j)
  <2> DEFINE K == [J EXCEPT !.pc = "receive", !.held = <<>>, !.written = J.written \o J.held]
  <2>1. job' = [job EXCEPT ![j] = K] /\ K.pc = "receive" /\ J.pc = "write" /\ UNCHANGED <<worker, permits, chan>>
    BY <1>0, <1>5, Zenon DEF JobRecord, WriteOut
  <2> HIDE DEF K
  <2> QED
    BY <1>0, <2>1, QuietJob, Zenon
<1>6. CASE Silence(j)
  BY <1>6, FinishAccount DEF Silence
<1> QED
  BY <1>1, <1>2, <1>3, <1>4, <1>5, <1>6, SMTT(30) DEF JobStep

\* Where a thread goes with a result.
LEMMA ResultPc ==
  ASSUME NEW W, WorkerRecord(W), NEW code
  PROVE  Result(W, code, FALSE).pc = "result" /\ Result(W, code, TRUE).pc = "error"
<1>1. /\ WorkerIs(Result(W, code, FALSE), "result", W.todo, code, FALSE, W.panicked)
      /\ WorkerIs(Result(W, code, TRUE), "error", W.todo, code, FALSE, W.panicked)
  BY ResultIs, ZenonT(30)
<1> QED
  BY <1>1, Zenon DEF WorkerIs

\* A thread that sends goes on: its result, its end or its run.
LEMMA SendEndsBusy ==
  ASSUME JqInv, NEW j \in Jobs, Sending(j), NEW outcome \in {"sent", "closed", "trapped"}
  PROVE  SendEnds(worker[j], outcome).pc \in {"result", "exiting", "run"}
<1> DEFINE W == worker[j]
<1>1. /\ W.pc \in {"error", "result", "run"}
      /\ W.pc = "run" => Head(W.todo).k \in {"out", "fails"}
  BY SendingFrom, SMTT(30)
<1>2. WorkerRecord(W)
  BY WorkerParts
<1>3. \A code : Result(W, code, FALSE).pc = "result"
  BY <1>2, ResultPc, Zenon
<1>4. /\ [W EXCEPT !.pc = "result", !.blocked = FALSE].pc = "result"
      /\ [W EXCEPT !.pc = "exiting", !.blocked = FALSE].pc = "exiting"
      /\ [W EXCEPT !.todo = Tail(W.todo), !.blocked = FALSE].pc = W.pc
  BY <1>2 DEF WorkerRecord
<1> HIDE DEF W
<1>5. CASE W.pc \in {"error", "result"}
  <2>1. \/ SendEnds(W, outcome) = [W EXCEPT !.pc = "result", !.blocked = FALSE]
        \/ SendEnds(W, outcome) = [W EXCEPT !.pc = "exiting", !.blocked = FALSE]
    BY <1>5, SendEndsIs, ZenonT(30)
  <2> QED
    BY <1>4, <2>1, Zenon DEF W
<1>6. CASE W.pc = "run"
  <2>1. \/ \E code : SendEnds(W, outcome) = Result(W, code, FALSE)
        \/ SendEnds(W, outcome) = [W EXCEPT !.todo = Tail(W.todo), !.blocked = FALSE]
    BY <1>1, <1>6, SendEndsIs, ZenonT(30)
  <2>2. CASE \E code : SendEnds(W, outcome) = Result(W, code, FALSE)
    <3>1. PICK code : SendEnds(W, outcome) = Result(W, code, FALSE)
      BY <2>2, Zenon
    <3>2. SendEnds(W, outcome).pc = "result"
      BY <1>3, <3>1, Zenon
    <3> QED
      BY <3>2 DEF W
  <2>3. CASE SendEnds(W, outcome) = [W EXCEPT !.todo = Tail(W.todo), !.blocked = FALSE]
    BY <1>4, <1>6, <2>3, SMTT(30) DEF W
  <2> QED
    BY <2>1, <2>2, <2>3, ZenonT(30)
<1> QED
  BY <1>1, <1>5, <1>6

\* A step of the thread alone in which it neither starts nor ends.
LEMMA WorkerOnlyAccount ==
  ASSUME JqAssumption, JqInv, JqTypeOK, NEW j \in Jobs, NEW V, WorkerOnly(j, V),
         worker[j].pc \notin {"none", "exited"}, V.pc \notin {"none", "exited"}
  PROVE  JqTypeOK'
<1>1. worker' = [worker EXCEPT ![j] = V] /\ UNCHANGED <<job, chan, permits>>
  BY DEF WorkerOnly
<1> QED
  BY <1>1, RoomKept, QuietWorker, ZenonT(30)

\* The steps of the thread.
LEMMA WorkerStepAccount ==
  ASSUME JqAssumption, JqInv, JqTypeOK, NEW j \in Jobs, WorkerStep(j)
  PROVE  JqTypeOK'
<1> DEFINE W == worker[j]
<1>1. WorkerRecord(W)
  BY WorkerParts
<1>2. \A code : Result(W, code, FALSE).pc = "result" /\ Result(W, code, TRUE).pc = "error"
  BY <1>1, ResultPc, Zenon
<1>3. CASE BeginRun(j)
  <2>1. W.pc = "begin" /\ (WorkerOnly(j, Result(W, 124, FALSE)) \/ WorkerOnly(j, [W EXCEPT !.pc = "run"]))
    BY <1>3, Zenon DEF BeginRun, Is
  <2>2. [W EXCEPT !.pc = "run"].pc = "run"
    BY <1>1 DEF WorkerRecord
  <2>3. PICK V : WorkerOnly(j, V) /\ V.pc \in {"result", "run"}
    BY <1>2, <2>1, <2>2, Zenon
  <2> QED
    BY <2>1, <2>3, WorkerOnlyAccount
<1>4. CASE GuestEnds(j)
  <2>1. W.pc = "run" /\ \E code : WorkerOnly(j, Result(W, code, FALSE)) \/ WorkerOnly(j, Result(W, code, TRUE))
    <3>1. W.pc = "run" /\ Head(W.todo).k \in {"end", "memory", "trap"}
      BY <1>4 DEF GuestEnds, Is
    <3>2. \/ WorkerOnly(j, Result(W, Head(W.todo).code, FALSE))
          \/ WorkerOnly(j, Result(W, 124, FALSE))
          \/ WorkerOnly(j, Result(W, 5, TRUE))
      BY <1>4, <3>1, Zenon DEF GuestEnds
    <3> QED
      BY <3>1, <3>2, Zenon
  <2>2. PICK V : WorkerOnly(j, V) /\ V.pc \in {"result", "error"}
    BY <1>2, <2>1, Zenon
  <2> QED
    BY <2>1, <2>2, WorkerOnlyAccount
<1>5. CASE GuestInterrupted(j)
  <2>1. W.pc = "run" /\ WorkerOnly(j, Result(W, 124, FALSE))
    BY <1>5, Zenon DEF GuestInterrupted, Is
  <2> QED
    BY <1>2, <2>1, WorkerOnlyAccount, Zenon
<1>6. CASE Send(j)
  <2> DEFINE V == SendEnds(W, "sent")
             C == Append(chan[j], Message(W))
  <2>1. /\ worker' = [worker EXCEPT ![j] = V] /\ chan' = [chan EXCEPT ![j] = C] /\ UNCHANGED <<job, permits>>
        /\ Len(chan[j]) < Room /\ Sending(j)
    BY <1>6 DEF Send
  <2>2. V.pc \in {"result", "exiting", "run"} /\ W.pc \in {"error", "result", "run"}
    BY <2>1, SendEndsBusy, SendingFrom, SMTT(30)
  <2>3. Len(C) <= Room
    <3>1. Len(C) = Len(chan[j]) + 1 /\ Len(chan[j]) \in Nat /\ Room \in Nat
      <4>1. Good(job[j], W, chan[j], Clock(j)) /\ W.pc # "none"
        BY <2>2, SMTT(30) DEF JqInv
      <4>2. Message(W) \in Messages
        <5> HIDE DEF W
        <5> QED
          BY <4>1, MessageOf, SMTT(30)
      <4> QED
        BY <4>2, RoomKept, AppendProperties, LenProperties, SMTT(30) DEF JqAssumption
    <3> QED
      BY <2>1, <3>1, SMTT(30)
  <2> HIDE DEF V, C
  <2> QED
    BY <2>1, <2>2, <2>3, QuietWorker, Zenon
<1>7. CASE SendClosed(j)
  <2> DEFINE V == SendEnds(W, "closed")
  <2>1. Sending(j) /\ WorkerOnly(j, V)
    BY <1>7, SMTT(30) DEF SendClosed
  <2>2. V.pc \in {"result", "exiting", "run"} /\ W.pc \in {"error", "result", "run"}
    BY <2>1, SendEndsBusy, SendingFrom, SMTT(30)
  <2> HIDE DEF V
  <2> QED
    BY <2>1, <2>2, WorkerOnlyAccount
<1>8. CASE WaitForRoom(j)
  <2> DEFINE V == [W EXCEPT !.blocked = TRUE]
  <2>1. Sending(j) /\ WorkerOnly(j, V)
    BY <1>8 DEF WaitForRoom
  <2>2. V.pc = W.pc /\ W.pc \in {"error", "result", "run"}
    BY <1>1, <2>1, SendingFrom, SMTT(30) DEF WorkerRecord
  <2> HIDE DEF V
  <2> QED
    BY <2>1, <2>2, WorkerOnlyAccount
<1>9. CASE SendInterrupted(j)
  <2> DEFINE V == SendEnds(W, "trapped")
  <2>1. Sending(j) /\ WorkerOnly(j, V)
    BY <1>9, SMTT(30) DEF SendInterrupted
  <2>2. V.pc \in {"result", "exiting", "run"} /\ W.pc \in {"error", "result", "run"}
    BY <2>1, SendEndsBusy, SendingFrom, SMTT(30)
  <2> HIDE DEF V
  <2> QED
    BY <2>1, <2>2, WorkerOnlyAccount
<1>10. CASE Exit(j)
  <2> DEFINE V == [W EXCEPT !.pc = "exited"]
  <2>1. worker' = [worker EXCEPT ![j] = V] /\ W.pc = "exiting" /\ permits' = permits + 1 /\ UNCHANGED <<job, chan>>
    BY <1>10 DEF Exit, Is
  <2>2. V.pc = "exited"
    BY <1>1 DEF WorkerRecord
  <2> HIDE DEF V
  <2> QED
    BY <2>1, <2>2, ThreadEnds, ZenonT(30)
<1> QED
  BY <1>3, <1>4, <1>5, <1>6, <1>7, <1>8, <1>9, <1>10 DEF WorkerStep

\* What breaks a command or its thread.
LEMMA BreaksAccount ==
  ASSUME JqAssumption, JqInv, JqTypeOK, NEW j \in Jobs, Breaks(j)
  PROVE  JqTypeOK'
<1>1. CASE SpawnFails(j)
  BY <1>1, FinishAccount DEF SpawnFails
<1>2. CASE OutputBreaks(j)
  <2>1. PICK code \in {1, 5} : Finish(j, code, "break")
    BY <1>2 DEF OutputBreaks
  <2> QED
    BY <1>2, <2>1, FinishAccount DEF OutputBreaks
<1>3. CASE Panic(j)
  <2> DEFINE V == [worker[j] EXCEPT !.pc = "exited", !.panicked = TRUE]
  <2>1. /\ worker' = [worker EXCEPT ![j] = V] /\ worker[j].pc \in {"begin", "run"}
        /\ permits' = permits + 1 /\ UNCHANGED <<job, chan>>
    BY <1>3, Zenon DEF Panic
  <2>2. V.pc = "exited"
    BY WorkerParts DEF WorkerRecord
  <2> HIDE DEF V
  <2> QED
    BY <2>1, <2>2, ThreadEnds, Zenon
<1>4. CASE DropJob(j)
  <2> DEFINE K == [job[j] EXCEPT !.pc = "dropped"]
  <2>1. job' = [job EXCEPT ![j] = K] /\ UNCHANGED <<worker, chan>>
    BY <1>4 DEF DropJob
  <2>2. K.pc = "dropped"
    BY RoomKept DEF JobRecord
  <2> HIDE DEF K
  <2>3. CASE job[j].pc = "spawn"
    <3>1. permits' = permits + 1
      BY <1>4, <2>3 DEF DropJob
    <3> QED
      BY <2>1, <2>2, <2>3, <3>1, GivesBack, Zenon
  <2>4. CASE job[j].pc # "spawn"
    <3>1. permits' = permits /\ chan' = [chan EXCEPT ![j] = chan[j]] /\ Len(chan[j]) <= Room
      BY <1>4, <2>1, <2>4, RoomKept DEF DropJob
    <3> QED
      BY <2>1, <2>2, <2>4, <3>1, QuietJob, ZenonT(30)
  <2> QED
    BY <2>3, <2>4
<1> QED
  BY <1>1, <1>2, <1>3, <1>4 DEF Breaks

\* The permits of the pool are free, with a command that is about to start its
\* thread or with a thread that has not ended, however commands are dropped,
\* threads panic or deadlines pass, and the channel keeps its bound.
THEOREM JqPermitsAccounted ==
  ASSUME JqAssumption
  PROVE  JqSpec => []JqTypeOK
<1>1. JqInit => JqInv
  BY StartInv
<1>2. JqInv /\ [JqNext]_jqVars => JqInv'
  BY StepInv
<1>3. JqInit => JqTypeOK
  <2> SUFFICES ASSUME JqInit PROVE JqTypeOK
    OBVIOUS
  <2>1. \A j \in Jobs : job[j].pc # "spawn" /\ Exited(j) /\ chan[j] = <<>>
    BY DEF JqInit, NewJob, NoWorker, Exited
  <2>2. {j \in Jobs : job[j].pc = "spawn"} = {} /\ {j \in Jobs : ~Exited(j)} = {}
    BY <2>1, SMTT(30)
  <2>3. Cardinality({}) = 0 /\ permits = JqWorkers /\ JqWorkers \in Nat /\ Room \in Nat /\ Len(<<>>) = 0
    BY FS_EmptySet DEF JqInit, JqAssumption
  <2>4. \A j \in Jobs : Len(chan[j]) <= Room
    BY <2>1, <2>3
  <2>5. permits = JqWorkers - Cardinality({}) - Cardinality({})
    BY <2>3
  <2> QED
    BY <2>2, <2>4, <2>5, Zenon DEF JqTypeOK
<1>4. ASSUME JqInv, JqTypeOK, [JqNext]_jqVars
      PROVE  JqTypeOK'
  <2>1. ASSUME UNCHANGED <<job, worker, chan, permits>>
        PROVE  JqTypeOK'
    BY <1>4, <2>1 DEF JqTypeOK, Exited
  <2>2. UNCHANGED jqVars \/ JqEnd => UNCHANGED <<job, worker, chan, permits>>
    BY DEF jqVars, JqEnd
  <2>3. \A j \in Jobs : Expire(j) => UNCHANGED <<job, worker, chan, permits>>
    BY DEF Expire
  <2> QED
    BY <1>4, <2>1, <2>2, <2>3, JobStepAccount, WorkerStepAccount, BreaksAccount, SMTT(30) DEF JqNext
<1> QED
  BY <1>1, <1>2, <1>3, <1>4, PTL DEF JqSpec
=============================================================================
