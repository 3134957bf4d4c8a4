---------------------------- MODULE RunAllProofs ----------------------------
(***************************************************************************)
(* Theorems about RunAll, for every list of cases and scripts: what is     *)
(* ingested from strace's output does not depend on how the calls of the   *)
(* processes overlap, and the artifacts of a run that ends well are its    *)
(* own.                                                                    *)
(***************************************************************************)
EXTENDS AccumulatorLemmas, MerkleRoots, RunAll
LOCAL INSTANCE SequencesExt

(***************************************************************************)
(* The lines strace may print: only those of an entered call name it, and  *)
(* only they hold an argument.                                             *)
(***************************************************************************)
Lines ==
    [text : {"call"}, call : {"execve", "openat", "open", "connect"}, arg : STRING]
    \cup [text : {"resumed", "exited"},
          call : {"execve", "openat", "open", "connect", "none"}, arg : {NoArg}]

Events ==
    [kind : {"Exec", "OpenFile", "Connect"},
     target : STRING \cup {"unknown_exec", "unknown_file", "socket_connect"}]

LEMMA ParsedTyped ==
    ASSUME NEW line \in Lines
    PROVE  /\ parse_strace_line(line) \in Seq(Events)
           /\ ~ NamesACall(line) => parse_strace_line(line) = << >>
<1>1. << >> \in Seq(Events)
  BY EmptySeq
<1> DEFINE T == STRING \cup {"unknown_exec", "unknown_file", "socket_connect"}
<1>2. ASSUME NEW kind \in {"Exec", "OpenFile", "Connect"}, NEW target \in T
      PROVE  Event(kind, target) \in Seq(Events)
  BY DEF Event, Events
<1>3. CASE ~ NamesACall(line)
  BY <1>1, <1>3 DEF parse_strace_line, NoEvent
<1>4. CASE NamesACall(line)
  <2>1. /\ line.call \in {"execve", "openat", "open", "connect"}
        /\ line.arg \in STRING
    BY <1>4 DEF NamesACall, Lines
  <2>2. /\ extract_quoted_arg(line, "unknown_exec") \in T
        /\ extract_quoted_arg(line, "unknown_file") \in T
    BY <2>1 DEF extract_quoted_arg
  <2>3. CASE line.call = "execve"
    BY <1>1, <1>2, <1>4, <2>2, <2>3 DEF parse_strace_line, NoEvent
  <2>4. CASE line.call \in {"openat", "open"}
    BY <1>1, <1>2, <1>4, <2>2, <2>4 DEF parse_strace_line, NoEvent
  <2>5. CASE line.call = "connect"
    BY <1>1, <1>2, <1>4, <2>5 DEF parse_strace_line, NoEvent
  <2> QED
    BY <1>4, <2>1, <2>3, <2>4, <2>5
<1> QED
  BY <1>3, <1>4

(***************************************************************************)
(* A solution of a loop's equation is the loop.                            *)
(***************************************************************************)
IsFunctionTo(D, N) == D = [n \in 0 .. N |-> D[n]]

LEMMA SolutionIsLoop ==
    ASSUME NEW N \in Nat, NEW S, NEW b \in S, NEW G \in [1 .. N -> [S -> S]],
           NEW D, IsFunctionTo(D, N), D[0] = b,
           \A n \in 1 .. N : D[n - 1] \in S => D[n] = G[n][D[n - 1]]
    PROVE  D \in [0 .. N -> S] /\ IsLoop(D, N, b, G)
<1> DEFINE B == {n \in Nat : n <= N => D[n] \in S}
<1>1. 0 \in B
  OBVIOUS
<1>2. ASSUME NEW n \in Nat, n \in B PROVE n + 1 \in B
  <2>1. SUFFICES ASSUME n + 1 <= N PROVE D[n + 1] \in S
    OBVIOUS
  <2>2. n + 1 \in 1 .. N /\ (n + 1) - 1 = n /\ D[n] \in S
    BY <1>2, <2>1
  <2>3. D[n + 1] = G[n + 1][D[n]] /\ G[n + 1] \in [S -> S]
    BY <2>2
  <2> QED
    BY <2>2, <2>3
<1>3. Nat \subseteq B
  <2> HIDE DEF B
  <2> QED
    BY <1>1, <1>2, SetInduction
<1>4. \A n \in 0 .. N : D[n] \in S
  BY <1>3
<1>5. \A n \in 1 .. N : D[n] = G[n][D[n - 1]]
  <2>1. \A n \in 1 .. N : n - 1 \in 0 .. N
    OBVIOUS
  <2> QED
    BY <1>4, <2>1
<1> QED
  BY <1>4, <1>5 DEF IsLoop, IsFunctionTo

(***************************************************************************)
(* Two loops that agree on their first k steps agree on the results.       *)
(***************************************************************************)
IsIngest(f, printed) ==
    /\ f \in [0 .. Len(printed) -> Seq(Events)]
    /\ f[0] = << >>
    /\ \A n \in 1 .. Len(printed) :
            f[n] = f[n - 1] \o parse_strace_line(printed[n])

LEMMA IngestIs ==
    ASSUME NEW printed \in Seq(Lines)
    PROVE  \E f : IsIngest(f, printed) /\ Ingest(printed) = f[Len(printed)]
<1> DEFINE N == Len(printed)
           S == Seq(Events)
           G == [n \in 1 .. N |-> [s \in S |-> s \o parse_strace_line(printed[n])]]
           Fix(f) == f = [n \in 0 .. Len(printed) |->
                            IF n = 0 THEN << >>
                            ELSE f[n - 1] \o parse_strace_line(printed[n])]
           D == CHOOSE f : Fix(f)
<1>1. N \in Nat /\ << >> \in S /\ \A n \in 1 .. N : printed[n] \in Lines
  BY LenProperties, EmptySeq, ElementOfSeq
<1>2. G \in [1 .. N -> [S -> S]]
  <2>1. ASSUME NEW n \in 1 .. N, NEW s \in S
        PROVE  s \o parse_strace_line(printed[n]) \in S
    BY <1>1, ParsedTyped, ConcatProperties
  <2> QED
    BY <2>1
<1>3. PICK f \in [0 .. N -> S] : IsLoop(f, N, << >>, G)
  <2> HIDE DEF S, G
  <2> QED
    BY <1>1, <1>2, LoopExists
<1>4. Fix(f)
  <2>1. ASSUME NEW n \in 1 .. N
        PROVE  f[n] = f[n - 1] \o parse_strace_line(printed[n])
    <3>1. n - 1 \in 0 .. N
      BY <1>1
    <3>2. f[n - 1] \in S /\ f[n] = G[n][f[n - 1]]
      BY <1>3, <3>1 DEF IsLoop
    <3> QED
      BY <3>2
  <2>2. f[0] = << >>
    BY <1>3 DEF IsLoop
  <2>3. ASSUME NEW n \in 0 .. N
        PROVE  f[n] = IF n = 0 THEN << >>
                      ELSE f[n - 1] \o parse_strace_line(printed[n])
    <3>1. CASE n = 0
      BY <2>2, <3>1
    <3>2. CASE n # 0
      <4>1. n \in 1 .. N
        BY <1>1, <3>2
      <4>2. f[n] = f[n - 1] \o parse_strace_line(printed[n])
        BY <2>1, <4>1, SMTT(30)
      <4> QED
        BY <3>2, <4>2
    <3> QED
      BY <3>1, <3>2
  <2> QED
    BY <1>3, <2>3
<1>5. Fix(D)
  BY <1>4
<1>6. Ingest(printed) = D[N]
  BY DEF Ingest
<1> HIDE DEF D
<1> DEFINE Body(n) == IF n = 0 THEN << >>
                      ELSE D[n - 1] \o parse_strace_line(printed[n])
<1>7. D = [n \in 0 .. N |-> Body(n)]
  BY <1>5
<1>8. IsFunctionTo(D, N) /\ \A n \in 0 .. N : D[n] = Body(n)
  <2> HIDE DEF Body
  <2> QED
    BY <1>7 DEF IsFunctionTo
<1>9. D[0] = << >>
  <2>1. D[0] = Body(0)
    <3> HIDE DEF Body
    <3> QED
      BY <1>1, <1>8
  <2> QED
    BY <2>1
<1>10. ASSUME NEW n \in 1 .. N
       PROVE  D[n] = D[n - 1] \o parse_strace_line(printed[n])
  <2>1. D[n] = Body(n)
    <3> HIDE DEF Body
    <3> QED
      BY <1>1, <1>8
  <2> QED
    BY <1>1, <2>1
<1>11. D \in [0 .. N -> S]
  <2>1. \A n \in 1 .. N : D[n - 1] \in S => D[n] = G[n][D[n - 1]]
    BY <1>10
  <2> HIDE DEF S, G, Body
  <2> QED
    BY <1>1, <1>2, <1>8, <1>9, <2>1, SolutionIsLoop
<1> QED
  BY <1>6, <1>9, <1>10, <1>11 DEF IsIngest

LEMMA IngestAgree ==
    ASSUME NEW s \in Seq(Lines), NEW t \in Seq(Lines),
           NEW f, IsIngest(f, s), NEW g, IsIngest(g, t),
           NEW k \in Nat, k <= Len(s), k <= Len(t),
           \A n \in 1 .. k : s[n] = t[n]
    PROVE  f[k] = g[k]
<1> DEFINE B == {n \in Nat : n <= k => f[n] = g[n]}
<1>0. Len(s) \in Nat /\ Len(t) \in Nat
  BY LenProperties
<1>1. 0 \in B
  BY DEF IsIngest
<1>2. ASSUME NEW n \in Nat, n \in B PROVE n + 1 \in B
  <2>1. SUFFICES ASSUME n + 1 <= k PROVE f[n + 1] = g[n + 1]
    OBVIOUS
  <2>2. /\ n + 1 \in 1 .. Len(s) /\ n + 1 \in 1 .. Len(t) /\ n + 1 \in 1 .. k
        /\ (n + 1) - 1 = n /\ f[n] = g[n]
    BY <1>0, <1>2, <2>1
  <2> QED
    BY <2>2 DEF IsIngest
<1>3. Nat \subseteq B
  <2> HIDE DEF B
  <2> QED
    BY <1>1, <1>2, SetInduction
<1> QED
  BY <1>3

LEMMA IngestEmpty == Ingest(<< >>) = << >>
<1>1. << >> \in Seq(Lines) /\ Len(<< >>) = 0
  BY EmptySeq
<1>2. PICK f : IsIngest(f, << >>) /\ Ingest(<< >>) = f[Len(<< >>)]
  BY <1>1, IngestIs
<1> QED
  BY <1>1, <1>2 DEF IsIngest

LEMMA IngestAppend ==
    ASSUME NEW s \in Seq(Lines), NEW line \in Lines
    PROVE  /\ Ingest(s) \in Seq(Events)
           /\ Ingest(Append(s, line)) = Ingest(s) \o parse_strace_line(line)
<1> DEFINE t == Append(s, line)
           k == Len(s)
<1>1. /\ t \in Seq(Lines) /\ k \in Nat /\ Len(t) = k + 1 /\ t[k + 1] = line
      /\ \A n \in 1 .. k : t[n] = s[n]
  BY AppendProperties, LenProperties
<1>2. PICK f : IsIngest(f, s) /\ Ingest(s) = f[k]
  BY IngestIs
<1>3. PICK g : IsIngest(g, t) /\ Ingest(t) = g[Len(t)]
  BY <1>1, IngestIs
<1> HIDE DEF t
<1>4. f[k] = g[k]
  <2>1. k <= Len(s) /\ k <= Len(t) /\ \A n \in 1 .. k : s[n] = t[n]
    BY <1>1
  <2> HIDE DEF k
  <2> QED
    BY <1>1, <1>2, <1>3, <2>1, IngestAgree
<1>5. g[k + 1] = g[k] \o parse_strace_line(t[k + 1])
  <2>1. k + 1 \in 1 .. Len(t) /\ (k + 1) - 1 = k
    BY <1>1
  <2> QED
    BY <1>3, <2>1 DEF IsIngest
<1>6. f[k] \in Seq(Events)
  BY <1>1, <1>2 DEF IsIngest
<1> QED
  BY <1>1, <1>2, <1>3, <1>4, <1>5, <1>6 DEF t

(***************************************************************************)
(* The lines that name a call, counted by the same loop.                   *)
(***************************************************************************)
IsSeen(f, printed) ==
    /\ f \in [0 .. Len(printed) -> Nat]
    /\ f[0] = 0
    /\ \A n \in 1 .. Len(printed) :
            f[n] = f[n - 1] + (IF NamesACall(printed[n]) THEN 1 ELSE 0)

LEMMA SeenIs ==
    ASSUME NEW printed \in Seq(Lines)
    PROVE  \E f : /\ IsSeen(f, printed)
                  /\ raw_syscall_lines_seen(printed) = f[Len(printed)]
<1> DEFINE N == Len(printed)
           One(n) == IF NamesACall(printed[n]) THEN 1 ELSE 0
           S == Nat
           G == [n \in 1 .. N |-> [m \in S |-> m + One(n)]]
           Fix(f) == f = [n \in 0 .. Len(printed) |->
                            IF n = 0 THEN 0
                            ELSE f[n - 1]
                                  + (IF NamesACall(printed[n]) THEN 1 ELSE 0)]
           D == CHOOSE f : Fix(f)
<1>1. N \in Nat /\ 0 \in Nat /\ \A n \in 1 .. N : One(n) \in Nat
  BY LenProperties
<1>2. G \in [1 .. N -> [S -> S]] /\ 0 \in S
  BY <1>1
<1>3. PICK f \in [0 .. N -> S] : IsLoop(f, N, 0, G)
  <2> HIDE DEF S, G
  <2> QED
    BY <1>1, <1>2, LoopExists
<1>4. Fix(f)
  <2>1. ASSUME NEW n \in 1 .. N PROVE f[n] = f[n - 1] + One(n)
    <3>1. n - 1 \in 0 .. N
      BY <1>1
    <3>2. f[n - 1] \in Nat /\ f[n] = G[n][f[n - 1]]
      BY <1>3, <3>1 DEF IsLoop
    <3> QED
      BY <3>2
  <2> QED
    BY <1>1, <1>3, <2>1 DEF IsLoop
<1>5. Fix(D)
  BY <1>4
<1>6. raw_syscall_lines_seen(printed) = D[N]
  BY DEF raw_syscall_lines_seen
<1> HIDE DEF D
<1> DEFINE Body(n) == IF n = 0 THEN 0 ELSE D[n - 1] + One(n)
<1>7. D = [n \in 0 .. N |-> Body(n)]
  BY <1>5
<1>8. IsFunctionTo(D, N) /\ \A n \in 0 .. N : D[n] = Body(n)
  <2> HIDE DEF Body
  <2> QED
    BY <1>7 DEF IsFunctionTo
<1>9. D[0] = 0 /\ \A n \in 1 .. N : D[n] = D[n - 1] + One(n)
  BY <1>1, <1>8
<1>10. D \in [0 .. N -> S]
  <2> DEFINE z == 0
  <2>1. \A n \in 1 .. N : D[n - 1] \in S => D[n] = G[n][D[n - 1]]
    BY <1>9
  <2>2. z \in S /\ D[0] = z
    BY <1>9
  <2> HIDE DEF S, G, One, Body, z
  <2> QED
    BY <1>1, <1>2, <1>8, <2>1, <2>2, SolutionIsLoop
<1> QED
  BY <1>6, <1>9, <1>10 DEF IsSeen

LEMMA SeenEmpty == raw_syscall_lines_seen(<< >>) = 0
<1>1. << >> \in Seq(Lines) /\ Len(<< >>) = 0
  BY EmptySeq
<1>2. PICK f : IsSeen(f, << >>) /\ raw_syscall_lines_seen(<< >>) = f[Len(<< >>)]
  BY <1>1, SeenIs
<1> QED
  BY <1>1, <1>2 DEF IsSeen

LEMMA SeenAppend ==
    ASSUME NEW s \in Seq(Lines), NEW line \in Lines
    PROVE  /\ raw_syscall_lines_seen(s) \in Nat
           /\ raw_syscall_lines_seen(Append(s, line))
                = raw_syscall_lines_seen(s) + (IF NamesACall(line) THEN 1 ELSE 0)
<1> DEFINE t == Append(s, line)
           k == Len(s)
<1>1. /\ t \in Seq(Lines) /\ k \in Nat /\ Len(t) = k + 1 /\ t[k + 1] = line
      /\ \A n \in 1 .. k : t[n] = s[n]
  BY AppendProperties, LenProperties
<1>2. PICK f : IsSeen(f, s) /\ raw_syscall_lines_seen(s) = f[k]
  BY SeenIs
<1>3. PICK g : IsSeen(g, t) /\ raw_syscall_lines_seen(t) = g[Len(t)]
  BY <1>1, SeenIs
<1> HIDE DEF t
<1> DEFINE B == {n \in Nat : n <= k => f[n] = g[n]}
<1>4. 0 \in B
  BY <1>2, <1>3 DEF IsSeen
<1>5. ASSUME NEW n \in Nat, n \in B PROVE n + 1 \in B
  <2>1. SUFFICES ASSUME n + 1 <= k PROVE f[n + 1] = g[n + 1]
    OBVIOUS
  <2>2. /\ n + 1 \in 1 .. k /\ n + 1 \in 1 .. Len(t)
        /\ (n + 1) - 1 = n /\ f[n] = g[n]
    BY <1>1, <1>5, <2>1
  <2>3. s[n + 1] = t[n + 1]
    BY <1>1, <2>2
  <2> QED
    BY <1>2, <1>3, <2>2, <2>3 DEF IsSeen
<1>6. Nat \subseteq B
  <2> HIDE DEF B
  <2> QED
    BY <1>4, <1>5, SetInduction
<1>7. f[k] = g[k] /\ f[k] \in Nat
  BY <1>1, <1>2, <1>6 DEF IsSeen
<1>8. g[k + 1] = g[k] + (IF NamesACall(t[k + 1]) THEN 1 ELSE 0)
  <2>1. k + 1 \in 1 .. Len(t) /\ (k + 1) - 1 = k
    BY <1>1
  <2> QED
    BY <1>3, <2>1 DEF IsSeen
<1> QED
  BY <1>1, <1>2, <1>3, <1>7, <1>8 DEF t

-----------------------------------------------------------------------------
\* A function of the numbers up to N is a sequence of length N.
LEMMA FunctionIsSeq ==
    ASSUME NEW N \in Nat, NEW S, NEW m \in [1 .. N -> S]
    PROVE  m \in Seq(S) /\ Len(m) = N
<1>1. m \in Seq(S)
  <2>1. m = [n \in 1 .. N |-> m[n]] /\ \A n \in 1 .. N : m[n] \in S
    OBVIOUS
  <2> QED
    BY <2>1, IsASeq
<1>2. PICK k \in Nat : k = Len(m) /\ 1 .. k = 1 .. N
  BY <1>1, LenProperties
<1>3. k = N
  <2>1. k > 0 => k \in 1 .. N
    <3>1. k > 0 => k \in 1 .. k
      BY <1>2
    <3> QED
      BY <1>2, <3>1
  <2>2. N > 0 => N \in 1 .. k
    BY <1>2
  <2> QED
    BY <2>1, <2>2
<1> QED
  BY <1>1, <1>2, <1>3

(***************************************************************************)
(* A sequence of sequences, put one behind the other.                      *)
(***************************************************************************)
IsFlatten(f, seqs, S) ==
    /\ f \in [0 .. Len(seqs) -> Seq(S)]
    /\ f[0] = << >>
    /\ \A n \in 1 .. Len(seqs) : f[n] = f[n - 1] \o seqs[n]

LEMMA FlattenIs ==
    ASSUME NEW S, NEW seqs \in Seq(Seq(S))
    PROVE  \E f : IsFlatten(f, seqs, S) /\ FlattenSeq(seqs) = f[Len(seqs)]
<1> DEFINE N == Len(seqs)
           T == Seq(S)
           G == [n \in 1 .. N |-> [s \in T |-> s \o seqs[n]]]
           Fix(f) == f = [n \in 1 .. Len(seqs) |->
                            IF n = 1 THEN seqs[n] ELSE f[n - 1] \o seqs[n]]
           D == CHOOSE f : Fix(f)
<1>1. N \in Nat /\ << >> \in T /\ \A n \in 1 .. N : seqs[n] \in T
  BY LenProperties, EmptySeq, ElementOfSeq
<1>2. G \in [1 .. N -> [T -> T]]
  <2>1. ASSUME NEW n \in 1 .. N, NEW s \in T PROVE s \o seqs[n] \in T
    BY <1>1, ConcatProperties
  <2> QED
    BY <2>1
<1>3. PICK f \in [0 .. N -> T] : IsLoop(f, N, << >>, G)
  <2> HIDE DEF T, G
  <2> QED
    BY <1>1, <1>2, LoopExists
<1>4. ASSUME NEW n \in 1 .. N PROVE f[n] = f[n - 1] \o seqs[n]
  <2>1. n - 1 \in 0 .. N
    BY <1>1
  <2>2. f[n - 1] \in T /\ f[n] = G[n][f[n - 1]]
    BY <1>3, <2>1 DEF IsLoop
  <2> QED
    BY <2>2
<1>5. f[0] = << >>
  BY <1>3 DEF IsLoop
<1>6. IsFlatten(f, seqs, S)
  BY <1>3, <1>4, <1>5 DEF IsFlatten
<1>7. CASE N = 0
  <2>1. FlattenSeq(seqs) = seqs /\ seqs = << >>
    BY <1>7, EmptySeq DEF FlattenSeq
  <2> QED
    BY <1>5, <1>6, <1>7, <2>1
<1>8. CASE N # 0
  <2> DEFINE h == [n \in 1 .. N |-> f[n]]
  <2>1. Fix(h)
    <3>1. ASSUME NEW n \in 1 .. N
          PROVE  f[n] = IF n = 1 THEN seqs[n] ELSE h[n - 1] \o seqs[n]
      <4>1. CASE n = 1
        <5>0. 1 \in 1 .. N /\ 1 - 1 = 0
          BY <1>1, <1>8
        <5>1. f[1] = << >> \o seqs[1] /\ seqs[1] \in Seq(S)
          BY <1>1, <1>4, <1>5, <5>0
        <5>2. f[1] = seqs[1]
          BY <5>1, ConcatEmptySeq
        <5> QED
          BY <4>1, <5>2
      <4>2. CASE n # 1
        <5>1. n - 1 \in 1 .. N
          BY <1>1, <4>2
        <5> QED
          BY <1>4, <4>2, <5>1
      <4> QED
        BY <4>1, <4>2
    <3> QED
      BY <3>1
  <2>2. Fix(D)
    BY <2>1
  <2>3. FlattenSeq(seqs) = D[N]
    BY <1>8 DEF FlattenSeq
  <2> HIDE DEF D
  <2> DEFINE Body(n) == IF n = 1 THEN seqs[n] ELSE D[n - 1] \o seqs[n]
  <2>4. D = [n \in 1 .. N |-> Body(n)]
    BY <2>2
  <2>5. \A n \in 1 .. N : D[n] = Body(n)
    <3> HIDE DEF Body
    <3> QED
      BY <2>4
  <2> DEFINE B == {n \in Nat : n + 1 <= N => D[n + 1] = f[n + 1]}
  <2>6. 0 \in B
    <3>1. 1 \in 1 .. N /\ 1 - 1 = 0
      BY <1>1, <1>8
    <3>2. f[1] = << >> \o seqs[1] /\ seqs[1] \in Seq(S)
      BY <1>1, <1>4, <1>5, <3>1
    <3>3. f[1] = seqs[1]
      BY <3>2, ConcatEmptySeq
    <3>4. D[1] = seqs[1]
      BY <2>5, <3>1
    <3> QED
      BY <3>3, <3>4
  <2>7. ASSUME NEW n \in Nat, n \in B PROVE n + 1 \in B
    <3>1. SUFFICES ASSUME (n + 1) + 1 <= N
                   PROVE  D[(n + 1) + 1] = f[(n + 1) + 1]
      OBVIOUS
    <3>2. PICK m \in 1 .. N : m = (n + 1) + 1 /\ m # 1 /\ m - 1 = n + 1
      BY <1>1, <3>1
    <3>3. D[m - 1] = f[m - 1]
      BY <2>7, <3>1, <3>2
    <3>4. D[m] = D[m - 1] \o seqs[m]
      BY <2>5, <3>2
    <3> QED
      BY <1>4, <3>2, <3>3, <3>4
  <2>8. Nat \subseteq B
    <3> HIDE DEF B
    <3> QED
      BY <2>6, <2>7, SetInduction
  <2>9. D[N] = f[N]
    <3>1. PICK n \in Nat : N = n + 1
      <4>1. N - 1 \in Nat /\ N = (N - 1) + 1
        BY <1>1, <1>8
      <4> QED
        BY <4>1
    <3>2. n \in B /\ n + 1 <= N
      BY <1>1, <2>8, <3>1
    <3> QED
      BY <3>1, <3>2, SMTT(30)
  <2> QED
    BY <1>6, <2>3, <2>9
<1> QED
  BY <1>7, <1>8

LEMMA FlattenAgree ==
    ASSUME NEW S, NEW s \in Seq(Seq(S)), NEW t \in Seq(Seq(S)),
           NEW f, IsFlatten(f, s, S), NEW g, IsFlatten(g, t, S),
           NEW k \in Nat, k <= Len(s), k <= Len(t),
           \A n \in 1 .. k : s[n] = t[n]
    PROVE  f[k] = g[k]
<1> DEFINE B == {n \in Nat : n <= k => f[n] = g[n]}
<1>0. Len(s) \in Nat /\ Len(t) \in Nat
  BY LenProperties
<1>1. 0 \in B
  BY DEF IsFlatten
<1>2. ASSUME NEW n \in Nat, n \in B PROVE n + 1 \in B
  <2>1. SUFFICES ASSUME n + 1 <= k PROVE f[n + 1] = g[n + 1]
    OBVIOUS
  <2>2. /\ n + 1 \in 1 .. Len(s) /\ n + 1 \in 1 .. Len(t) /\ n + 1 \in 1 .. k
        /\ (n + 1) - 1 = n /\ f[n] = g[n]
    BY <1>0, <1>2, <2>1
  <2> QED
    BY <2>2 DEF IsFlatten
<1>3. Nat \subseteq B
  <2> HIDE DEF B
  <2> QED
    BY <1>1, <1>2, SetInduction
<1> QED
  BY <1>3

LEMMA FlattenEmpty == FlattenSeq(<< >>) = << >>
<1>1. Len(<< >>) = 0
  BY EmptySeq
<1> QED
  BY <1>1 DEF FlattenSeq

LEMMA FlattenAppend ==
    ASSUME NEW S, NEW s \in Seq(Seq(S)), NEW x \in Seq(S)
    PROVE  /\ FlattenSeq(s) \in Seq(S)
           /\ FlattenSeq(Append(s, x)) = FlattenSeq(s) \o x
<1> DEFINE t == Append(s, x)
           k == Len(s)
<1>1. /\ t \in Seq(Seq(S)) /\ k \in Nat /\ Len(t) = k + 1 /\ t[k + 1] = x
      /\ \A n \in 1 .. k : t[n] = s[n]
  BY AppendProperties, LenProperties
<1>2. PICK f : IsFlatten(f, s, S) /\ FlattenSeq(s) = f[k]
  BY FlattenIs
<1> HIDE DEF t
<1>3. PICK g : IsFlatten(g, t, S) /\ FlattenSeq(t) = g[Len(t)]
  BY <1>1, FlattenIs
<1>4. f[k] = g[k]
  <2>1. k <= Len(s) /\ k <= Len(t) /\ \A n \in 1 .. k : s[n] = t[n]
    BY <1>1
  <2> HIDE DEF k
  <2> QED
    BY <1>1, <1>2, <1>3, <2>1, FlattenAgree
<1>5. g[k + 1] = g[k] \o t[k + 1]
  <2>1. k + 1 \in 1 .. Len(t) /\ (k + 1) - 1 = k
    BY <1>1
  <2> QED
    BY <1>3, <2>1 DEF IsFlatten
<1>6. f[k] \in Seq(S)
  <2>1. k \in 0 .. Len(s)
    BY <1>1
  <2> QED
    BY <1>2, <2>1 DEF IsFlatten
<1> QED
  BY <1>1, <1>2, <1>3, <1>4, <1>5, <1>6 DEF t

LEMMA ConcatAppend ==
    ASSUME NEW S, NEW s \in Seq(S), NEW t \in Seq(S), NEW x \in S
    PROVE  s \o Append(t, x) = Append(s \o t, x)
<1> DEFINE one == << x >>
<1>1. one \in Seq(S)
  OBVIOUS
<1>2. Append(t, x) = t \o one
  BY AppendIsConcat
<1>3. s \o t \in Seq(S)
  BY ConcatProperties
<1>4. Append(s \o t, x) = (s \o t) \o one
  BY <1>3, AppendIsConcat
<1> HIDE DEF one
<1> QED
  BY <1>1, <1>2, <1>4, ConcatAssociative, SMTT(30)

LEMMA FlattenConcat ==
    ASSUME NEW S, NEW s \in Seq(Seq(S)), NEW t \in Seq(Seq(S))
    PROVE  FlattenSeq(s \o t) = FlattenSeq(s) \o FlattenSeq(t)
<1> DEFINE T == Seq(S)
           B == {u \in Seq(T) : FlattenSeq(s \o u) = FlattenSeq(s) \o FlattenSeq(u)}
<1>0. FlattenSeq(s) \in T
  <2>1. << >> \in T
    BY EmptySeq
  <2> QED
    BY <2>1, FlattenAppend
<1>1. << >> \in B
  <2>1. << >> \in Seq(T) /\ s \o << >> = s
    BY EmptySeq, ConcatEmptySeq
  <2>2. FlattenSeq(s) \o << >> = FlattenSeq(s)
    BY <1>0, ConcatEmptySeq
  <2> HIDE DEF T
  <2> QED
    BY <2>1, <2>2, FlattenEmpty
<1>2. ASSUME NEW u \in B, NEW x \in T PROVE Append(u, x) \in B
  <2>1. u \in Seq(T) /\ FlattenSeq(s \o u) = FlattenSeq(s) \o FlattenSeq(u)
    BY <1>2
  <2>2. Append(u, x) \in Seq(T)
    BY <2>1, AppendProperties
  <2>3. s \o Append(u, x) = Append(s \o u, x)
    BY <2>1, ConcatAppend
  <2>4. s \o u \in Seq(T)
    BY <2>1, ConcatProperties
  <2>5. /\ FlattenSeq(Append(s \o u, x)) = FlattenSeq(s \o u) \o x
        /\ FlattenSeq(Append(u, x)) = FlattenSeq(u) \o x
        /\ FlattenSeq(u) \in Seq(S)
    BY <2>1, <2>4, FlattenAppend
  <2>6. (FlattenSeq(s) \o FlattenSeq(u)) \o x
            = FlattenSeq(s) \o (FlattenSeq(u) \o x)
    <3> DEFINE a == FlattenSeq(s)
               b == FlattenSeq(u)
    <3>1. a \in Seq(S) /\ b \in Seq(S) /\ x \in Seq(S)
      BY <1>0, <1>2, <2>5
    <3>2. (a \o b) \o x = a \o (b \o x)
      <4> HIDE DEF B, T, a, b
      <4> QED
        BY <3>1, ConcatAssociative, SMTT(30)
    <3> QED
      BY <3>2
  <2>7. FlattenSeq(s \o Append(u, x)) = FlattenSeq(s) \o FlattenSeq(Append(u, x))
    <3>1. FlattenSeq(s \o Append(u, x)) = (FlattenSeq(s) \o FlattenSeq(u)) \o x
      BY <2>1, <2>3, <2>5
    <3> QED
      BY <2>5, <2>6, <3>1
  <2> HIDE DEF T
  <2> QED
    BY <2>2, <2>7
<1>3. Seq(T) \subseteq B
  <2> HIDE DEF B, T
  <2> QED
    BY <1>1, <1>2, SequenceInduction
<1> QED
  BY <1>3

-----------------------------------------------------------------------------
(***************************************************************************)
(* The lines on which calls were entered, and the events of the first k    *)
(* calls of a process.                                                     *)
(***************************************************************************)
LEMMA PrintedTyped ==
    ASSUME NEW c \in TracedCalls
    PROVE  Printed(c) \in Lines /\ NamesACall(Printed(c))
  BY DEF Printed, Lines, NamesACall, TracedCalls

LEMMA PrintedAllTyped ==
    ASSUME NEW cs \in Seq(TracedCalls)
    PROVE  /\ PrintedAll(cs) \in Seq(Lines)
           /\ Len(PrintedAll(cs)) = Len(cs)
           /\ \A n \in 1 .. Len(cs) : PrintedAll(cs)[n] = Printed(cs[n])
<1> DEFINE N == Len(cs)
<1>1. N \in Nat /\ DOMAIN cs = 1 .. N
  BY LenProperties
<1>2. \A n \in 1 .. N : Printed(cs[n]) \in Lines
  BY ElementOfSeq, PrintedTyped
<1>3. PrintedAll(cs) = [n \in 1 .. N |-> Printed(cs[n])]
  BY <1>1 DEF PrintedAll
<1> HIDE DEF N
<1>4. PrintedAll(cs) \in [1 .. N -> Lines]
  BY <1>2, <1>3
<1>5. PrintedAll(cs) \in Seq(Lines) /\ Len(PrintedAll(cs)) = N
  BY <1>1, <1>4, FunctionIsSeq
<1> QED
  BY <1>3, <1>5 DEF N

LEMMA PrintedAllAppend ==
    ASSUME NEW cs \in Seq(TracedCalls), NEW c \in TracedCalls
    PROVE  PrintedAll(Append(cs, c)) = Append(PrintedAll(cs), Printed(c))
<1> DEFINE s == PrintedAll(Append(cs, c))
           t == Append(PrintedAll(cs), Printed(c))
           N == Len(cs)
<1>1. /\ N \in Nat /\ Append(cs, c) \in Seq(TracedCalls)
      /\ Len(Append(cs, c)) = N + 1 /\ Append(cs, c)[N + 1] = c
      /\ \A n \in 1 .. N : Append(cs, c)[n] = cs[n]
  BY AppendProperties, LenProperties
<1>2. s \in Seq(Lines) /\ Len(s) = N + 1
      /\ \A n \in 1 .. (N + 1) : s[n] = Printed(Append(cs, c)[n])
  BY <1>1, PrintedAllTyped
<1>3. /\ PrintedAll(cs) \in Seq(Lines) /\ Len(PrintedAll(cs)) = N
      /\ \A n \in 1 .. N : PrintedAll(cs)[n] = Printed(cs[n])
      /\ Printed(c) \in Lines
  BY PrintedAllTyped, PrintedTyped
<1>4. /\ t \in Seq(Lines) /\ Len(t) = N + 1 /\ t[N + 1] = Printed(c)
      /\ \A n \in 1 .. N : t[n] = PrintedAll(cs)[n]
  BY <1>3, AppendProperties
<1> HIDE DEF s, t, N
<1>5. ASSUME NEW n \in 1 .. (N + 1) PROVE s[n] = t[n]
  <2>1. CASE n = N + 1
    BY <1>1, <1>2, <1>4, <2>1
  <2>2. CASE n # N + 1
    <3>1. n \in 1 .. N
      BY <1>1, <2>2
    <3> QED
      BY <1>1, <1>2, <1>3, <1>4, <3>1
  <2> QED
    BY <2>1, <2>2
<1>6. s = t
  BY <1>2, <1>4, <1>5, SeqEqual
<1> QED
  BY <1>6 DEF s, t

Happened(process) == CHOOSE f : IsIngest(f, PrintedAll(process))

LEMMA HappenedIs ==
    ASSUME NEW process \in Seq(TracedCalls)
    PROVE  /\ Happened(process)[0] = << >>
           /\ \A k \in 0 .. Len(process) : Happened(process)[k] \in Seq(Events)
           /\ \A k \in 1 .. Len(process) :
                Happened(process)[k]
                    = Happened(process)[k - 1]
                        \o parse_strace_line(Printed(process[k]))
<1>1. /\ PrintedAll(process) \in Seq(Lines)
      /\ Len(PrintedAll(process)) = Len(process)
      /\ \A n \in 1 .. Len(process) : PrintedAll(process)[n] = Printed(process[n])
  BY PrintedAllTyped
<1>2. \E f : IsIngest(f, PrintedAll(process))
  BY <1>1, IngestIs
<1>3. IsIngest(Happened(process), PrintedAll(process))
  BY <1>2 DEF Happened
<1> QED
  BY <1>1, <1>3 DEF IsIngest

LEMMA QuietProcess ==
    ASSUME NEW process \in Seq(TracedCalls), ~ MakesEvents(process),
           NEW k \in 0 .. Len(process)
    PROVE  Happened(process)[k] = << >>
<1> DEFINE B == {n \in Nat : n <= Len(process) => Happened(process)[n] = << >>}
<1>0. Len(process) \in Nat /\ DOMAIN process = 1 .. Len(process)
  BY LenProperties
<1>1. 0 \in B
  BY HappenedIs
<1>2. ASSUME NEW n \in Nat, n \in B PROVE n + 1 \in B
  <2>1. SUFFICES ASSUME n + 1 <= Len(process)
                 PROVE  Happened(process)[n + 1] = << >>
    OBVIOUS
  <2>2. n + 1 \in 1 .. Len(process) /\ (n + 1) - 1 = n /\ n <= Len(process)
    BY <1>0, <2>1
  <2>3. Happened(process)[n + 1]
          = Happened(process)[n] \o parse_strace_line(Printed(process[n + 1]))
    BY <2>2, HappenedIs
  <2>4. parse_strace_line(Printed(process[n + 1])) = << >>
    BY <1>0, <2>2 DEF MakesEvents, NoEvent
  <2>5. Happened(process)[n] = << >>
    BY <1>2, <2>2
  <2>6. << >> \o << >> = << >>
    BY EmptySeq, ConcatEmptySeq
  <2> QED
    BY <2>3, <2>4, <2>5, <2>6
<1>3. Nat \subseteq B
  <2> HIDE DEF B
  <2> QED
    BY <1>1, <1>2, SetInduction
<1> QED
  BY <1>0, <1>3

(***************************************************************************)
(* The events of the processes of a stage, of each as far as it has got,   *)
(* one process after the other: the order that does not depend on the      *)
(* scheduler.                                                              *)
(***************************************************************************)
IsJoin(f, procs, b) ==
    /\ f \in [0 .. Len(procs) -> Seq(Events)]
    /\ f[0] = << >>
    /\ \A n \in 1 .. Len(procs) : f[n] = f[n - 1] \o Happened(procs[n])[b[n]]

Joined(procs, b) == (CHOOSE f : IsJoin(f, procs, b))[Len(procs)]

Processes == Seq(Seq(TracedCalls))

IsProgress(procs, b) ==
    \A n \in 1 .. Len(procs) : b[n] \in 0 .. Len(procs[n])

LEMMA JoinIs ==
    ASSUME NEW procs \in Processes, NEW b, IsProgress(procs, b)
    PROVE  \E f : IsJoin(f, procs, b) /\ Joined(procs, b) = f[Len(procs)]
<1> DEFINE N == Len(procs)
           S == Seq(Events)
           G == [n \in 1 .. N |-> [s \in S |-> s \o Happened(procs[n])[b[n]]]]
<1>1. N \in Nat /\ << >> \in S
  BY LenProperties, EmptySeq DEF Processes
<1>2. ASSUME NEW n \in 1 .. N PROVE Happened(procs[n])[b[n]] \in S
  <2>1. procs[n] \in Seq(TracedCalls)
    BY ElementOfSeq DEF Processes
  <2> QED
    BY <2>1, HappenedIs DEF IsProgress
<1>3. G \in [1 .. N -> [S -> S]]
  <2>1. ASSUME NEW n \in 1 .. N, NEW s \in S
        PROVE  s \o Happened(procs[n])[b[n]] \in S
    BY <1>2, ConcatProperties
  <2> QED
    BY <2>1
<1>4. PICK f \in [0 .. N -> S] : IsLoop(f, N, << >>, G)
  <2> HIDE DEF S, G
  <2> QED
    BY <1>1, <1>3, LoopExists
<1>5. IsJoin(f, procs, b)
  <2>1. ASSUME NEW n \in 1 .. N
        PROVE  f[n] = f[n - 1] \o Happened(procs[n])[b[n]]
    <3>1. n - 1 \in 0 .. N
      BY <1>1
    <3>2. f[n - 1] \in S /\ f[n] = G[n][f[n - 1]]
      BY <1>4, <3>1 DEF IsLoop
    <3> QED
      BY <3>2
  <2> QED
    BY <1>4, <2>1 DEF IsLoop, IsJoin
<1>6. IsJoin(CHOOSE g : IsJoin(g, procs, b), procs, b)
  BY <1>5
<1> QED
  BY <1>6 DEF Joined

LEMMA JoinTyped ==
    ASSUME NEW procs \in Processes, NEW b, IsProgress(procs, b)
    PROVE  Joined(procs, b) \in Seq(Events)
<1>1. Len(procs) \in Nat
  BY LenProperties DEF Processes
<1>2. PICK f : IsJoin(f, procs, b) /\ Joined(procs, b) = f[Len(procs)]
  BY JoinIs
<1> QED
  BY <1>1, <1>2 DEF IsJoin

(***************************************************************************)
(* A chain of sequences, each the one before it with a part appended: what *)
(* lengthening one part makes of the whole.                                *)
(***************************************************************************)
Longer(u, v, e, alone) ==
    /\ Len(v) = Len(u) + Len(e)
    /\ alone => v = u \o e

LEMMA LongerFirst ==
    ASSUME NEW S, NEW u \in Seq(S), NEW h \in Seq(S), NEW e \in Seq(S), NEW alone
    PROVE  Longer(u \o h, u \o (h \o e), e, alone)
<1>1. u \o (h \o e) = (u \o h) \o e
  BY ConcatAssociative, SMTT(30)
<1>2. u \o h \in Seq(S)
  BY ConcatProperties
<1>3. Len((u \o h) \o e) = Len(u \o h) + Len(e)
  BY <1>2, ConcatProperties
<1> QED
  BY <1>1, <1>3 DEF Longer

LEMMA LongerNext ==
    ASSUME NEW S, NEW u \in Seq(S), NEW v \in Seq(S), NEW h \in Seq(S),
           NEW e \in Seq(S), NEW alone \in BOOLEAN,
           Longer(u, v, e, alone), alone => e = << >> \/ h = << >>
    PROVE  Longer(u \o h, v \o h, e, alone)
<1>1. /\ Len(u \o h) = Len(u) + Len(h) /\ Len(v \o h) = Len(v) + Len(h)
      /\ u \o h \in Seq(S)
  BY ConcatProperties
<1>2. Len(u) \in Nat /\ Len(v) \in Nat /\ Len(h) \in Nat /\ Len(e) \in Nat
  BY LenProperties
<1>3. Len(v) = Len(u) + Len(e)
  BY DEF Longer
<1>4. Len(v \o h) = Len(u \o h) + Len(e)
  BY <1>1, <1>2, <1>3
<1>5. ASSUME alone PROVE v \o h = (u \o h) \o e
  <2>1. v = u \o e
    BY <1>5 DEF Longer
  <2>2. CASE e = << >>
    BY <1>1, <2>1, <2>2, ConcatEmptySeq
  <2>3. CASE h = << >>
    <3>1. v \o h = v /\ u \o h = u
      BY <2>3, ConcatEmptySeq
    <3> QED
      BY <2>1, <3>1
  <2> QED
    BY <1>5, <2>2, <2>3
<1> QED
  BY <1>4, <1>5 DEF Longer

Chains(S, N, p, e, f, g, H) ==
    /\ f \in [0 .. N -> Seq(S)] /\ g \in [0 .. N -> Seq(S)]
    /\ H \in [1 .. N -> Seq(S)] /\ e \in Seq(S)
    /\ f[0] = g[0]
    /\ \A n \in 1 .. N : f[n] = f[n - 1] \o H[n]
    /\ \A n \in 1 .. N : n # p => g[n] = g[n - 1] \o H[n]
    /\ g[p] = g[p - 1] \o (H[p] \o e)

LEMMA ChainGrows ==
    ASSUME NEW S, NEW N \in Nat, NEW p \in 1 .. N, NEW e, NEW f, NEW g, NEW H,
           Chains(S, N, p, e, f, g, H), NEW alone \in BOOLEAN,
           alone => e = << >> \/ \A n \in 1 .. N : n # p => H[n] = << >>
    PROVE  Longer(f[N], g[N], e, alone)
<1>0. /\ f \in [0 .. N -> Seq(S)] /\ g \in [0 .. N -> Seq(S)]
      /\ H \in [1 .. N -> Seq(S)] /\ e \in Seq(S)
      /\ f[0] = g[0]
      /\ \A n \in 1 .. N : f[n] = f[n - 1] \o H[n]
      /\ \A n \in 1 .. N : n # p => g[n] = g[n - 1] \o H[n]
      /\ g[p] = g[p - 1] \o (H[p] \o e)
  BY DEF Chains
<1> DEFINE Good(n) == /\ n < p => g[n] = f[n]
                      /\ p <= n => Longer(f[n], g[n], e, alone)
           B == {n \in Nat : n <= N => Good(n)}
<1>1. 0 \in B
  BY <1>0
<1>2. ASSUME NEW n \in Nat, n \in B PROVE n + 1 \in B
  <2>1. SUFFICES ASSUME n + 1 <= N PROVE Good(n + 1)
    OBVIOUS
  <2>2. PICK m \in 1 .. N : m = n + 1
    BY <2>1
  <2>3. /\ m - 1 = n /\ n \in 0 .. N /\ f[n] \in Seq(S) /\ g[n] \in Seq(S)
        /\ H[m] \in Seq(S) /\ Good(n) /\ n < m /\ (p < m => p <= n)
    BY <1>0, <1>2, <2>1, <2>2
  <2>4. f[m] = f[n] \o H[m]
    BY <1>0, <2>3
  <2>5. CASE m < p
    <3>1. m # p /\ n < p /\ ~ (p <= m)
      BY <2>3, <2>5
    <3>2. g[m] = g[n] \o H[m]
      BY <1>0, <2>3, <3>1
    <3>3. g[n] = f[n]
      BY <2>3, <3>1
    <3>4. g[m] = f[m]
      BY <2>4, <3>2, <3>3
    <3> QED
      BY <2>2, <3>1, <3>4
  <2>6. CASE m = p
    <3>1. g[m] = g[n] \o (H[m] \o e) /\ g[n] = f[n]
      BY <1>0, <2>3, <2>6
    <3>2. Longer(f[n] \o H[m], f[n] \o (H[m] \o e), e, alone)
      BY <1>0, <2>3, LongerFirst
    <3>3. Longer(f[m], g[m], e, alone)
      BY <2>4, <3>1, <3>2
    <3>4. ~ (m < p)
      BY <2>6
    <3> QED
      BY <2>2, <3>3, <3>4
  <2>7. CASE p < m
    <3>1. m # p /\ p <= n /\ ~ (m < p)
      BY <2>3, <2>7
    <3>2. g[m] = g[n] \o H[m]
      BY <1>0, <2>3, <3>1
    <3>3. Longer(f[n], g[n], e, alone)
      BY <2>3, <3>1
    <3>4. alone => e = << >> \/ H[m] = << >>
      BY <3>1
    <3>5. Longer(f[n] \o H[m], g[n] \o H[m], e, alone)
      <4> HIDE DEF Good, B
      <4>1. f[n] \in Seq(S) /\ g[n] \in Seq(S) /\ H[m] \in Seq(S)
        BY <2>3
      <4> QED
        BY <1>0, <3>3, <3>4, <4>1, LongerNext
    <3>6. Longer(f[m], g[m], e, alone)
      BY <2>4, <3>2, <3>5
    <3> QED
      BY <2>2, <3>1, <3>6
  <2> QED
    BY <2>5, <2>6, <2>7
<1>3. Nat \subseteq B
  <2> HIDE DEF B
  <2> QED
    BY <1>1, <1>2, SetInduction
<1> QED
  BY <1>3

(***************************************************************************)
(* One call more of process p lengthens the join by its events, and where  *)
(* no other process makes any they come at its end.                        *)
(***************************************************************************)
OneCallMore(procs, b, p, b2, e) ==
    /\ IsProgress(procs, b)
    /\ b[p] < Len(procs[p]) /\ b2[p] = b[p] + 1
    /\ \A n \in 1 .. Len(procs) : n # p => b2[n] = b[n]
    /\ e = parse_strace_line(Printed(procs[p][b[p] + 1]))

AloneWith(procs, p, e) ==
    \/ e = << >>
    \/ \A n \in 1 .. Len(procs) : n # p => ~ MakesEvents(procs[n])

LEMMA JoinGrows ==
    ASSUME NEW procs \in Processes, NEW b, NEW p \in 1 .. Len(procs), NEW b2,
           NEW e, OneCallMore(procs, b, p, b2, e)
    PROVE  /\ IsProgress(procs, b2)
           /\ e \in Seq(Events)
           /\ Len(Joined(procs, b2)) = Len(Joined(procs, b)) + Len(e)
           /\ AloneWith(procs, p, e) => Joined(procs, b2) = Joined(procs, b) \o e
<1> DEFINE N == Len(procs)
           S == Seq(Events)
           H(n) == Happened(procs[n])[b[n]]
           Alone == \/ e = << >>
                    \/ \A n \in 1 .. N : n # p => ~ MakesEvents(procs[n])
<1>0. /\ IsProgress(procs, b) /\ b[p] < Len(procs[p]) /\ b2[p] = b[p] + 1
      /\ \A n \in 1 .. N : n # p => b2[n] = b[n]
  BY DEF OneCallMore
<1>1. N \in Nat /\ \A n \in 1 .. N : /\ procs[n] \in Seq(TracedCalls)
                                     /\ Len(procs[n]) \in Nat
                                     /\ b[n] \in 0 .. Len(procs[n])
  BY <1>0, LenProperties, ElementOfSeq DEF Processes, IsProgress
<1>2. IsProgress(procs, b2) /\ b[p] + 1 \in 1 .. Len(procs[p])
  BY <1>0, <1>1, SMTT(30) DEF IsProgress
<1>3. e \in S
  <2>1. procs[p][b[p] + 1] \in TracedCalls
    BY <1>1, <1>2, ElementOfSeq
  <2> QED
    BY <2>1, PrintedTyped, ParsedTyped DEF OneCallMore
<1>4. \A n \in 1 .. N : H(n) \in S
  BY <1>1, HappenedIs
<1>5. Happened(procs[p])[b2[p]] = H(p) \o e
  <2>1. procs[p] \in Seq(TracedCalls) /\ (b[p] + 1) - 1 = b[p]
    BY <1>1, <1>2
  <2> QED
    BY <1>0, <1>2, <2>1, HappenedIs DEF OneCallMore
<1>6. PICK f : IsJoin(f, procs, b) /\ Joined(procs, b) = f[N]
  BY <1>0, JoinIs
<1>7. PICK g : IsJoin(g, procs, b2) /\ Joined(procs, b2) = g[N]
  BY <1>2, JoinIs
<1>9. \A n \in 1 .. N : f[n] = f[n - 1] \o H(n)
  BY <1>1, <1>6 DEF IsJoin
<1>10. ASSUME NEW n \in 1 .. N, n # p PROVE g[n] = g[n - 1] \o H(n)
  BY <1>0, <1>7, <1>10 DEF IsJoin
<1>11. g[p] = g[p - 1] \o (H(p) \o e)
  BY <1>5, <1>7 DEF IsJoin
<1>12. ASSUME Alone
       PROVE  e = << >> \/ \A n \in 1 .. N : n # p => H(n) = << >>
  BY <1>1, <1>12, QuietProcess
<1> DEFINE HF == [n \in 1 .. N |-> H(n)]
<1>13. Longer(f[N], g[N], e, Alone)
  <2>1. /\ f \in [0 .. N -> Seq(Events)] /\ g \in [0 .. N -> Seq(Events)]
        /\ f[0] = g[0]
    BY <1>6, <1>7 DEF IsJoin
  <2>2. HF \in [1 .. N -> Seq(Events)] /\ \A n \in 1 .. N : HF[n] = H(n)
    BY <1>4
  <2> HIDE DEF HF, H
  <2>3. Alone \in BOOLEAN
    OBVIOUS
  <2> HIDE DEF Alone, AloneWith, N
  <2>4. Alone => e = << >> \/ \A n \in 1 .. N : n # p => HF[n] = << >>
    BY <1>12, <2>2
  <2>5. /\ \A n \in 1 .. N : f[n] = f[n - 1] \o HF[n]
        /\ \A n \in 1 .. N : n # p => g[n] = g[n - 1] \o HF[n]
        /\ g[p] = g[p - 1] \o (HF[p] \o e)
        /\ p \in 1 .. N /\ N \in Nat
    <3>1. p \in 1 .. N
      BY DEF N
    <3> QED
      BY <1>1, <1>9, <1>10, <1>11, <2>2, <3>1
  <2>6. PICK alone \in BOOLEAN : alone = Alone
    BY <2>3
  <2>7. alone => e = << >> \/ \A n \in 1 .. N : n # p => HF[n] = << >>
    BY <2>4, <2>6
  <2>8. Chains(Events, N, p, e, f, g, HF)
    BY <1>3, <2>1, <2>2, <2>5 DEF Chains
  <2>9. Longer(f[N], g[N], e, alone)
    BY <2>5, <2>7, <2>8, ChainGrows
  <2> QED
    BY <2>6, <2>9
<1> HIDE DEF Alone
<1>14. /\ Len(g[N]) = Len(f[N]) + Len(e)
       /\ Alone => g[N] = f[N] \o e
  BY <1>13 DEF Longer
<1>15. Alone => Joined(procs, b2) = Joined(procs, b) \o e
  BY <1>6, <1>7, <1>14
<1> QED
  BY <1>2, <1>3, <1>6, <1>7, <1>14, <1>15 DEF Alone, AloneWith, N

(***************************************************************************)
(* A stage at its start and at its end, and the events of the stages       *)
(* before stage n.                                                         *)
(***************************************************************************)
None(procs) == [n \in DOMAIN procs |-> 0]

Full(procs) == [n \in DOMAIN procs |-> Len(procs[n])]

LEMMA ProcessesTyped ==
    ASSUME NEW procs \in Processes
    PROVE  /\ Len(procs) \in Nat /\ DOMAIN procs = 1 .. Len(procs)
           /\ \A n \in 1 .. Len(procs) : /\ procs[n] \in Seq(TracedCalls)
                                         /\ Len(procs[n]) \in Nat
           /\ IsProgress(procs, None(procs))
           /\ IsProgress(procs, Full(procs))
<1>1. /\ Len(procs) \in Nat /\ DOMAIN procs = 1 .. Len(procs)
      /\ \A n \in 1 .. Len(procs) : procs[n] \in Seq(TracedCalls)
  BY LenProperties, ElementOfSeq DEF Processes
<1>2. \A n \in 1 .. Len(procs) : Len(procs[n]) \in Nat
  BY <1>1, LenProperties
<1> QED
  BY <1>1, <1>2 DEF IsProgress, None, Full

LEMMA JoinStarts ==
    ASSUME NEW procs \in Processes
    PROVE  Joined(procs, None(procs)) = << >>
<1> DEFINE N == Len(procs)
           b == None(procs)
<1>1. /\ N \in Nat /\ IsProgress(procs, b)
      /\ \A n \in 1 .. N : procs[n] \in Seq(TracedCalls) /\ b[n] = 0
  BY ProcessesTyped DEF None
<1>2. \A n \in 1 .. N : Happened(procs[n])[b[n]] = << >>
  BY <1>1, HappenedIs
<1> HIDE DEF b
<1>3. PICK f : IsJoin(f, procs, b) /\ Joined(procs, b) = f[N]
  BY <1>1, JoinIs
<1> DEFINE B == {n \in Nat : n <= N => f[n] = << >>}
<1>4. 0 \in B
  BY <1>3 DEF IsJoin
<1>5. ASSUME NEW n \in Nat, n \in B PROVE n + 1 \in B
  <2>1. SUFFICES ASSUME n + 1 <= N PROVE f[n + 1] = << >>
    OBVIOUS
  <2>2. PICK m \in 1 .. N : m = n + 1 /\ m - 1 = n /\ f[n] = << >>
    BY <1>1, <1>5, <2>1
  <2>3. f[m] = f[m - 1] \o Happened(procs[m])[b[m]]
    BY <1>3, <2>2 DEF IsJoin
  <2>4. << >> \o << >> = << >>
    BY EmptySeq, ConcatEmptySeq
  <2> QED
    BY <1>2, <2>2, <2>3, <2>4
<1>6. Nat \subseteq B
  <2> HIDE DEF B
  <2> QED
    BY <1>4, <1>5, SetInduction
<1>7. f[N] = << >>
  BY <1>1, <1>6
<1> QED
  BY <1>3, <1>7 DEF b

IsStages(f, script) ==
    /\ f \in [0 .. Len(script) -> Seq(Events)]
    /\ f[0] = << >>
    /\ \A n \in 1 .. Len(script) :
            f[n] = f[n - 1] \o Joined(script[n], Full(script[n]))

Stages(script) == CHOOSE f : IsStages(f, script)

LEMMA ScriptTyped ==
    ASSUME NEW script \in Scripts
    PROVE  /\ Len(script) \in Nat /\ Len(script) >= 1
           /\ DOMAIN script = 1 .. Len(script)
           /\ \A n \in 1 .. Len(script) : script[n] \in Processes
<1>1. script \in Seq(Seq(Seq(TracedCalls))) /\ script # << >>
  BY DEF Scripts
<1>2. Len(script) \in Nat /\ DOMAIN script = 1 .. Len(script)
  BY <1>1, LenProperties
<1>3. Len(script) # 0
  BY <1>1, EmptySeq
<1> QED
  BY <1>1, <1>2, <1>3, ElementOfSeq DEF Processes

LEMMA StagesIs ==
    ASSUME NEW script \in Scripts
    PROVE  IsStages(Stages(script), script)
<1> DEFINE N == Len(script)
           S == Seq(Events)
           J(n) == Joined(script[n], Full(script[n]))
           G == [n \in 1 .. N |-> [s \in S |-> s \o J(n)]]
<1>1. N \in Nat /\ << >> \in S /\ \A n \in 1 .. N : script[n] \in Processes
  BY ScriptTyped, EmptySeq
<1>2. \A n \in 1 .. N : J(n) \in S
  BY <1>1, ProcessesTyped, JoinTyped
<1> HIDE DEF J
<1>3. G \in [1 .. N -> [S -> S]]
  <2>1. ASSUME NEW n \in 1 .. N, NEW s \in S
        PROVE  s \o J(n) \in S
    BY <1>2, ConcatProperties
  <2> QED
    BY <2>1
<1>4. PICK f \in [0 .. N -> S] : IsLoop(f, N, << >>, G)
  <2> HIDE DEF S, G
  <2> QED
    BY <1>1, <1>3, LoopExists
<1>5. IsStages(f, script)
  <2>1. ASSUME NEW n \in 1 .. N
        PROVE  f[n] = f[n - 1] \o J(n)
    <3>1. n - 1 \in 0 .. N
      BY <1>1
    <3>2. f[n - 1] \in S /\ f[n] = G[n][f[n - 1]]
      BY <1>4, <3>1 DEF IsLoop
    <3> QED
      BY <3>2
  <2> QED
    BY <1>4, <2>1 DEF IsLoop, IsStages, J
<1> QED
  BY <1>5 DEF Stages

(***************************************************************************)
(* The events of a script as far as stage n has got with progress b.       *)
(***************************************************************************)
Placed(script, n, b) == Stages(script)[n - 1] \o Joined(script[n], b)

LEMMA PlacedTyped ==
    ASSUME NEW script \in Scripts, NEW n \in 1 .. Len(script), NEW b,
           IsProgress(script[n], b)
    PROVE  Placed(script, n, b) \in Seq(Events)
<1>1. n - 1 \in 0 .. Len(script) /\ script[n] \in Processes
  BY ScriptTyped
<1>2. Stages(script)[n - 1] \in Seq(Events)
  BY <1>1, StagesIs DEF IsStages
<1>3. Joined(script[n], b) \in Seq(Events)
  BY <1>1, JoinTyped
<1> QED
  BY <1>2, <1>3, ConcatProperties DEF Placed

LEMMA PlacedAtEnds ==
    ASSUME NEW script \in Scripts, NEW n \in 1 .. Len(script)
    PROVE  /\ Placed(script, n, None(script[n])) = Stages(script)[n - 1]
           /\ Placed(script, n, Full(script[n])) = Stages(script)[n]
           /\ Stages(script)[0] = << >>
           /\ Stages(script)[n] \in Seq(Events)
<1>1. n - 1 \in 0 .. Len(script) /\ n \in 0 .. Len(script)
      /\ script[n] \in Processes
  BY ScriptTyped
<1>2. /\ Stages(script)[n - 1] \in Seq(Events)
      /\ Stages(script)[n] \in Seq(Events)
      /\ Stages(script)[0] = << >>
      /\ Stages(script)[n] = Stages(script)[n - 1]
                               \o Joined(script[n], Full(script[n]))
  BY <1>1, StagesIs DEF IsStages
<1>3. Joined(script[n], None(script[n])) = << >>
  BY <1>1, JoinStarts
<1> QED
  BY <1>2, <1>3, ConcatEmptySeq DEF Placed

LEMMA PlacedGrows ==
    ASSUME NEW script \in Scripts, NEW n \in 1 .. Len(script),
           NEW p \in 1 .. Len(script[n]), NEW b, NEW b2, NEW e,
           OneCallMore(script[n], b, p, b2, e)
    PROVE  /\ IsProgress(script[n], b2)
           /\ e \in Seq(Events)
           /\ Len(Placed(script, n, b2)) = Len(Placed(script, n, b)) + Len(e)
           /\ Ordered(script) =>
                Placed(script, n, b2) = Placed(script, n, b) \o e
<1> DEFINE procs == script[n]
           u == Stages(script)[n - 1]
           j == Joined(procs, b)
           k == Joined(procs, b2)
<1>1. procs \in Processes /\ n - 1 \in 0 .. Len(script) /\ n \in DOMAIN script
  BY ScriptTyped
<1>2. /\ OneCallMore(procs, b, p, b2, e) /\ p \in 1 .. Len(procs)
      /\ IsProgress(procs, b)
  BY DEF OneCallMore
<1>3. /\ IsProgress(procs, b2) /\ e \in Seq(Events)
      /\ Len(k) = Len(j) + Len(e)
      /\ AloneWith(procs, p, e) => k = j \o e
  <2> HIDE DEF procs
  <2> QED
    BY <1>1, <1>2, JoinGrows
<1>4. u \in Seq(Events) /\ j \in Seq(Events) /\ k \in Seq(Events)
  BY <1>1, <1>2, <1>3, StagesIs, JoinTyped DEF IsStages
<1>5. ASSUME Ordered(script) PROVE k = j \o e
  <2>1. SUFFICES ASSUME e # << >>
                 PROVE  \A m \in 1 .. Len(procs) : m # p => ~ MakesEvents(procs[m])
    BY <1>3 DEF AloneWith
  <2>2. /\ DOMAIN procs = 1 .. Len(procs)
        /\ procs[p] \in Seq(TracedCalls) /\ Len(procs[p]) \in Nat
    BY <1>1, ProcessesTyped
  <2>3. b[p] + 1 \in DOMAIN procs[p]
    <3>1. DOMAIN procs[p] = 1 .. Len(procs[p])
      BY <2>2, LenProperties
    <3> QED
      BY <1>2, <2>2, <3>1 DEF OneCallMore, IsProgress
  <2>4. MakesEvents(procs[p])
    BY <1>2, <2>1, <2>3 DEF MakesEvents, NoEvent, OneCallMore
  <2> QED
    BY <1>1, <1>2, <1>5, <2>2, <2>4 DEF Ordered
<1> HIDE DEF u, j, k
<1>6. /\ Len(u \o k) = Len(u) + Len(k) /\ Len(u \o j) = Len(u) + Len(j)
      /\ u \o (j \o e) = (u \o j) \o e
  <2>1. e \in Seq(Events)
    BY <1>3
  <2>2. Len(u \o k) = Len(u) + Len(k)
    BY <1>4, ConcatProperties
  <2>3. Len(u \o j) = Len(u) + Len(j)
    BY <1>4, ConcatProperties
  <2>4. u \o (j \o e) = (u \o j) \o e
    <3>1. /\ u \in Seq(Events) /\ j \in Seq(Events)
      BY <1>4
    <3>2. Longer(u \o j, u \o (j \o e), e, TRUE)
      BY <2>1, <3>1, LongerFirst
    <3> QED
      BY <3>2 DEF Longer
  <2> QED
    BY <2>2, <2>3, <2>4
<1>7. Len(u) \in Nat /\ Len(k) \in Nat /\ Len(j) \in Nat /\ Len(e) \in Nat
  BY <1>3, <1>4, LenProperties
<1>8. Len(u \o k) = Len(u \o j) + Len(e)
  <2>1. Len(k) = Len(j) + Len(e)
    BY <1>3
  <2> QED
    BY <1>6, <1>7, <2>1
<1>9. Placed(script, n, b) = u \o j /\ Placed(script, n, b2) = u \o k
  BY DEF Placed, u, j, k
<1> QED
  BY <1>3, <1>5, <1>6, <1>8, <1>9

-----------------------------------------------------------------------------
(***************************************************************************)
(* The tracing of a script: in stage n with progress b, ic the processes   *)
(* inside a call, gn those that have exited, ls what strace printed and cs *)
(* the calls entered.  What is ingested of ls are the events of cs, each   *)
(* call counted once, and they are as many as the progress of the          *)
(* processes makes, and those in that order where the script is Ordered.   *)
(***************************************************************************)
Tracing(script, n, b, ic, gn, ls, cs) ==
    /\ n \in 1 .. Len(script)
    /\ b \in [DOMAIN script[n] -> Nat] /\ IsProgress(script[n], b)
    /\ ic \subseteq DOMAIN script[n] /\ gn \subseteq DOMAIN script[n]
    /\ \A p \in ic : b[p] >= 1
    /\ \A p \in gn : b[p] = Len(script[n][p])
    /\ ls \in Seq(Lines) /\ cs \in Seq(TracedCalls)
    /\ raw_syscall_lines_seen(ls) = Len(cs)
    /\ Ingest(ls) = Ingest(PrintedAll(cs))
    /\ Len(Ingest(ls)) = Len(Placed(script, n, b))
    /\ Ordered(script) => Ingest(ls) = Placed(script, n, b)

LEMMA NoneIsProgress ==
    ASSUME NEW script \in Scripts, NEW n \in 1 .. Len(script)
    PROVE  /\ None(script[n]) \in [DOMAIN script[n] -> Nat]
           /\ IsProgress(script[n], None(script[n]))
<1>1. script[n] \in Processes
  BY ScriptTyped
<1> QED
  BY <1>1, ProcessesTyped DEF None

LEMMA TracingStarts ==
    ASSUME NEW script \in Scripts
    PROVE  Tracing(script, 1, None(script[1]), {}, {}, << >>, << >>)
<1>1. 1 \in 1 .. Len(script)
  BY ScriptTyped
<1>2. /\ << >> \in Seq(Lines) /\ << >> \in Seq(TracedCalls)
      /\ Len(<< >>) = 0 /\ DOMAIN << >> = {}
  BY EmptySeq
<1>3. PrintedAll(<< >>) = << >>
  <2>1. PrintedAll(<< >>) \in Seq(Lines) /\ Len(PrintedAll(<< >>)) = 0
    BY <1>2, PrintedAllTyped
  <2> QED
    BY <2>1, EmptySeq
<1>4. Placed(script, 1, None(script[1])) = << >>
  <2>1. PICK n \in 1 .. Len(script) : n = 1
    BY <1>1
  <2>2. Placed(script, n, None(script[n])) = Stages(script)[n - 1]
        /\ Stages(script)[0] = << >>
    BY PlacedAtEnds
  <2>3. n - 1 = 0
    BY <2>1
  <2> QED
    BY <2>1, <2>2, <2>3
<1>5. Ingest(<< >>) = << >> /\ raw_syscall_lines_seen(<< >>) = 0
  BY IngestEmpty, SeenEmpty
<1>6. /\ None(script[1]) \in [DOMAIN script[1] -> Nat]
      /\ IsProgress(script[1], None(script[1]))
  BY <1>1, NoneIsProgress
<1> QED
  BY <1>1, <1>2, <1>3, <1>4, <1>5, <1>6 DEF Tracing

(***************************************************************************)
(* A line that names no call changes nothing of what is ingested.          *)
(***************************************************************************)
LEMMA QuietLine ==
    ASSUME NEW ls \in Seq(Lines), NEW line \in Lines, ~ NamesACall(line)
    PROVE  /\ Append(ls, line) \in Seq(Lines)
           /\ Ingest(Append(ls, line)) = Ingest(ls)
           /\ raw_syscall_lines_seen(Append(ls, line)) = raw_syscall_lines_seen(ls)
<1>1. parse_strace_line(line) = << >>
  BY ParsedTyped
<1>2. /\ Ingest(ls) \in Seq(Events)
      /\ Ingest(Append(ls, line)) = Ingest(ls) \o << >>
  BY <1>1, IngestAppend
<1>3. Ingest(ls) \o << >> = Ingest(ls)
  BY <1>2, ConcatEmptySeq
<1>4. raw_syscall_lines_seen(Append(ls, line)) = raw_syscall_lines_seen(ls)
  <2>1. /\ raw_syscall_lines_seen(ls) \in Nat
        /\ raw_syscall_lines_seen(Append(ls, line))
              = raw_syscall_lines_seen(ls) + (IF NamesACall(line) THEN 1 ELSE 0)
    BY SeenAppend
  <2> QED
    BY <2>1
<1> QED
  BY <1>2, <1>3, <1>4, AppendProperties

LEMMA TracingQuiet ==
    ASSUME NEW script \in Scripts, NEW n, NEW b, NEW ic, NEW gn, NEW ls, NEW cs,
           Tracing(script, n, b, ic, gn, ls, cs),
           NEW line \in Lines, ~ NamesACall(line),
           NEW ic2, NEW gn2, ic2 \subseteq ic, gn2 \subseteq DOMAIN script[n],
           \A p \in gn2 : p \in gn \/ b[p] = Len(script[n][p])
    PROVE  /\ Tracing(script, n, b, ic2, gn2, ls, cs)
           /\ Tracing(script, n, b, ic2, gn2, Append(ls, line), cs)
<1>1. Tracing(script, n, b, ic2, gn2, ls, cs)
  BY DEF Tracing
<1>2. ls \in Seq(Lines)
  BY DEF Tracing
<1>3. /\ Append(ls, line) \in Seq(Lines)
      /\ Ingest(Append(ls, line)) = Ingest(ls)
      /\ raw_syscall_lines_seen(Append(ls, line)) = raw_syscall_lines_seen(ls)
  BY <1>2, QuietLine
<1> QED
  BY <1>1, <1>3 DEF Tracing

LEMMA TracingEnters ==
    ASSUME NEW script \in Scripts, NEW n, NEW b, NEW ic, NEW gn, NEW ls, NEW cs,
           Tracing(script, n, b, ic, gn, ls, cs),
           NEW p \in DOMAIN script[n] \ (ic \cup gn),
           b[p] < Len(script[n][p])
    PROVE  LET c == script[n][p][b[p] + 1]
           IN  Tracing(script, n, [b EXCEPT ![p] = @ + 1], ic \cup {p}, gn,
                       Append(ls, Printed(c)), Append(cs, c))
<1> DEFINE c == script[n][p][b[p] + 1]
           b2 == [b EXCEPT ![p] = @ + 1]
           e == parse_strace_line(Printed(c))
           ls2 == Append(ls, Printed(c))
           cs2 == Append(cs, c)
<1>1. /\ n \in 1 .. Len(script)
      /\ b \in [DOMAIN script[n] -> Nat] /\ IsProgress(script[n], b)
      /\ ls \in Seq(Lines) /\ cs \in Seq(TracedCalls)
      /\ raw_syscall_lines_seen(ls) = Len(cs)
      /\ Ingest(ls) = Ingest(PrintedAll(cs))
      /\ Len(Ingest(ls)) = Len(Placed(script, n, b))
      /\ Ordered(script) => Ingest(ls) = Placed(script, n, b)
  BY DEF Tracing
<1>2. script[n] \in Processes
  BY <1>1, ScriptTyped
<1>3. /\ DOMAIN script[n] = 1 .. Len(script[n]) /\ p \in 1 .. Len(script[n])
      /\ script[n][p] \in Seq(TracedCalls) /\ Len(script[n][p]) \in Nat
      /\ b[p] \in Nat
  BY <1>1, <1>2, ProcessesTyped
<1>4. c \in TracedCalls
  <2>1. b[p] + 1 \in 1 .. Len(script[n][p])
    BY <1>3
  <2> QED
    BY <1>3, <2>1, ElementOfSeq
<1>5. b2 \in [DOMAIN script[n] -> Nat]
  BY <1>1, <1>3
<1>6. OneCallMore(script[n], b, p, b2, e)
  BY <1>1, <1>3 DEF OneCallMore
<1>7. Printed(c) \in Lines /\ NamesACall(Printed(c))
  BY <1>4, PrintedTyped
<1> HIDE DEF c, b2, e
<1>8. /\ IsProgress(script[n], b2) /\ e \in Seq(Events)
      /\ Len(Placed(script, n, b2)) = Len(Placed(script, n, b)) + Len(e)
      /\ Ordered(script) =>
             Placed(script, n, b2) = Placed(script, n, b) \o e
  BY <1>1, <1>3, <1>6, PlacedGrows, SMTT(30)
<1>9. /\ Ingest(ls) \in Seq(Events) /\ Ingest(ls2) = Ingest(ls) \o e
      /\ ls2 \in Seq(Lines)
  <2>1. Ingest(ls2) = Ingest(ls) \o parse_strace_line(Printed(c))
        /\ Ingest(ls) \in Seq(Events)
    BY <1>1, <1>7, IngestAppend
  <2> QED
    BY <1>1, <1>7, <2>1, AppendProperties DEF e
<1>10. raw_syscall_lines_seen(ls2) = Len(cs2) /\ cs2 \in Seq(TracedCalls)
  <2>1. /\ raw_syscall_lines_seen(ls) \in Nat
        /\ raw_syscall_lines_seen(ls2)
             = raw_syscall_lines_seen(ls)
                 + (IF NamesACall(Printed(c)) THEN 1 ELSE 0)
    BY <1>1, <1>7, SeenAppend
  <2>2. Len(cs2) = Len(cs) + 1 /\ cs2 \in Seq(TracedCalls)
    BY <1>1, <1>4, AppendProperties
  <2> QED
    BY <1>1, <1>7, <2>1, <2>2
<1>11. Ingest(ls2) = Ingest(PrintedAll(cs2))
  <2>1. PrintedAll(cs2) = Append(PrintedAll(cs), Printed(c))
    BY <1>1, <1>4, PrintedAllAppend
  <2>2. PrintedAll(cs) \in Seq(Lines)
    BY <1>1, PrintedAllTyped
  <2>3. Ingest(Append(PrintedAll(cs), Printed(c)))
          = Ingest(PrintedAll(cs)) \o parse_strace_line(Printed(c))
    BY <1>7, <2>2, IngestAppend
  <2> QED
    BY <1>1, <1>9, <2>1, <2>3 DEF e
<1>12. Len(Ingest(ls2)) = Len(Placed(script, n, b2))
  <2>1. Len(Ingest(ls) \o e) = Len(Ingest(ls)) + Len(e)
    BY <1>8, <1>9, ConcatProperties
  <2> QED
    BY <1>1, <1>8, <1>9, <2>1
<1>13. Ordered(script) => Ingest(ls2) = Placed(script, n, b2)
  BY <1>1, <1>8, <1>9
<1>14. /\ ic \cup {p} \subseteq DOMAIN script[n]
       /\ gn \subseteq DOMAIN script[n]
  BY DEF Tracing
<1>15. \A r \in ic \cup {p} : b2[r] >= 1
  <2>1. \A r \in ic : b[r] >= 1 /\ b[r] \in Nat /\ r \in DOMAIN script[n] /\ r # p
    BY <1>1 DEF Tracing
  <2> QED
    BY <1>1, <1>3, <2>1 DEF b2
<1>16. \A r \in gn : b2[r] = Len(script[n][r])
  <2>1. \A r \in gn : b[r] = Len(script[n][r]) /\ r \in DOMAIN script[n] /\ r # p
    BY DEF Tracing
  <2> QED
    BY <1>1, <2>1 DEF b2
<1>17. Tracing(script, n, b2, ic \cup {p}, gn, ls2, cs2)
  BY <1>1, <1>5, <1>8, <1>9, <1>10, <1>11, <1>12, <1>13, <1>14, <1>15, <1>16
     DEF Tracing
<1> QED
  BY <1>17 DEF c, b2

LEMMA TracingGone ==
    ASSUME NEW script \in Scripts, NEW n, NEW b, NEW ic, NEW gn, NEW ls, NEW cs,
           Tracing(script, n, b, ic, gn, ls, cs), gn = DOMAIN script[n]
    PROVE  b = Full(script[n])
  BY DEF Tracing, Full

LEMMA TracingNextStage ==
    ASSUME NEW script \in Scripts, NEW n, NEW b, NEW ic, NEW gn, NEW ls, NEW cs,
           Tracing(script, n, b, ic, gn, ls, cs), gn = DOMAIN script[n],
           n < Len(script)
    PROVE  Tracing(script, n + 1, None(script[n + 1]), {}, {}, ls, cs)
<1>1. n \in 1 .. Len(script) /\ b = Full(script[n])
  <2>1. n \in 1 .. Len(script)
    BY DEF Tracing
  <2>2. b = Full(script[n])
    BY TracingGone
  <2> QED
    BY <2>1, <2>2
<1>2. PICK m \in 1 .. Len(script) : m = n + 1 /\ m - 1 = n
  BY <1>1, ScriptTyped
<1>3. Placed(script, m, None(script[m])) = Placed(script, n, b)
  <2>1. Placed(script, m, None(script[m])) = Stages(script)[m - 1]
    BY PlacedAtEnds
  <2>2. Placed(script, n, Full(script[n])) = Stages(script)[n]
    BY <1>1, PlacedAtEnds
  <2> QED
    BY <1>1, <1>2, <2>1, <2>2
<1>4. /\ None(script[m]) \in [DOMAIN script[m] -> Nat]
      /\ IsProgress(script[m], None(script[m]))
  BY NoneIsProgress
<1>5. Tracing(script, m, None(script[m]), {}, {}, ls, cs)
  BY <1>3, <1>4 DEF Tracing
<1> QED
  BY <1>2, <1>5

(***************************************************************************)
(* A TraceRun is one of a script: as many events as the script makes in    *)
(* whatever order its processes run, and the same ones where it is         *)
(* Ordered, under the digest of the events.                                *)
(***************************************************************************)
Whole(script) == Stages(script)[Len(script)]

LEMMA HappenedWhole ==
    ASSUME NEW process \in Seq(TracedCalls)
    PROVE  /\ Happened(process)[Len(process)] = Ingest(PrintedAll(process))
           /\ Ingest(PrintedAll(process)) \in Seq(Events)
<1> DEFINE s == PrintedAll(process)
           g == Happened(process)
           k == Len(process)
<1>1. s \in Seq(Lines) /\ Len(s) = k /\ k \in Nat /\ k \in 0 .. k
  BY PrintedAllTyped, LenProperties
<1>2. PICK f : IsIngest(f, s) /\ Ingest(s) = f[Len(s)]
  BY <1>1, IngestIs
<1>3. IsIngest(g, s)
  BY <1>2 DEF Happened
<1>4. f[k] = g[k]
  <2>1. k <= Len(s) /\ \A n \in 1 .. k : s[n] = s[n]
    BY <1>1
  <2> HIDE DEF s, g, k
  <2> QED
    BY <1>1, <1>2, <1>3, <2>1, IngestAgree
<1>5. g[k] \in Seq(Events)
  BY <1>1, HappenedIs
<1> QED
  BY <1>1, <1>2, <1>4, <1>5

(***************************************************************************)
(* One process after the other, one stage after the other: InTurn.         *)
(***************************************************************************)
StageInTurn(procs) ==
    FlattenSeq([p \in DOMAIN procs |-> Ingest(PrintedAll(procs[p]))])

LEMMA JoinedInTurn ==
    ASSUME NEW procs \in Processes
    PROVE  Joined(procs, Full(procs)) = StageInTurn(procs)
<1> DEFINE N == Len(procs)
           b == Full(procs)
           seqs == [p \in DOMAIN procs |-> Ingest(PrintedAll(procs[p]))]
<1>1. /\ N \in Nat /\ IsProgress(procs, b) /\ DOMAIN procs = 1 .. N
      /\ \A n \in 1 .. N : procs[n] \in Seq(TracedCalls) /\ b[n] = Len(procs[n])
  BY ProcessesTyped DEF Full
<1>2. \A n \in 1 .. N : /\ seqs[n] \in Seq(Events)
                         /\ seqs[n] = Happened(procs[n])[b[n]]
  BY <1>1, HappenedWhole
<1>3. seqs \in [1 .. N -> Seq(Events)]
  BY <1>1, <1>2
<1> HIDE DEF seqs, b
<1>4. seqs \in Seq(Seq(Events)) /\ Len(seqs) = N
  BY <1>1, <1>3, FunctionIsSeq
<1>5. PICK f : IsJoin(f, procs, b) /\ Joined(procs, b) = f[N]
  BY <1>1, JoinIs
<1>6. PICK g : IsFlatten(g, seqs, Events) /\ FlattenSeq(seqs) = g[Len(seqs)]
  BY <1>4, FlattenIs
<1>7. IsFlatten(f, seqs, Events)
  BY <1>2, <1>4, <1>5 DEF IsJoin, IsFlatten
<1>8. f[N] = g[N]
  <2>1. N <= Len(seqs) /\ \A n \in 1 .. N : seqs[n] = seqs[n]
    BY <1>1, <1>4
  <2> HIDE DEF N
  <2> QED
    BY <1>1, <1>4, <1>6, <1>7, <2>1, FlattenAgree
<1> QED
  BY <1>4, <1>5, <1>6, <1>8 DEF StageInTurn, seqs, b

LEMMA WholeInTurn ==
    ASSUME NEW script \in Scripts
    PROVE  Whole(script) = InTurn(script)
<1> DEFINE N == Len(script)
           seqs == [n \in DOMAIN script |-> StageInTurn(script[n])]
           f == Stages(script)
<1>1. /\ N \in Nat /\ DOMAIN script = 1 .. N
      /\ \A n \in 1 .. N : script[n] \in Processes
  BY ScriptTyped
<1>2. \A n \in 1 .. N : /\ seqs[n] = Joined(script[n], Full(script[n]))
                         /\ seqs[n] \in Seq(Events)
  BY <1>1, JoinedInTurn, JoinTyped, ProcessesTyped
<1>3. seqs \in [1 .. N -> Seq(Events)]
  BY <1>1, <1>2
<1>4. FlattenSeq(seqs) = InTurn(script)
  BY DEF InTurn, StageInTurn
<1> HIDE DEF seqs
<1>5. seqs \in Seq(Seq(Events)) /\ Len(seqs) = N
  BY <1>1, <1>3, FunctionIsSeq
<1>6. PICK g : IsFlatten(g, seqs, Events) /\ FlattenSeq(seqs) = g[Len(seqs)]
  BY <1>5, FlattenIs
<1>7. IsFlatten(f, seqs, Events)
  <2>1. IsStages(f, script)
    BY StagesIs
  <2> HIDE DEF f
  <2> QED
    BY <1>2, <1>5, <2>1 DEF IsStages, IsFlatten
<1>8. f[N] = g[N]
  <2>1. N <= Len(seqs) /\ \A n \in 1 .. N : seqs[n] = seqs[n]
    BY <1>1, <1>5
  <2> HIDE DEF N, f
  <2> QED
    BY <1>1, <1>5, <1>6, <1>7, <2>1, FlattenAgree
<1> QED
  BY <1>4, <1>5, <1>6, <1>8 DEF Whole

RunOf(script, r) ==
    /\ Len(r.events) = Len(Whole(script))
    /\ Ordered(script) => r.events = Whole(script)
    /\ r.digest = ksentry_fast(field_elements(r.events)).acc

Counted(r, cs) ==
    /\ r.raw_syscall_lines_seen = Len(cs)
    /\ r.events = Ingest(PrintedAll(cs))

LEMMA TracingBuilt ==
    ASSUME NEW script \in Scripts, NEW n, NEW b, NEW ic, NEW gn, NEW ls, NEW cs,
           Tracing(script, n, b, ic, gn, ls, cs), gn = DOMAIN script[n],
           ~ (n < Len(script))
    PROVE  /\ RunOf(script, build_trace_run(ls))
           /\ Counted(build_trace_run(ls), cs)
<1>1. /\ n \in 1 .. Len(script) /\ n = Len(script)
      /\ b = Full(script[n])
  <2>1. n \in 1 .. Len(script)
    BY DEF Tracing
  <2>2. b = Full(script[n])
    BY TracingGone
  <2> QED
    BY <2>1, <2>2, ScriptTyped
<1>2. Placed(script, n, b) = Whole(script)
  <2>1. Placed(script, n, Full(script[n])) = Stages(script)[n]
    BY <1>1, PlacedAtEnds
  <2> QED
    BY <1>1, <2>1 DEF Whole
<1> DEFINE r == build_trace_run(ls)
<1>3. /\ r.raw_syscall_lines_seen = raw_syscall_lines_seen(ls)
      /\ r.events = Ingest(ls)
      /\ r.digest = ksentry_fast(field_elements(Ingest(ls))).acc
  BY DEF build_trace_run
<1> HIDE DEF r
<1>4. RunOf(script, r)
  BY <1>2, <1>3 DEF RunOf, Tracing
<1>5. Counted(r, cs)
  BY <1>3 DEF Counted, Tracing
<1> QED
  BY <1>4, <1>5 DEF r

(***************************************************************************)
(* What compare_trace_runs makes of two of them.                           *)
(***************************************************************************)
VerdictOf(v, exp, obs) ==
    /\ v = "METADATA_MISMATCH_LENGTH" <=> Len(InTurn(exp)) # Len(InTurn(obs))
    /\ Ordered(exp) /\ Ordered(obs) =>
         v = compare_trace_runs(RunInTurn(exp), RunInTurn(obs))

LEMMA RunsCompared ==
    ASSUME NEW exp \in Scripts, NEW obs \in Scripts, NEW r, NEW s,
           RunOf(exp, r), RunOf(obs, s)
    PROVE  VerdictOf(compare_trace_runs(r, s), exp, obs)
<1>1. /\ Len(r.events) = Len(InTurn(exp)) /\ Len(s.events) = Len(InTurn(obs))
      /\ Ordered(exp) => r.events = InTurn(exp)
      /\ Ordered(obs) => s.events = InTurn(obs)
  BY WholeInTurn DEF RunOf
<1>2. compare_trace_runs(r, s) = "METADATA_MISMATCH_LENGTH"
        <=> Len(r.events) # Len(s.events)
  BY DEF compare_trace_runs
<1>3. ASSUME Ordered(exp), Ordered(obs)
      PROVE  compare_trace_runs(r, s)
               = compare_trace_runs(RunInTurn(exp), RunInTurn(obs))
  <2>1. /\ r.events = RunInTurn(exp).events /\ s.events = RunInTurn(obs).events
        /\ r.digest = RunInTurn(exp).digest /\ s.digest = RunInTurn(obs).digest
    BY <1>1, <1>3 DEF RunOf, RunInTurn
  <2> QED
    BY <2>1 DEF compare_trace_runs
<1> QED
  BY <1>1, <1>2, <1>3 DEF VerdictOf

LEMMA VerdictsOf ==
    Repeatable <=> \A n \in DOMAIN verdicts :
                      VerdictOf(verdicts[n], Cases[n].expected, Cases[n].observed)
  BY DEF Repeatable, VerdictOf, VerdictInTurn

-----------------------------------------------------------------------------
(***************************************************************************)
(* The inductive invariant of the tracing: where the program is in the     *)
(* cases, the script being traced, the TraceRun built last, the one of the *)
(* expected script, and the verdicts.                                      *)
(***************************************************************************)
CaseInv ==
    /\ case \in 1 .. (Len(Cases) + 1)
    /\ side \in {"expected", "observed"}
    /\ phase \in {"idle", "tracing", "built"}
    /\ phase # "idle" \/ side = "observed" => case <= Len(Cases)

TracingInv ==
    phase = "tracing" => Tracing(Script, stage, begun, inCall, gone, lines, calls)

BuiltInv == phase = "built" => RunOf(Script, run) /\ Counted(run, calls)

ExpectedInv == side = "observed" => RunOf(Cases[case].expected, expected)

Statuses == {"CLEAN", "METADATA_MISMATCH_LENGTH", "DIGEST_MISMATCH_SAME_LENGTH"}

VerdictInv == verdicts \in Seq(Statuses) /\ Len(verdicts) = case - 1

TraceInv ==
    CaseInv /\ TracingInv /\ BuiltInv /\ ExpectedInv /\ VerdictInv /\ Repeatable

LEMMA CasesTyped ==
    /\ Len(Cases) \in Nat /\ DOMAIN Cases = 1 .. Len(Cases) /\ Len(Cases) >= 1
    /\ \A n \in 1 .. Len(Cases) : Cases[n] \in [expected : Scripts, observed : Scripts]
<1>1. Cases \in Seq([expected : Scripts, observed : Scripts]) /\ Cases # << >>
  BY TraceAssumption
<1>2. Len(Cases) \in Nat /\ DOMAIN Cases = 1 .. Len(Cases)
  BY <1>1, LenProperties
<1>3. Len(Cases) # 0
  BY <1>1, EmptySeq
<1>4. \A n \in 1 .. Len(Cases) : Cases[n] \in [expected : Scripts, observed : Scripts]
  BY <1>1, ElementOfSeq
<1> QED
  BY <1>2, <1>3, <1>4

LEMMA ScriptInScripts ==
    ASSUME CaseInv, case <= Len(Cases)
    PROVE  Script \in Scripts /\ Cases[case].expected \in Scripts
<1>1. case \in 1 .. Len(Cases)
  BY CasesTyped DEF CaseInv
<1>2. Cases[case] \in [expected : Scripts, observed : Scripts]
  BY <1>1, CasesTyped
<1> QED
  BY <1>2 DEF CaseInv, Script

LEMMA TraceStarts ==
    /\ TraceInit => TraceInv
    /\ TraceReset => TraceInv'
<1>1. 1 \in 1 .. (Len(Cases) + 1) /\ << >> \in Seq(Statuses) /\ Len(<< >>) = 0
  BY CasesTyped, EmptySeq
<1>2. DOMAIN << >> = {}
  BY EmptySeq
<1>3. ASSUME TraceInit PROVE TraceInv
  BY <1>1, <1>2, <1>3 DEF TraceInit, TraceInv, CaseInv, TracingInv, BuiltInv,
     ExpectedInv, VerdictInv, Repeatable
<1>4. ASSUME TraceReset PROVE TraceInv'
  BY <1>1, <1>2, <1>4 DEF TraceReset, TraceInv, CaseInv, TracingInv, BuiltInv,
     ExpectedInv, VerdictInv, Repeatable
<1> QED
  BY <1>3, <1>4

LEMMA StartStraceKeeps ==
    ASSUME TraceInv, StartStrace
    PROVE  TraceInv'
<1>1. Script \in Scripts /\ Script' = Script
  BY ScriptInScripts DEF TraceInv, StartStrace, Script
<1>2. CaseInv' /\ BuiltInv' /\ ExpectedInv' /\ VerdictInv' /\ Repeatable'
  BY DEF TraceInv, StartStrace, CaseInv, BuiltInv, ExpectedInv, VerdictInv,
         Repeatable
<1>3. TracingInv'
  <2>1. Tracing(Script, 1, None(Script[1]), {}, {}, << >>, << >>)
    BY <1>1, TracingStarts
  <2>2. /\ stage' = 1 /\ begun' = None(Script[1]) /\ inCall' = {} /\ gone' = {}
        /\ lines' = << >> /\ calls' = << >>
    BY DEF StartStrace, StageStarts, None
  <2> QED
    BY <1>1, <2>1, <2>2 DEF TracingInv
<1> QED
  BY <1>2, <1>3 DEF TraceInv

(***************************************************************************)
(* A step of the traced script.                                            *)
(***************************************************************************)
LEMMA CallKeeps ==
    ASSUME TraceInv, phase = "tracing",
           UNCHANGED <<case, side, phase, run, expected, verdicts>>,
           Script \in Scripts =>
             Tracing(Script, stage', begun', inCall', gone', lines', calls')
    PROVE  TraceInv'
<1>1. Script \in Scripts /\ Script' = Script
  BY ScriptInScripts DEF TraceInv, CaseInv, Script
<1>2. CaseInv' /\ BuiltInv' /\ ExpectedInv' /\ VerdictInv' /\ Repeatable'
  BY DEF TraceInv, CaseInv, BuiltInv, ExpectedInv, VerdictInv, Repeatable
<1>3. TracingInv'
  BY <1>1 DEF TracingInv
<1> QED
  BY <1>2, <1>3 DEF TraceInv

LEMMA EnterCallKeeps ==
    ASSUME TraceInv, NEW p, EnterCall(p)
    PROVE  TraceInv'
<1>1. phase = "tracing" /\ UNCHANGED <<case, side, phase, run, expected, verdicts>>
  BY DEF EnterCall
<1>2. ASSUME Script \in Scripts
      PROVE  Tracing(Script, stage', begun', inCall', gone', lines', calls')
  <2> DEFINE c == Script[stage][p][begun[p] + 1]
  <2>1. Tracing(Script, stage, begun, inCall, gone, lines, calls)
    BY <1>1 DEF TraceInv, TracingInv
  <2>2. /\ p \in DOMAIN Script[stage] \ (inCall \cup gone)
        /\ begun[p] < Len(Script[stage][p])
    BY DEF EnterCall, Procs
  <2>3. Tracing(Script, stage, [begun EXCEPT ![p] = @ + 1], inCall \cup {p}, gone,
                Append(lines, Printed(c)), Append(calls, c))
    BY <1>2, <2>1, <2>2, TracingEnters
  <2>4. /\ stage' = stage /\ begun' = [begun EXCEPT ![p] = @ + 1]
        /\ inCall' = inCall \cup {p} /\ gone' = gone
        /\ lines' = Append(lines, Printed(c)) /\ calls' = Append(calls, c)
    BY DEF EnterCall, Printed
  <2> HIDE DEF c
  <2> QED
    BY <2>3, <2>4
<1> QED
  BY <1>1, <1>2, CallKeeps

LEMMA ReturnFromCallKeeps ==
    ASSUME TraceInv, NEW p, ReturnFromCall(p)
    PROVE  TraceInv'
<1>1. phase = "tracing" /\ UNCHANGED <<case, side, phase, run, expected, verdicts>>
  BY DEF ReturnFromCall
<1>2. ASSUME Script \in Scripts
      PROVE  Tracing(Script, stage', begun', inCall', gone', lines', calls')
  <2> DEFINE line == [text |-> "resumed", call |-> Script[stage][p][begun[p]].call,
                      arg |-> NoArg]
  <2>1. Tracing(Script, stage, begun, inCall, gone, lines, calls)
    BY <1>1 DEF TraceInv, TracingInv
  <2>2. p \in inCall
    BY DEF ReturnFromCall
  <2>3. line \in Lines /\ ~ NamesACall(line)
    <3>1. stage \in 1 .. Len(Script) /\ p \in DOMAIN Script[stage]
      BY <2>1, <2>2 DEF Tracing
    <3>2. Script[stage] \in Processes
      BY <1>2, <3>1, ScriptTyped
    <3>3. Script[stage][p] \in Seq(TracedCalls) /\ p \in 1 .. Len(Script[stage])
      BY <3>1, <3>2, ProcessesTyped
    <3>4. begun[p] \in 1 .. Len(Script[stage][p])
      BY <2>1, <2>2, <3>2, <3>3, ProcessesTyped DEF Tracing, IsProgress
    <3>5. Script[stage][p][begun[p]] \in TracedCalls
      BY <3>3, <3>4, ElementOfSeq
    <3> QED
      BY <3>5 DEF Lines, NamesACall, TracedCalls
  <2>4. /\ stage' = stage /\ begun' = begun
        /\ inCall' = inCall \ {p} /\ gone' = gone /\ calls' = calls
        /\ lines' = lines \/ lines' = Append(lines, line)
    BY DEF ReturnFromCall
  <2> HIDE DEF line
  <2>5. inCall \ {p} \subseteq inCall /\ gone \subseteq DOMAIN Script[stage]
    BY <2>1 DEF Tracing
  <2>6. /\ Tracing(Script, stage, begun, inCall \ {p}, gone, lines, calls)
        /\ Tracing(Script, stage, begun, inCall \ {p}, gone,
                   Append(lines, line), calls)
    BY <1>2, <2>1, <2>3, <2>5, TracingQuiet
  <2> QED
    BY <2>4, <2>6
<1> QED
  BY <1>1, <1>2, CallKeeps

LEMMA ExitKeeps ==
    ASSUME TraceInv, NEW p, Exit(p)
    PROVE  TraceInv'
<1>1. phase = "tracing" /\ UNCHANGED <<case, side, phase, run, expected, verdicts>>
  BY DEF Exit
<1>2. ASSUME Script \in Scripts
      PROVE  Tracing(Script, stage', begun', inCall', gone', lines', calls')
  <2> DEFINE line == [text |-> "exited", call |-> "none", arg |-> NoArg]
  <2>1. Tracing(Script, stage, begun, inCall, gone, lines, calls)
    BY <1>1 DEF TraceInv, TracingInv
  <2>2. p \in DOMAIN Script[stage] /\ begun[p] = Len(Script[stage][p])
    BY DEF Exit, Procs
  <2>3. line \in Lines /\ ~ NamesACall(line)
    BY DEF Lines, NamesACall
  <2>4. /\ stage' = stage /\ begun' = begun
        /\ inCall' = inCall /\ gone' = gone \cup {p} /\ calls' = calls
        /\ lines' = Append(lines, line)
    BY DEF Exit
  <2> HIDE DEF line
  <2>5. /\ gone \cup {p} \subseteq DOMAIN Script[stage]
        /\ \A r \in gone \cup {p} : r \in gone \/ begun[r] = Len(Script[stage][r])
    BY <2>1, <2>2 DEF Tracing
  <2>6. Tracing(Script, stage, begun, inCall, gone \cup {p},
                Append(lines, line), calls)
    BY <1>2, <2>1, <2>3, <2>5, TracingQuiet
  <2> QED
    BY <2>4, <2>6
<1> QED
  BY <1>1, <1>2, CallKeeps

LEMMA NextStageKeeps ==
    ASSUME TraceInv, NextStage
    PROVE  TraceInv'
<1>1. phase = "tracing" /\ UNCHANGED <<case, side, phase, run, expected, verdicts>>
  BY DEF NextStage
<1>2. ASSUME Script \in Scripts
      PROVE  Tracing(Script, stage', begun', inCall', gone', lines', calls')
  <2>1. Tracing(Script, stage, begun, inCall, gone, lines, calls)
    BY <1>1 DEF TraceInv, TracingInv
  <2>2. gone = DOMAIN Script[stage] /\ stage < Len(Script)
    BY DEF NextStage, Procs
  <2>3. Tracing(Script, stage + 1, None(Script[stage + 1]), {}, {}, lines, calls)
    BY <1>2, <2>1, <2>2, TracingNextStage
  <2>4. /\ stage' = stage + 1 /\ begun' = None(Script[stage + 1])
        /\ inCall' = {} /\ gone' = {} /\ lines' = lines /\ calls' = calls
    BY DEF NextStage, StageStarts, None
  <2> QED
    BY <2>3, <2>4
<1> QED
  BY <1>1, <1>2, CallKeeps

LEMMA BuildRunKeeps ==
    ASSUME TraceInv, BuildRun
    PROVE  TraceInv'
<1>1. Script \in Scripts /\ Script' = Script
  BY ScriptInScripts DEF TraceInv, CaseInv, BuildRun, Script
<1>2. CaseInv' /\ TracingInv' /\ ExpectedInv' /\ VerdictInv' /\ Repeatable'
  BY DEF TraceInv, BuildRun, CaseInv, TracingInv, ExpectedInv, VerdictInv,
         Repeatable
<1>3. BuiltInv'
  <2>1. Tracing(Script, stage, begun, inCall, gone, lines, calls)
    BY DEF TraceInv, TracingInv, BuildRun
  <2>2. gone = DOMAIN Script[stage] /\ ~ (stage < Len(Script))
    BY <1>1, ScriptTyped DEF BuildRun, Procs
  <2>3. /\ RunOf(Script, build_trace_run(lines))
        /\ Counted(build_trace_run(lines), calls)
    BY <1>1, <2>1, <2>2, TracingBuilt
  <2>4. run' = build_trace_run(lines) /\ calls' = calls
    BY DEF BuildRun
  <2> QED
    BY <1>1, <2>3, <2>4 DEF BuiltInv
<1> QED
  BY <1>2, <1>3 DEF TraceInv

LEMMA BuildCaseKeeps ==
    ASSUME TraceInv, BuildCase
    PROVE  TraceInv'
<1>1. /\ phase = "built" /\ phase' = "idle" /\ CaseInv /\ VerdictInv
      /\ case \in 1 .. Len(Cases) /\ RunOf(Script, run)
      /\ Cases[case].expected \in Scripts
  <2>1. phase = "built" /\ phase' = "idle" /\ CaseInv /\ VerdictInv
        /\ RunOf(Script, run)
    BY DEF TraceInv, BuiltInv, BuildCase
  <2>2. case \in 1 .. Len(Cases)
    BY <2>1, CasesTyped DEF CaseInv
  <2> QED
    BY <2>1, <2>2, ScriptInScripts
<1>2. TracingInv' /\ BuiltInv'
  BY <1>1 DEF TracingInv, BuiltInv
<1>3. CASE side = "expected"
  <2>1. /\ side' = "observed" /\ expected' = run
        /\ case' = case /\ verdicts' = verdicts
    BY <1>3 DEF BuildCase
  <2>2. CaseInv' /\ VerdictInv'
    BY <1>1, <2>1 DEF CaseInv, VerdictInv
  <2>3. ExpectedInv'
    BY <1>1, <1>3, <2>1 DEF ExpectedInv, Script
  <2>4. Repeatable'
    BY <2>1 DEF TraceInv, Repeatable
  <2> QED
    BY <1>2, <2>2, <2>3, <2>4 DEF TraceInv
<1>4. CASE side = "observed"
  <2> DEFINE v == compare_trace_runs(expected, run)
  <2>1. /\ side' = "expected" /\ case' = case + 1
        /\ verdicts' = Append(verdicts, v)
    BY <1>4 DEF BuildCase
  <2>2. RunOf(Cases[case].expected, expected) /\ RunOf(Cases[case].observed, run)
    BY <1>1, <1>4 DEF TraceInv, ExpectedInv, Script
  <2>3. v \in Statuses
    BY DEF compare_trace_runs, Statuses
  <2>4. VerdictOf(v, Cases[case].expected, Cases[case].observed)
    <3>1. /\ Cases[case].expected \in Scripts
          /\ Cases[case].observed \in Scripts
      BY <1>1, CasesTyped
    <3> QED
      BY <2>2, <3>1, RunsCompared
  <2> HIDE DEF v
  <2>5. /\ Append(verdicts, v) \in Seq(Statuses)
        /\ Len(Append(verdicts, v)) = case /\ Append(verdicts, v)[case] = v
        /\ \A n \in 1 .. (case - 1) : Append(verdicts, v)[n] = verdicts[n]
        /\ DOMAIN Append(verdicts, v) = 1 .. case
        /\ DOMAIN verdicts = 1 .. (case - 1)
    <3>1. verdicts \in Seq(Statuses) /\ Len(verdicts) = case - 1
      BY <1>1 DEF VerdictInv
    <3>2. /\ Append(verdicts, v) \in Seq(Statuses)
          /\ Len(Append(verdicts, v)) = (case - 1) + 1
          /\ Append(verdicts, v)[(case - 1) + 1] = v
          /\ \A n \in 1 .. (case - 1) : Append(verdicts, v)[n] = verdicts[n]
      BY <2>3, <3>1, AppendProperties
    <3>3. (case - 1) + 1 = case
      BY <1>1, CasesTyped
    <3>4. /\ DOMAIN Append(verdicts, v) = 1 .. Len(Append(verdicts, v))
          /\ DOMAIN verdicts = 1 .. Len(verdicts)
      BY <3>1, <3>2, LenProperties
    <3> QED
      BY <3>1, <3>2, <3>3, <3>4
  <2>6. CaseInv' /\ VerdictInv' /\ ExpectedInv'
    BY <1>1, <2>1, <2>5, CasesTyped DEF CaseInv, VerdictInv, ExpectedInv
  <2>7. Repeatable'
    <3>1. ASSUME NEW n \in 1 .. case
          PROVE  VerdictOf(Append(verdicts, v)[n],
                           Cases[n].expected, Cases[n].observed)
      <4>1. CASE n = case
        BY <2>4, <2>5, <4>1
      <4>2. CASE n # case
        <5>1. n \in 1 .. (case - 1)
          BY <1>1, <4>2, CasesTyped
        <5>2. Append(verdicts, v)[n] = verdicts[n] /\ n \in DOMAIN verdicts
          BY <2>5, <5>1
        <5> QED
          BY <5>2, VerdictsOf DEF TraceInv
      <4> QED
        BY <4>1, <4>2
    <3> QED
      BY <2>1, <2>5, <3>1 DEF Repeatable, VerdictOf, VerdictInTurn
  <2> QED
    BY <1>2, <2>6, <2>7 DEF TraceInv
<1> QED
  BY <1>1, <1>3, <1>4 DEF CaseInv

LEMMA TraceStepKeeps ==
    ASSUME TraceInv, TraceStep
    PROVE  TraceInv'
  BY StartStraceKeeps, EnterCallKeeps, ReturnFromCallKeeps, ExitKeeps,
     NextStageKeeps, BuildRunKeeps, BuildCaseKeeps DEF TraceStep

LEMMA TraceUnchanged ==
    ASSUME TraceInv, UNCHANGED traceVars
    PROVE  TraceInv'
<1>1. /\ case' = case /\ side' = side /\ phase' = phase /\ stage' = stage
      /\ begun' = begun /\ inCall' = inCall /\ gone' = gone /\ lines' = lines
      /\ calls' = calls /\ run' = run /\ expected' = expected
      /\ verdicts' = verdicts
  BY DEF traceVars
<1> QED
  BY <1>1 DEF TraceInv, CaseInv, TracingInv, BuiltInv, ExpectedInv, VerdictInv,
              Repeatable, Script

(***************************************************************************)
(* The theorems: for every list of cases.                                  *)
(***************************************************************************)
LEMMA TraceInvAlways == Spec => []TraceInv
<1>1. Init => TraceInv
  BY TraceStarts DEF Init
<1>2. TraceInv /\ [Next]_vars => TraceInv'
  <2>1. SUFFICES ASSUME TraceInv, [Next]_vars PROVE TraceInv'
    OBVIOUS
  <2>2. CASE Verus \/ Test
    BY <2>1, <2>2, TraceUnchanged DEF Verus, Test, Command
  <2>3. CASE BuildCases
    BY <2>1, <2>3, TraceStepKeeps DEF BuildCases
  <2>4. CASE ProgramFails
    BY <2>4, TraceStarts DEF ProgramFails
  <2>5. CASE WriteReport
    BY <2>1, <2>5, TraceUnchanged DEF WriteReport
  <2>6. CASE Evaluate
    BY <2>1, <2>6, TraceUnchanged DEF Evaluate
  <2>7. CASE CoreEnds
    BY <2>7, TraceStarts DEF CoreEnds
  <2>8. CASE CopyNext \/ CopyFails \/ Plot
    BY <2>1, <2>8, TraceUnchanged DEF CopyNext, CopyFails, Plot
  <2>9. CASE UNCHANGED vars
    BY <2>1, <2>9, TraceUnchanged DEF vars
  <2> QED
    BY <2>1, <2>2, <2>3, <2>4, <2>5, <2>6, <2>7, <2>8, <2>9 DEF Next
<1> QED
  BY <1>1, <1>2, PTL DEF Spec

(***************************************************************************)
(* However the calls of the processes of a script overlap, and however     *)
(* strace cuts its lines, build_trace_run counts each call once and keeps  *)
(* the events of the relevant calls in the order they were entered.        *)
(***************************************************************************)
THEOREM CountedOnce == Spec => []CallsCountedOnce
<1>1. TraceInv => CallsCountedOnce
  BY DEF TraceInv, BuiltInv, CallsCountedOnce, Counted
<1> QED
  BY <1>1, TraceInvAlways, PTL

(***************************************************************************)
(* A verdict of build_case is one of the two scripts and not of the        *)
(* scheduler: METADATA_MISMATCH_LENGTH exactly where the scripts make      *)
(* different numbers of events, and all of it what the scripts run in turn *)
(* come to where at most one process of each stage makes events.           *)
(***************************************************************************)
THEOREM VerdictsRepeat == Spec => []Repeatable
<1>1. TraceInv => Repeatable
  BY DEF TraceInv
<1> QED
  BY <1>1, TraceInvAlways, PTL

(***************************************************************************)
(* Where the scripts of the cases come to the verdicts MASTER_REPORT.md    *)
(* lists when they run in turn, and their stages are Ordered, build_case   *)
(* reports these verdicts in every run.                                    *)
(***************************************************************************)
THEOREM DocumentedAlways ==
    CasesAsDocumented /\ Spec => []DocumentedVerdicts
<1>1. CasesAsDocumented => CasesAsDocumented'
  BY DEF CasesAsDocumented
<1>2. CasesAsDocumented /\ TraceInv => DocumentedVerdicts
  <2>1. SUFFICES ASSUME CasesAsDocumented, TraceInv,
                        NEW n \in DOMAIN verdicts \cap DOMAIN Documented
                 PROVE  verdicts[n] = Documented[n]
    BY DEF DocumentedVerdicts
  <2>2. n \in DOMAIN Cases
    <3>1. /\ DOMAIN verdicts = 1 .. (case - 1) /\ case \in 1 .. (Len(Cases) + 1)
          /\ Len(Cases) \in Nat /\ DOMAIN Cases = 1 .. Len(Cases)
      BY <2>1, CasesTyped, LenProperties DEF TraceInv, VerdictInv, CaseInv
    <3> QED
      BY <2>1, <3>1
  <2>3. VerdictOf(verdicts[n], Cases[n].expected, Cases[n].observed)
    BY <2>1, VerdictsOf DEF TraceInv
  <2>4. /\ Ordered(Cases[n].expected) /\ Ordered(Cases[n].observed)
        /\ VerdictInTurn(Cases[n]) = Documented[n]
    BY <2>1, <2>2 DEF CasesAsDocumented
  <2> QED
    BY <2>3, <2>4 DEF VerdictOf, VerdictInTurn
<1> QED
  BY <1>1, <1>2, TraceInvAlways, PTL

-----------------------------------------------------------------------------
(***************************************************************************)
(* The files.  The lists of names, once and for all.                       *)
(***************************************************************************)
Names == {"timefence_report", "bench", "trace_report", "ebpf_report",
          "baseline_bench", "baseline_bench_repeated", "baseline_bench_summary"}

CsvNames == {"baseline_bench", "baseline_bench_repeated",
             "baseline_bench_summary"}

LEMMA NamesAre ==
    /\ CsvOrder[1] = "baseline_bench" /\ CsvOrder[2] = "baseline_bench_repeated"
    /\ CsvOrder[3] = "baseline_bench_summary" /\ Len(CsvOrder) = 3
    /\ Len(Copies) = 7 /\ DOMAIN Copies = 1 .. 7
    /\ \A n \in 1 .. 7 : Copies[n] \in Names
    /\ \A f \in Names : \E n \in 1 .. 7 : Copies[n] = f
    /\ \A m, n \in 1 .. 7 : Copies[m] = Copies[n] => m = n
    /\ Copied = Names /\ Files = Names \cup {"core_report"}
<1> DEFINE s == <<"timefence_report", "bench", "trace_report", "ebpf_report">>
<1>1. /\ CsvOrder[1] = "baseline_bench" /\ CsvOrder[2] = "baseline_bench_repeated"
      /\ CsvOrder[3] = "baseline_bench_summary" /\ Len(CsvOrder) = 3
      /\ CsvOrder \in Seq(Names)
  BY DEF CsvOrder, Names
<1>2. /\ s[1] = "timefence_report" /\ s[2] = "bench" /\ s[3] = "trace_report"
      /\ s[4] = "ebpf_report" /\ Len(s) = 4 /\ s \in Seq(Names)
  BY DEF Names
<1>3. Copies = s \o CsvOrder
  BY DEF Copies
<1> HIDE DEF s
<1>4. /\ Copies \in Seq(Names) /\ Len(Copies) = 7
      /\ \A n \in 1 .. 7 : Copies[n] = IF n <= 4 THEN s[n] ELSE CsvOrder[n - 4]
  <2>1. /\ s \o CsvOrder \in Seq(Names)
        /\ Len(s \o CsvOrder) = Len(s) + Len(CsvOrder)
        /\ \A n \in 1 .. Len(s) + Len(CsvOrder) :
              (s \o CsvOrder)[n] = IF n <= Len(s) THEN s[n]
                                   ELSE CsvOrder[n - Len(s)]
    BY <1>1, <1>2, ConcatProperties
  <2> QED
    BY <1>1, <1>2, <1>3, <2>1
<1>5. DOMAIN Copies = 1 .. 7 /\ \A n \in 1 .. 7 : Copies[n] \in Names
  BY <1>4, LenProperties, ElementOfSeq
<1>6. /\ Copies[1] = "timefence_report" /\ Copies[2] = "bench"
      /\ Copies[3] = "trace_report" /\ Copies[4] = "ebpf_report"
      /\ Copies[5] = "baseline_bench" /\ Copies[6] = "baseline_bench_repeated"
      /\ Copies[7] = "baseline_bench_summary"
  BY <1>1, <1>2, <1>4
<1>7. \A f \in Names : \E n \in 1 .. 7 : Copies[n] = f
  BY <1>6 DEF Names
<1>8. Copied = Names
  BY <1>5, <1>7 DEF Copied
<1>9. \A m, n \in 1 .. 7 : Copies[m] = Copies[n] => m = n
  BY <1>6
<1> QED
  BY <1>1, <1>4, <1>5, <1>7, <1>8, <1>9 DEF Files

(***************************************************************************)
(* What one step of the baselines does to the files: it writes the next    *)
(* one, fails at it, or leaves them alone.                                 *)
(***************************************************************************)
IsSequence(s) == \E S : s \in Seq(S)

Appended(s, t) == IsSequence(t) /\ t # s

LEMMA AppendIsNew ==
    ASSUME NEW s, IsSequence(s), NEW x
    PROVE  Appended(s, Append(s, x))
<1>1. PICK S : s \in Seq(S)
  BY DEF IsSequence
<1> DEFINE T == S \cup {x}
<1>2. s \in Seq(T) /\ x \in T
  <2>1. Len(s) \in Nat /\ s \in [1 .. Len(s) -> S]
    BY <1>1, LenProperties
  <2>2. s \in [1 .. Len(s) -> T]
    BY <2>1
  <2> HIDE DEF T
  <2>3. s = [n \in 1 .. Len(s) |-> s[n]] /\ \A n \in 1 .. Len(s) : s[n] \in T
    BY <2>2
  <2>4. s \in Seq(T)
    BY <2>1, <2>2, <2>3, IsASeq
  <2> QED
    BY <2>4 DEF T
<1> HIDE DEF T
<1>3. Append(s, x) \in Seq(T) /\ Len(Append(s, x)) = Len(s) + 1 /\ Len(s) \in Nat
  BY <1>2, AppendProperties, LenProperties
<1> QED
  BY <1>3 DEF IsSequence, Appended

Writes ==
    /\ bstep = "write" /\ csvs' # csvs
    /\ \/ csv < 3 /\ csv' = csv + 1 /\ bstep' = "methods"
       \/ ~ (csv < 3) /\ csv' = csv /\ bstep' = "done"

FailsToWrite ==
    bstep = "write" /\ bstep' = "failed" /\ csvs' = csvs /\ csv' = csv

WritesNothing ==
    /\ csvs' = csvs /\ csv' = csv /\ ~ (bstep = "write" /\ bstep' = "failed")
    /\ bstep' \in {"methods", "merkle", "write", "failed"}

LEMMA BaselinesStepDoes ==
    ASSUME BaselinesStep, IsSequence(csvs)
    PROVE  /\ IsSequence(csvs')
           /\ bstep \in {"start", "methods", "merkle", "write"}
           /\ Writes \/ FailsToWrite \/ WritesNothing
<1>1. CASE CreateDir
  BY <1>1 DEF CreateDir, WritesNothing
<1>2. CASE RunMethods
  BY <1>2 DEF RunMethods, WritesNothing
<1>3. CASE PairStep
  BY <1>3 DEF PairStep, WritesNothing
<1>4. CASE NextLevel
  BY <1>4 DEF NextLevel, WritesNothing
<1>5. CASE Root
  BY <1>5 DEF Root, WritesNothing
<1>6. CASE WriteCsv
  <2>1. bstep = "write" /\ csvs' = Append(csvs, Contents(csv))
    BY <1>6 DEF WriteCsv
  <2>2. IsSequence(csvs') /\ csvs' # csvs
    BY <2>1, AppendIsNew DEF Appended
  <2> QED
    BY <1>6, <2>1, <2>2, NamesAre DEF WriteCsv, Writes
<1>7. CASE BaselinesFail
  BY <1>7 DEF BaselinesFail, WritesNothing, FailsToWrite
<1> QED
  BY <1>1, <1>2, <1>3, <1>4, <1>5, <1>6, <1>7 DEF BaselinesStep

(***************************************************************************)
(* The inductive invariant of the files: StepInv says how far the script   *)
(* and the baselines are, HomeInv the age of each output file at each      *)
(* step, CopyInv what of it artifacts/ holds.                              *)
(***************************************************************************)
Ages == {"old", "absent", "new", "partial"}

NotOfThisRun == {"timefence_report", "bench", "ebpf_report"}

StepInv ==
    /\ step \in {"verus", "test", "core", "trace", "copy", "done", "failed"}
    /\ csv \in 1 .. 3 /\ copied \in 0 .. 7 /\ IsSequence(csvs)
    /\ step \in {"verus", "test"} => bstep = "idle"
    /\ bstep = "idle" => csv = 1
    /\ step \in {"trace", "copy", "done"} => bstep = "done"
    /\ step \in {"verus", "test", "core", "trace"} => copied = 0
    /\ step = "done" => copied = 7

HomeInv ==
    /\ home \in [Files -> Ages]
    /\ \A f \in NotOfThisRun : home[f] \in {"old", "absent"}
    /\ \A k \in 1 .. 3 : k < csv \/ bstep = "done" => home[CsvOrder[k]] = "new"
    /\ step \in {"copy", "done"} => home["trace_report"] = "new"
    /\ \A f \in Names : home[f] = "partial" => step = "failed" \/ bstep = "failed"

CopyInv ==
    /\ artifacts \in [Names -> Ages]
    /\ \A f \in Names : artifacts[f] = "new" =>
            home[f] = "new" /\ \E n \in 1 .. copied : Copies[n] = f
    /\ step # "failed" => \A f \in Names : artifacts[f] # "partial"
    /\ \A f \in Names : artifacts[f] = "partial" =>
            copied < 7 /\ f = Copies[copied + 1]
    /\ \A n \in 1 .. copied :
            home[Copies[n]] # "absent" => artifacts[Copies[n]] = home[Copies[n]]

FilesInv == StepInv /\ HomeInv /\ CopyInv

LEMMA FilesInvInit == Init => FilesInv
<1>1. SUFFICES ASSUME Init PROVE FilesInv
  OBVIOUS
<1>2. /\ step = "verus" /\ copied = 0 /\ bstep = "idle" /\ csv = 1
      /\ csvs = << >>
  BY <1>1 DEF Init, BaselinesInit
<1>3. IsSequence(csvs)
  BY <1>2, EmptySeq DEF IsSequence
<1>4. StepInv
  BY <1>2, <1>3 DEF StepInv
<1>5. PICK left : /\ home = Aged(Files, left.home)
                  /\ artifacts = Aged(Copied, left.artifacts)
  BY <1>1 DEF Init
<1>6. /\ home \in [Files -> {"old", "absent"}]
      /\ artifacts \in [Names -> {"old", "absent"}]
  BY <1>5, NamesAre DEF Aged
<1>7. NotOfThisRun \subseteq Names /\ Names \subseteq Files
  BY NamesAre DEF NotOfThisRun, Names
<1>8. /\ home \in [Files -> Ages] /\ artifacts \in [Names -> Ages]
      /\ \A f \in Names : /\ home[f] \in {"old", "absent"}
                          /\ artifacts[f] \in {"old", "absent"}
  BY <1>6, <1>7 DEF Ages
<1>9. HomeInv
  BY <1>2, <1>7, <1>8 DEF HomeInv
<1>10. CopyInv
  BY <1>2, <1>8 DEF CopyInv
<1> QED
  BY <1>4, <1>9, <1>10 DEF FilesInv

LEMMA FilesInvUnchanged ==
    ASSUME FilesInv,
           UNCHANGED <<csv, copied, csvs, bstep, step, home, artifacts>>
    PROVE  FilesInv'
  BY DEF FilesInv, StepInv, HomeInv, CopyInv

(***************************************************************************)
(* A step that leaves the files, the baselines and artifacts/ alone and    *)
(* moves the script on to where the invariant holds.                       *)
(***************************************************************************)
LEMMA StepMoves ==
    ASSUME FilesInv, UNCHANGED <<csv, copied, csvs, bstep, home, artifacts>>,
           StepInv', step # "failed",
           step' \in {"copy", "done"} => home["trace_report"] = "new",
           bstep = "failed" => step' = "failed" \/ step' = step
    PROVE  FilesInv'
<1>1. HomeInv'
  BY DEF FilesInv, HomeInv
<1>2. CopyInv'
  BY DEF FilesInv, CopyInv
<1> QED
  BY <1>1, <1>2 DEF FilesInv

(***************************************************************************)
(* A file of Files written, or cut short, before anything is copied.       *)
(***************************************************************************)
LEMMA NothingCopied ==
    ASSUME FilesInv, copied = 0, step # "failed", UNCHANGED <<copied, artifacts>>
    PROVE  CopyInv'
<1>1. \A f \in Names : artifacts[f] # "new" /\ artifacts[f] # "partial"
  BY DEF FilesInv, CopyInv
<1> QED
  BY <1>1 DEF FilesInv, CopyInv

LEMMA CutShortAges ==
    ASSUME NEW ages \in [Files -> Ages], NEW file \in Files,
           NEW ages2 \in CutShort(ages, file)
    PROVE  /\ ages2 \in [Files -> Ages]
           /\ \A f \in Files : f # file => ages2[f] = ages[f]
  BY DEF CutShort, Ages

LEMMA CommandKeeps ==
    ASSUME FilesInv, Verus \/ Test
    PROVE  FilesInv'
<1>1. /\ UNCHANGED <<csv, copied, csvs, bstep, home, artifacts>>
      /\ step \in {"verus", "test"} /\ step' \in {"test", "core", "failed"}
  BY DEF Verus, Test, Command, OnFailure, baselineVars
<1>2. StepInv'
  BY <1>1 DEF FilesInv, StepInv
<1>3. step # "failed" /\ step' \notin {"copy", "done"} /\ bstep # "failed"
  BY <1>1 DEF FilesInv, StepInv
<1> QED
  BY <1>1, <1>2, <1>3, StepMoves

LEMMA CoreEndsKeeps ==
    ASSUME FilesInv, CoreEnds
    PROVE  FilesInv'
<1>1. /\ UNCHANGED <<csv, copied, csvs, bstep, home, artifacts>>
      /\ step = "core" /\ bstep \in {"done", "failed"}
      /\ step' = IF bstep = "done" THEN "trace" ELSE "failed"
  BY DEF CoreEnds, OnFailure, baselineVars
<1>2. StepInv'
  BY <1>1 DEF FilesInv, StepInv
<1>3. step # "failed" /\ step' \notin {"copy", "done"}
  BY <1>1
<1>4. bstep = "failed" => step' = "failed"
  BY <1>1
<1> QED
  BY <1>1, <1>2, <1>3, <1>4, StepMoves

LEMMA PlotKeeps ==
    ASSUME FilesInv, Plot
    PROVE  FilesInv'
<1>1. /\ UNCHANGED <<csv, copied, csvs, bstep, home, artifacts>>
      /\ step = "copy" /\ step' = "done" /\ copied = 7
  BY NamesAre DEF Plot, baselineVars
<1>2. StepInv'
  BY <1>1 DEF FilesInv, StepInv
<1>3. /\ step # "failed" /\ home["trace_report"] = "new" /\ bstep = "done"
  BY <1>1 DEF FilesInv, StepInv, HomeInv
<1> QED
  BY <1>1, <1>2, <1>3, StepMoves

LEMMA ProgramFailsKeeps ==
    ASSUME FilesInv, ProgramFails
    PROVE  FilesInv'
<1>1. /\ UNCHANGED <<csv, copied, csvs, bstep, artifacts>>
      /\ step \in {"core", "trace"} /\ step' = "failed"
      /\ home' = home \/ home' \in CutShort(home, ReportOf(step))
  BY DEF ProgramFails, OnFailure, baselineVars
<1>2. StepInv'
  BY <1>1 DEF FilesInv, StepInv
<1>3. CopyInv'
  BY <1>1, NothingCopied DEF FilesInv, StepInv
<1>4. home \in [Files -> Ages] /\ ReportOf(step) \in Files
  BY <1>1, NamesAre DEF FilesInv, HomeInv, ReportOf, Names
<1>5. /\ home' \in [Files -> Ages]
      /\ \A f \in Files : f # ReportOf(step) => home'[f] = home[f]
  BY <1>1, <1>4, CutShortAges
<1>6. /\ \A f \in NotOfThisRun : f \in Files /\ f # ReportOf(step)
      /\ \A k \in 1 .. 3 : CsvOrder[k] \in Files /\ CsvOrder[k] # ReportOf(step)
  BY <1>1, NamesAre DEF NotOfThisRun, ReportOf, Names
<1>7. HomeInv'
  BY <1>1, <1>5, <1>6 DEF FilesInv, HomeInv
<1> QED
  BY <1>2, <1>3, <1>7 DEF FilesInv

LEMMA WriteReportKeeps ==
    ASSUME FilesInv, WriteReport
    PROVE  FilesInv'
<1>1. /\ UNCHANGED <<csv, copied, csvs, artifacts>>
      /\ home' = [home EXCEPT ![ReportOf(step)] = "new"]
      /\ \/ step = "core" /\ step' = step /\ bstep = "idle" /\ bstep' = "start"
         \/ step = "trace" /\ step' = "copy" /\ bstep' = bstep
  BY DEF WriteReport, ReportDue, Written, CallBaselines, Following, baselineVars
<1>2. StepInv'
  BY <1>1 DEF FilesInv, StepInv
<1>3. CopyInv'
  BY <1>1, NothingCopied DEF FilesInv, StepInv
<1>4. home \in [Files -> Ages] /\ ReportOf(step) \in Files
  BY <1>1, NamesAre DEF FilesInv, HomeInv, ReportOf, Names
<1>5. /\ home' \in [Files -> Ages] /\ home'[ReportOf(step)] = "new"
      /\ \A f \in Files : f # ReportOf(step) => home'[f] = home[f]
  BY <1>1, <1>4 DEF Ages
<1>6. /\ \A f \in NotOfThisRun : f \in Files /\ f # ReportOf(step)
      /\ \A k \in 1 .. 3 : CsvOrder[k] \in Files /\ CsvOrder[k] # ReportOf(step)
      /\ Names \subseteq Files
  BY <1>1, NamesAre DEF NotOfThisRun, ReportOf, Names
<1>7. HomeInv'
  <2>1. \A f \in NotOfThisRun : home'[f] \in {"old", "absent"}
    BY <1>5, <1>6 DEF FilesInv, HomeInv
  <2>2. bstep' = "done" => bstep = "done"
    BY <1>1
  <2>3. \A k \in 1 .. 3 : k < csv' \/ bstep' = "done" => home'[CsvOrder[k]] = "new"
    BY <1>1, <1>5, <1>6, <2>2 DEF FilesInv, HomeInv
  <2>4. step' \in {"copy", "done"} => home'["trace_report"] = "new"
    BY <1>1, <1>5 DEF ReportOf
  <2>5. bstep # "failed" /\ step # "failed"
    BY <1>1 DEF FilesInv, StepInv
  <2>6. \A f \in Names : home'[f] # "partial"
    BY <1>5, <1>6, <2>5 DEF FilesInv, HomeInv
  <2> QED
    BY <1>5, <2>1, <2>3, <2>4, <2>6 DEF HomeInv
<1> QED
  BY <1>2, <1>3, <1>7 DEF FilesInv

LEMMA EvaluateKeeps ==
    ASSUME FilesInv, Evaluate
    PROVE  FilesInv'
<1>1. /\ step = "core" /\ step' = step /\ UNCHANGED <<copied, artifacts>>
      /\ IsSequence(csvs')
      /\ bstep \in {"start", "methods", "merkle", "write"}
      /\ Writes \/ FailsToWrite \/ WritesNothing
  BY BaselinesStepDoes DEF Evaluate, FilesInv, StepInv
<1>2. CopyInv'
  BY <1>1, NothingCopied DEF FilesInv, StepInv
<1> DEFINE file == CsvOrder[csv]
<1>3. csv \in 1 .. 3 /\ home \in [Files -> Ages]
  BY DEF FilesInv, StepInv, HomeInv
<1>4. /\ file \in Files /\ Names \subseteq Files /\ NotOfThisRun \subseteq Files
      /\ file \notin NotOfThisRun
      /\ \A k \in 1 .. 3 : CsvOrder[k] \in Files /\ (k # csv => CsvOrder[k] # file)
  BY <1>3, NamesAre DEF NotOfThisRun, Names
<1> HIDE DEF file
<1>5. ASSUME home' \in [Files -> Ages],
             \A f \in Files : f # file => home'[f] = home[f],
             \A k \in 1 .. 3 : k < csv' \/ bstep' = "done" =>
                k < csv \/ home'[CsvOrder[k]] = "new",
             \A f \in Names : home'[f] = "partial" => bstep' = "failed"
      PROVE  HomeInv'
  <2>1. \A f \in NotOfThisRun : home'[f] \in {"old", "absent"}
    BY <1>4, <1>5 DEF FilesInv, HomeInv
  <2>2. \A k \in 1 .. 3 : k < csv' \/ bstep' = "done" => home'[CsvOrder[k]] = "new"
    <3>1. \A k \in 1 .. 3 : k < csv => home'[CsvOrder[k]] = "new"
      <4>1. \A k \in 1 .. 3 : k < csv => k # csv
        BY <1>3
      <4> QED
        BY <1>4, <1>5, <4>1 DEF FilesInv, HomeInv
    <3> QED
      BY <1>5, <3>1
  <2> QED
    BY <1>1, <1>5, <2>1, <2>2 DEF HomeInv
<1>6. \A f \in Names : home[f] # "partial"
  BY <1>1 DEF FilesInv, HomeInv
<1>7. CASE Writes
  <2>1. home' = [home EXCEPT ![file] = "new"]
    BY <1>7 DEF Evaluate, Writes, Written, file
  <2>2. /\ home' \in [Files -> Ages] /\ home'[file] = "new"
        /\ \A f \in Files : f # file => home'[f] = home[f]
    BY <1>3, <1>4, <2>1 DEF Ages
  <2>3. \A k \in 1 .. 3 : k < csv' \/ bstep' = "done" =>
            k < csv \/ home'[CsvOrder[k]] = "new"
    <3>1. \A k \in 1 .. 3 : k < csv' \/ bstep' = "done" => k < csv \/ k = csv
      BY <1>3, <1>7 DEF Writes
    <3> QED
      BY <2>2, <3>1 DEF file
  <2>4. \A f \in Names : home'[f] # "partial"
    BY <1>4, <1>6, <2>2
  <2>5. StepInv'
    BY <1>1, <1>3, <1>7 DEF FilesInv, StepInv, Writes
  <2> QED
    BY <1>2, <1>5, <2>2, <2>3, <2>4, <2>5 DEF FilesInv
<1>8. CASE FailsToWrite
  <2>1. home' \in CutShort(home, file)
    BY <1>8 DEF Evaluate, FailsToWrite, file
  <2>2. /\ home' \in [Files -> Ages]
        /\ \A f \in Files : f # file => home'[f] = home[f]
    BY <1>3, <1>4, <2>1, CutShortAges
  <2>3. csv' = csv /\ bstep' = "failed"
    BY <1>8 DEF FailsToWrite
  <2>4. HomeInv'
    BY <1>5, <2>2, <2>3
  <2>5. StepInv'
    BY <1>1, <2>3 DEF FilesInv, StepInv
  <2> QED
    BY <1>2, <2>4, <2>5 DEF FilesInv
<1>9. CASE WritesNothing
  <2>1. home' = home
    BY <1>9 DEF Evaluate, WritesNothing
  <2>2. csv' = csv /\ bstep' \in {"methods", "merkle", "write", "failed"}
    BY <1>9 DEF WritesNothing
  <2>3. HomeInv'
    BY <1>3, <1>5, <1>6, <2>1, <2>2
  <2>4. StepInv'
    BY <1>1, <2>2 DEF FilesInv, StepInv
  <2> QED
    BY <1>2, <2>3, <2>4 DEF FilesInv
<1> QED
  BY <1>1, <1>7, <1>8, <1>9

LEMMA CopyNextKeeps ==
    ASSUME FilesInv, CopyNext
    PROVE  FilesInv'
<1>1. /\ UNCHANGED <<csv, csvs, bstep, home, step>>
      /\ step = "copy" /\ copied \in 0 .. 6 /\ copied' = copied + 1
  BY NamesAre DEF CopyNext, baselineVars, FilesInv, StepInv
<1> DEFINE file == Copies[copied + 1]
<1>2. file \in Names
  <2>1. copied + 1 \in 1 .. 7
    BY <1>1
  <2> QED
    BY <2>1, NamesAre
<1>3. artifacts' = IF home[file] = "absent" THEN artifacts
                   ELSE [artifacts EXCEPT ![file] = home[file]]
  BY DEF CopyNext
<1>4. StepInv'
  BY <1>1 DEF FilesInv, StepInv
<1>5. HomeInv'
  BY <1>1 DEF FilesInv, HomeInv
<1>6. /\ artifacts \in [Names -> Ages] /\ home[file] \in Ages
      /\ home[file] # "partial"
      /\ \A f \in Names : artifacts[f] # "partial"
      /\ \A f \in Names : artifacts[f] = "new" =>
            home[f] = "new" /\ \E n \in 1 .. copied : Copies[n] = f
      /\ \A n \in 1 .. copied :
            home[Copies[n]] # "absent" => artifacts[Copies[n]] = home[Copies[n]]
  <2>1. file \in Files /\ bstep = "done"
    BY <1>1, <1>2, NamesAre DEF FilesInv, StepInv
  <2> HIDE DEF file
  <2> QED
    BY <1>1, <1>2, <2>1 DEF FilesInv, HomeInv, CopyInv
<1>7. /\ artifacts' \in [Names -> Ages]
      /\ \A f \in Names : f # file => artifacts'[f] = artifacts[f]
      /\ \/ artifacts'[file] = home[file]
         \/ home[file] = "absent" /\ artifacts'[file] = artifacts[file]
  <2> HIDE DEF file
  <2>1. CASE home[file] = "absent"
    BY <1>3, <1>6, <2>1
  <2>2. CASE home[file] # "absent"
    <3>1. artifacts' = [artifacts EXCEPT ![file] = home[file]]
      BY <1>3, <2>2
    <3>2. PICK age \in Ages : age = home[file]
      BY <1>6
    <3>3. artifacts' = [artifacts EXCEPT ![file] = age]
      BY <3>1, <3>2
    <3>4. artifacts' \in [Names -> Ages] /\ artifacts'[file] = age
          /\ \A f \in Names : f # file => artifacts'[f] = artifacts[f]
      <4>1. artifacts \in [Names -> Ages]
        BY <1>6
      <4> QED
        BY <1>2, <3>3, <4>1
    <3> QED
      BY <3>2, <3>4
  <2> QED
    BY <2>1, <2>2
<1>8. CopyInv'
  <2>1. \A f \in Names : artifacts'[f] # "partial"
    <3> HIDE DEF file
    <3> QED
      BY <1>6, <1>7
  <2>2. \A n \in 1 .. copied' : n \in 1 .. copied \/ Copies[n] = file
    BY <1>1
  <2>3. \A n \in 1 .. copied' : Copies[n] \in Names
    BY <1>1, NamesAre
  <2>4. \A n \in 1 .. copied' :
            home[Copies[n]] # "absent" => artifacts'[Copies[n]] = home[Copies[n]]
    <3> HIDE DEF file
    <3>1. ASSUME NEW n \in 1 .. copied', home[Copies[n]] # "absent"
          PROVE  artifacts'[Copies[n]] = home[Copies[n]]
      <4>1. CASE Copies[n] = file
        BY <1>7, <3>1, <4>1
      <4>2. CASE Copies[n] # file
        BY <1>6, <1>7, <2>2, <2>3, <3>1, <4>2
      <4> QED
        BY <4>1, <4>2
    <3> QED
      BY <3>1
  <2>5. \A f \in Names : artifacts'[f] = "new" =>
            home[f] = "new" /\ \E n \in 1 .. copied' : Copies[n] = f
    <3>1. copied + 1 \in 1 .. copied' /\ \A n \in 1 .. copied : n \in 1 .. copied'
      BY <1>1
    <3>2. \E n \in 1 .. copied' : Copies[n] = file
      BY <3>1
    <3> HIDE DEF file
    <3>3. ASSUME NEW f \in Names, artifacts'[f] = "new"
          PROVE  home[f] = "new" /\ \E n \in 1 .. copied' : Copies[n] = f
      <4>1. CASE f = file
        BY <1>6, <1>7, <3>2, <3>3, <4>1
      <4>2. CASE f # file
        BY <1>6, <1>7, <3>1, <3>3, <4>2
      <4> QED
        BY <4>1, <4>2
    <3> QED
      BY <3>3
  <2> QED
    BY <1>1, <1>7, <2>1, <2>4, <2>5 DEF CopyInv
<1> QED
  BY <1>4, <1>5, <1>8 DEF FilesInv

LEMMA CopyFailsKeeps ==
    ASSUME FilesInv, CopyFails
    PROVE  FilesInv'
<1>1. /\ UNCHANGED <<csv, csvs, bstep, home, copied>>
      /\ step = "copy" /\ step' = "failed" /\ copied + 1 \in 1 .. 7
  BY NamesAre DEF CopyFails, OnFailure, baselineVars, FilesInv, StepInv
<1> DEFINE file == Copies[copied + 1]
<1>2. file \in Names
  BY <1>1, NamesAre
<1>3. artifacts' \in {artifacts, [artifacts EXCEPT ![file] = "partial"]}
  BY DEF CopyFails, CutShort
<1>4. StepInv' /\ HomeInv'
  BY <1>1 DEF FilesInv, StepInv, HomeInv
<1> HIDE DEF file
<1>5. /\ artifacts' \in [Names -> Ages]
      /\ \A f \in Names : artifacts'[f] = "new" => artifacts[f] = "new"
      /\ \A f \in Names : f # file => artifacts'[f] = artifacts[f]
  BY <1>2, <1>3 DEF FilesInv, CopyInv, Ages
<1>6. \A f \in Names : artifacts[f] # "partial"
  BY <1>1 DEF FilesInv, CopyInv
<1>7. \A n \in 1 .. copied : Copies[n] \in Names /\ Copies[n] # file
  <2>1. \A n \in 1 .. copied : n \in 1 .. 7 /\ n # copied + 1
    BY <1>1 DEF FilesInv, StepInv
  <2> QED
    BY <1>1, <2>1, NamesAre DEF file
<1>8. CopyInv'
  <2>1. \A f \in Names : artifacts'[f] = "partial" =>
            copied' < 7 /\ f = Copies[copied' + 1]
    <3>1. copied < 7 /\ copied' = copied
      BY <1>1 DEF FilesInv, StepInv
    <3> QED
      BY <1>5, <1>6, <3>1 DEF file
  <2>2. \A n \in 1 .. copied' :
            home'[Copies[n]] # "absent" => artifacts'[Copies[n]] = home'[Copies[n]]
    BY <1>1, <1>5, <1>7 DEF FilesInv, CopyInv
  <2>3. \A f \in Names : artifacts'[f] = "new" =>
            home'[f] = "new" /\ \E n \in 1 .. copied' : Copies[n] = f
    BY <1>1, <1>5 DEF FilesInv, CopyInv
  <2>4. step' = "failed"
    BY <1>1
  <2> QED
    BY <1>5, <2>1, <2>2, <2>3, <2>4 DEF CopyInv
<1> QED
  BY <1>4, <1>8 DEF FilesInv

(***************************************************************************)
(* What artifacts/ holds, whatever fails: up to the copy that the script   *)
(* has come to, what lay at home; behind it, nothing of this run; a file   *)
(* cut short only where a copy failed.  Of a run that ends well, the       *)
(* strace report and the three baseline files are all there.               *)
(***************************************************************************)
THEOREM CopiedInOrder == Spec => []CopiedUpToFailure
<1>1. Init => FilesInv
  BY FilesInvInit
<1>2. FilesInv /\ [Next]_vars => FilesInv'
  <2>1. SUFFICES ASSUME FilesInv, [Next]_vars PROVE FilesInv'
    OBVIOUS
  <2>2. CASE BuildCases \/ UNCHANGED vars
    <3>1. UNCHANGED <<csv, copied, csvs, bstep, step, home, artifacts>>
      BY <2>2 DEF BuildCases, vars, baselineVars, runVars
    <3> QED
      BY <2>1, <3>1, FilesInvUnchanged
  <2> QED
    BY <2>1, <2>2, CommandKeeps, ProgramFailsKeeps, WriteReportKeeps,
       EvaluateKeeps, CoreEndsKeeps, CopyNextKeeps, CopyFailsKeeps, PlotKeeps
       DEF Next
<1>3. FilesInv => CopiedUpToFailure
  <2>1. SUFFICES ASSUME FilesInv PROVE CopiedUpToFailure
    OBVIOUS
  <2>2. ASSUME NEW n \in DOMAIN Copies
        PROVE  LET f == Copies[n]
               IN  /\ n > copied => artifacts[f] # "new"
                   /\ (n <= copied /\ home[f] # "absent") => artifacts[f] = home[f]
                   /\ artifacts[f] = "partial" =>
                        step = "failed" /\ n = copied + 1
    <3>1. n \in 1 .. 7 /\ Copies[n] \in Names /\ copied \in 0 .. 7
      BY <2>1, <2>2, NamesAre DEF FilesInv, StepInv
    <3>2. ASSUME n > copied, artifacts[Copies[n]] = "new" PROVE FALSE
      <4>1. PICK m \in 1 .. copied : Copies[m] = Copies[n]
        BY <2>1, <3>1, <3>2 DEF FilesInv, CopyInv
      <4>2. m \in 1 .. 7 /\ m # n
        BY <3>1, <3>2, <4>1
      <4> QED
        BY <3>1, <4>1, <4>2, NamesAre
    <3>3. ASSUME n <= copied, home[Copies[n]] # "absent"
          PROVE  artifacts[Copies[n]] = home[Copies[n]]
      <4>1. n \in 1 .. copied
        BY <3>1, <3>3
      <4> QED
        BY <2>1, <3>3, <4>1 DEF FilesInv, CopyInv
    <3>4. ASSUME artifacts[Copies[n]] = "partial"
          PROVE  step = "failed" /\ n = copied + 1
      <4>1. step = "failed" /\ copied < 7 /\ Copies[n] = Copies[copied + 1]
        BY <2>1, <3>1, <3>4 DEF FilesInv, CopyInv
      <4>2. copied + 1 \in 1 .. 7
        BY <3>1, <4>1
      <4> QED
        BY <3>1, <4>1, <4>2, NamesAre
    <3> QED
      BY <3>2, <3>3, <3>4
  <2>3. Outputs \cap Copied = CsvNames \cup {"trace_report"}
    <3>1. DOMAIN CsvOrder = 1 .. 3
      BY DEF CsvOrder
    <3>2. {CsvOrder[n] : n \in DOMAIN CsvOrder} = CsvNames
      BY <3>1, NamesAre DEF CsvNames
    <3>3. {ReportOf("core"), ReportOf("trace")} = {"core_report", "trace_report"}
      BY DEF ReportOf
    <3>4. CsvNames \subseteq Names /\ "core_report" \notin Names
          /\ "trace_report" \in Names
      BY DEF CsvNames, Names
    <3> QED
      BY <3>2, <3>3, <3>4, NamesAre DEF Outputs
  <2>4. ASSUME step = "done", NEW f \in Outputs \cap Copied
        PROVE  artifacts[f] = "new"
    <3>1. bstep = "done" /\ copied = 7 /\ home["trace_report"] = "new"
      BY <2>1, <2>4 DEF FilesInv, StepInv, HomeInv
    <3>2. \A k \in 1 .. 3 : home[CsvOrder[k]] = "new"
      BY <2>1, <3>1 DEF FilesInv, HomeInv
    <3>3. home[f] = "new"
      <4>1. /\ home["baseline_bench"] = "new" /\ home["baseline_bench_repeated"] = "new"
            /\ home["baseline_bench_summary"] = "new"
        BY <3>2, NamesAre
      <4> QED
        BY <2>3, <2>4, <3>1, <4>1 DEF CsvNames
    <3>4. f \in Names
      BY <2>4, NamesAre
    <3>5. PICK n \in 1 .. 7 : Copies[n] = f
      BY <3>4, NamesAre
    <3> QED
      BY <2>1, <3>1, <3>3, <3>5 DEF FilesInv, CopyInv
  <2> QED
    BY <2>2, <2>4 DEF CopiedUpToFailure
<1> QED
  BY <1>1, <1>2, <1>3, PTL DEF Spec

-----------------------------------------------------------------------------
(***************************************************************************)
(* The chunks of the events, put one behind the other, are the events.     *)
(***************************************************************************)
LeafHashes == [hash : {"blake3"}, of : Seq(Field)]

LEMMA EventsTyped ==
    make_events \in Seq(Field) /\ Len(make_events) \in Nat
<1>1. Synthetic \in Seq(Nat) /\ Len(Synthetic) \in Nat
  BY BaselinesAssumption, LenProperties
<1>2. DOMAIN Synthetic = 1 .. Len(Synthetic)
  BY <1>1, LenProperties
<1>3. \A n \in 1 .. Len(Synthetic) : Synthetic[n] % P \in Field
  <2>1. \A n \in 1 .. Len(Synthetic) : Synthetic[n] \in Nat
    BY <1>1, ElementOfSeq
  <2> QED
    BY <2>1, ResidueInField
<1>4. make_events \in [1 .. Len(Synthetic) -> Field]
  BY <1>2, <1>3 DEF make_events
<1>5. make_events \in Seq(Field)
  BY <1>1, <1>4, FunctionIsSeq
<1> QED
  BY <1>5, LenProperties

ChunksOf(L, C) == (L + C - 1) \div C

LEMMA MultiplesOrdered ==
    ASSUME NEW a \in Int, NEW b \in Int, a <= b, NEW C \in Nat
    PROVE  a * C <= b * C
<1>1. PICK d \in Nat : b = a + d
  BY b = a + (b - a)
<1>2. b * C = a * C + d * C /\ d * C \in Nat
  BY <1>1
<1> QED
  BY <1>2

LEMMA ChunkBounds ==
    ASSUME NEW L \in Nat, NEW C \in Nat, C > 0
    PROVE  /\ ChunksOf(L, C) \in Nat
           /\ ChunksOf(L, C) = 0 => L = 0
           /\ L = 0 => ChunksOf(L, C) = 0
           /\ \A c \in 1 .. ChunksOf(L, C) : (c - 1) * C \in 0 .. L
<1> DEFINE a == L + C - 1
           q == a \div C
           r == a % C
<1>1. a \in Nat
  OBVIOUS
<1>2. a = q * C + r /\ r \in 0 .. (C - 1) /\ q \in Int
  BY <1>1, Division
<1> HIDE DEF q, r
<1>3. (q - 1) * C = q * C - C
  BY <1>2
<1>4. (q - 1) * C = L - 1 - r
  <2>1. q * C \in Int
    BY <1>2
  <2> QED
    BY <1>2, <1>3, <2>1
<1>5. q >= 0
  <2>1. SUFFICES ASSUME q <= -1 PROVE FALSE
    BY <1>2
  <2>2. q * C <= (-1) * C
    BY <1>2, <2>1, MultiplesOrdered
  <2>3. (-1) * C = -C /\ q * C \in Int
    BY <1>2
  <2> QED
    BY <1>1, <1>2, <2>2, <2>3
<1>6. q = 0 => L = 0
  <2>1. SUFFICES ASSUME q = 0 PROVE L = 0
    OBVIOUS
  <2>2. q * C = 0
    BY <2>1
  <2> QED
    BY <1>2, <2>2
<1>7. L = 0 => q = 0
  <2>1. SUFFICES ASSUME L = 0, q >= 1 PROVE FALSE
    BY <1>2, <1>5
  <2>2. 1 * C <= q * C /\ q * C \in Int
    BY <1>2, <2>1, MultiplesOrdered
  <2> QED
    BY <1>2, <2>1, <2>2
<1>8. ASSUME NEW c \in 1 .. q PROVE (c - 1) * C \in 0 .. L
  <2>1. (c - 1) * C <= (q - 1) * C
    BY <1>2, MultiplesOrdered
  <2>2. (c - 1) * C \in Nat
    <3>1. c - 1 \in Nat
      OBVIOUS
    <3> QED
      BY <3>1
  <2> QED
    BY <1>2, <1>4, <2>1, <2>2
<1> QED
  BY <1>2, <1>5, <1>6, <1>7, <1>8 DEF ChunksOf, q

LEMMA LeavesTyped ==
    /\ Leaves \in Seq(LeafHashes)
    /\ Len(Leaves) \in Nat /\ Len(Leaves) >= 1
    /\ Bound(Leaves) = make_events
<1> DEFINE E == make_events
           L == Len(E)
           C == ChunkSize
           count == (L + C - 1) \div C
           End(c) == IF c = count THEN L ELSE c * C
           Part(c) == SubSeq(E, (c - 1) * C + 1, End(c))
           hs == [c \in 1 .. count |-> Blake3(Part(c))]
<1>1. E \in Seq(Field) /\ L \in Nat /\ C \in Nat /\ C > 0
  BY EventsTyped, BaselinesAssumption
<1>2. /\ count \in Nat /\ (count = 0 => L = 0) /\ (L = 0 => count = 0)
      /\ \A c \in 1 .. count : (c - 1) * C \in 0 .. L
  BY <1>1, ChunkBounds DEF ChunksOf
<1>3. Leaves = IF count = 0 THEN << Blake3(<< >>) >> ELSE hs
  BY DEF Leaves
<1>4. CASE count = 0
  <2>1. Leaves = << Blake3(<< >>) >> /\ E = << >>
    BY <1>1, <1>2, <1>3, <1>4, EmptySeq
  <2> DEFINE h == Blake3(<< >>)
             seqs == [n \in DOMAIN Leaves |-> Leaves[n].of]
  <2>2. h \in LeafHashes /\ h.of = << >>
    BY EmptySeq DEF Blake3, LeafHashes
  <2> HIDE DEF h
  <2>3. /\ Leaves \in Seq(LeafHashes) /\ Len(Leaves) = 1 /\ DOMAIN Leaves = 1 .. 1
        /\ Leaves[1] = h
    BY <2>1, <2>2 DEF h
  <2>4. seqs = << << >> >>
    BY <2>2, <2>3
  <2>5. FlattenSeq(seqs) = << >>
    <3>1. << >> \in Seq(Seq(Field)) /\ << >> \in Seq(Field)
      BY EmptySeq
    <3>2. Append(<< >>, << >>) = << << >> >>
      OBVIOUS
    <3>3. FlattenSeq(Append(<< >>, << >>)) = FlattenSeq(<< >>) \o << >>
      BY <3>1, FlattenAppend
    <3>4. << >> \o << >> = << >>
      BY <3>1, ConcatEmptySeq
    <3> QED
      BY <2>4, <3>2, <3>3, <3>4, FlattenEmpty
  <2> QED
    BY <2>1, <2>3, <2>5 DEF Bound
<1>5. CASE count # 0
  <2>1. Leaves = hs
    BY <1>3, <1>5
  <2>2. ASSUME NEW c \in 1 .. count
        PROVE  /\ (c - 1) * C \in 0 .. L /\ End(c) \in ((c - 1) * C) .. L
               /\ Part(c) \in Seq(Field)
    <3>1. (c - 1) * C \in 0 .. L
      BY <1>2
    <3>2. End(c) \in ((c - 1) * C) .. L
      <4>1. CASE c = count
        BY <3>1, <4>1
      <4>2. CASE c # count
        <5>1. PICK d \in 1 .. count : d = c + 1 /\ d - 1 = c
          BY <1>2, <4>2
        <5>2. c * C \in 0 .. L
          BY <1>2, <5>1
        <5>3. (c - 1) * C <= c * C
          BY <1>1, MultiplesOrdered
        <5> QED
          BY <3>1, <4>2, <5>2, <5>3
      <4> QED
        BY <4>1, <4>2
    <3>3. Part(c) \in Seq(Field)
      <4> DEFINE m == (c - 1) * C + 1
      <4>1. m \in 1 .. L + 1 /\ End(c) \in 0 .. L
        BY <1>1, <3>1, <3>2
      <4>2. \A j \in m .. End(c) : E[j] \in Field
        <5>1. \A j \in m .. End(c) : j \in 1 .. L
          BY <1>1, <4>1
        <5> QED
          BY <1>1, <5>1, ElementOfSeq
      <4>3. m \in Int /\ End(c) \in Int
        BY <4>1
      <4> HIDE DEF m, End
      <4>4. SubSeq(E, m, End(c)) \in Seq(Field)
        BY <4>2, <4>3, SubSeqProperties
      <4> QED
        BY <4>4 DEF m
    <3> QED
      BY <3>1, <3>2, <3>3
  <2> HIDE DEF Part, End, E
  <2>3. hs \in [1 .. count -> LeafHashes]
    BY <2>2 DEF Blake3, LeafHashes
  <2>4. /\ Leaves \in Seq(LeafHashes) /\ Len(Leaves) = count
        /\ DOMAIN Leaves = 1 .. count
        /\ \A c \in 1 .. count : Leaves[c].of = Part(c)
    <3>1. hs \in Seq(LeafHashes) /\ Len(hs) = count
      BY <1>2, <2>3, FunctionIsSeq, SMTT(30)
    <3>2. DOMAIN hs = 1 .. count /\ \A c \in 1 .. count : hs[c].of = Part(c)
      BY DEF Blake3
    <3> HIDE DEF hs
    <3> QED
      BY <2>1, <3>1, <3>2
  <2> DEFINE seqs == [n \in DOMAIN Leaves |-> Leaves[n].of]
  <2>5. seqs \in [1 .. count -> Seq(Field)] /\ \A c \in 1 .. count : seqs[c] = Part(c)
    BY <2>2, <2>4
  <2>6. seqs \in Seq(Seq(Field)) /\ Len(seqs) = count
    BY <1>2, <2>5, FunctionIsSeq
  <2>7. FlattenSeq(seqs) = Bound(Leaves)
    BY DEF Bound
  <2> HIDE DEF seqs, hs
  <2>8. PICK f : IsFlatten(f, seqs, Field) /\ FlattenSeq(seqs) = f[Len(seqs)]
    BY <2>6, FlattenIs
  <2> DEFINE Upto(c) == IF c = count THEN L ELSE c * C
             B == {c \in Nat : c <= count => f[c] = SubSeq(E, 1, Upto(c))}
  <2>9. 0 \in B
    <3>1. 0 * C = 0
      BY <1>1
    <3>2. SubSeq(E, 1, 0) = << >>
      BY SubSeqEmpty
    <3> QED
      BY <1>5, <2>8, <3>1, <3>2 DEF IsFlatten
  <2>10. ASSUME NEW n \in Nat, n \in B PROVE n + 1 \in B
    <3>1. SUFFICES ASSUME n + 1 <= count
                   PROVE  f[n + 1] = SubSeq(E, 1, Upto(n + 1))
      OBVIOUS
    <3>2. PICK c \in 1 .. count : c = n + 1 /\ c - 1 = n /\ n # count /\ n <= count
      BY <1>2, <3>1
    <3>3. f[n] = SubSeq(E, 1, (c - 1) * C)
      BY <2>10, <3>2
    <3>4. f[c] = f[c - 1] \o Part(c)
      BY <2>5, <2>6, <2>8 DEF IsFlatten
    <3> DEFINE k == (c - 1) * C
               z == End(c)
    <3>5. k \in 0 .. L /\ z \in k .. L
      BY <2>2
    <3>6. Part(c) = SubSeq(E, k + 1, z) /\ z = Upto(c)
      BY DEF Part, End
    <3> HIDE DEF k, z, Upto
    <3>7. SubSeq(E, 1, k) \o SubSeq(E, k + 1, z) = SubSeq(E, 1, z)
      <4>1. 1 \in 1 .. Len(E) + 1 /\ k \in 1 - 1 .. Len(E) /\ z \in k .. Len(E)
        BY <1>1, <3>5
      <4> QED
        BY <1>1, <4>1, ConcatAdjacentSubSeq
    <3>8. f[n] = SubSeq(E, 1, k)
      BY <3>3 DEF k
    <3> QED
      BY <3>2, <3>4, <3>6, <3>7, <3>8
  <2>11. Nat \subseteq B
    <3> HIDE DEF B
    <3> QED
      BY <2>9, <2>10, SetInduction
  <2>12. f[count] = SubSeq(E, 1, L)
    BY <1>2, <2>11
  <2>13. SubSeq(E, 1, L) = E
    BY <1>1, SubSeqFull
  <2> QED
    BY <1>2, <1>5, <2>4, <2>6, <2>7, <2>8, <2>12, <2>13 DEF E
<1> QED
  BY <1>4, <1>5

-----------------------------------------------------------------------------
(***************************************************************************)
(* The hashes of trees of height n and less, for as many heights as there  *)
(* are leaves.                                                             *)
(***************************************************************************)
IsHeights(T, N) ==
    /\ T[0] = LeafHashes
    /\ \A n \in 1 .. N :
         T[n] = T[n - 1] \cup {merkle_parent(l, r) : l, r \in T[n - 1]}

Heights == CHOOSE T : IsHeights(T, Len(Leaves))

LEMMA HeightsIs == IsHeights(Heights, Len(Leaves))
<1> DEFINE B == {N \in Nat : \E T : IsHeights(T, N)}
<1>1. 0 \in B
  <2>1. IsHeights([n \in {0} |-> LeafHashes], 0)
    BY DEF IsHeights
  <2> QED
    BY <2>1
<1>2. ASSUME NEW N \in Nat, N \in B PROVE N + 1 \in B
  <2>1. PICK T : IsHeights(T, N)
    BY <1>2
  <2> DEFINE V == T[N] \cup {merkle_parent(l, r) : l, r \in T[N]}
             U == [n \in 0 .. N + 1 |-> IF n <= N THEN T[n] ELSE V]
  <2>2. /\ U[N + 1] = V /\ \A n \in 0 .. N : U[n] = T[n]
    OBVIOUS
  <2> HIDE DEF U
  <2>3. ASSUME NEW n \in 1 .. N + 1
        PROVE  U[n] = U[n - 1] \cup {merkle_parent(l, r) : l, r \in U[n - 1]}
    <3>1. CASE n = N + 1
      <4>1. U[n] = V /\ U[n - 1] = T[N]
        BY <2>2, <3>1
      <4> QED
        BY <4>1
    <3>2. CASE n # N + 1
      <4>1. n \in 1 .. N /\ n \in 0 .. N /\ n - 1 \in 0 .. N
        BY <3>2
      <4>2. U[n] = T[n] /\ U[n - 1] = T[n - 1]
        BY <2>2, <4>1
      <4> QED
        BY <2>1, <4>1, <4>2 DEF IsHeights
    <3> QED
      BY <3>1, <3>2
  <2>4. U[0] = LeafHashes
    BY <2>1, <2>2 DEF IsHeights
  <2>5. IsHeights(U, N + 1)
    BY <2>3, <2>4 DEF IsHeights
  <2> QED
    BY <2>5
<1>3. Nat \subseteq B
  <2> HIDE DEF B
  <2> QED
    BY <1>1, <1>2, SetInduction
<1>4. \E T : IsHeights(T, Len(Leaves))
  BY <1>3, LeavesTyped
<1> QED
  BY <1>4 DEF Heights

\* The number of leaves, and of the turns of the outer loop at most.
Most == Len(Leaves)

LEMMA HeightsGrow ==
    ASSUME NEW n \in 0 .. Most, NEW k \in 0 .. Most, n <= k
    PROVE  Heights[n] \subseteq Heights[k]
<1> DEFINE B == {d \in Nat : n + d <= Most => Heights[n] \subseteq Heights[n + d]}
<1>0. Most \in Nat
  BY LeavesTyped DEF Most
<1>1. 0 \in B
  OBVIOUS
<1>2. ASSUME NEW d \in Nat, d \in B PROVE d + 1 \in B
  <2>1. SUFFICES ASSUME n + (d + 1) <= Most
                 PROVE  Heights[n] \subseteq Heights[n + (d + 1)]
    OBVIOUS
  <2>2. PICK m \in 1 .. Most : m = n + (d + 1) /\ m - 1 = n + d
    BY <1>0, <2>1
  <2>3. Heights[n] \subseteq Heights[m - 1]
    BY <1>0, <1>2, <2>1, <2>2
  <2>4. Heights[m - 1] \subseteq Heights[m]
    BY HeightsIs DEF IsHeights, Most
  <2> QED
    BY <2>2, <2>3, <2>4
<1>3. Nat \subseteq B
  <2> HIDE DEF B
  <2> QED
    BY <1>1, <1>2, SetInduction
<1>4. PICK d \in Nat : k = n + d
  <2>1. k - n \in Nat /\ k = n + (k - n)
    BY <1>0
  <2> QED
    BY <2>1
<1> QED
  BY <1>0, <1>3, <1>4

\* What a hash of height n + 1 opens to.
LEMMA ChildrenTyped ==
    /\ \A h \in Heights[0] : Children(h) = << h >>
    /\ \A n \in 1 .. Most : \A h \in Heights[n] : Children(h) \in Seq(Heights[n - 1])
<1>0. Most \in Nat /\ Heights[0] = LeafHashes
  BY LeavesTyped, HeightsIs DEF Most, IsHeights
<1>1. \A h \in LeafHashes : Children(h) = << h >>
  BY DEF LeafHashes, Children
<1> DEFINE Good(n) == \A h \in Heights[n] : Children(h) \in Seq(Heights[n - 1])
           B == {n \in Nat : n + 1 <= Most => Good(n + 1)}
<1>2. ASSUME NEW n \in 1 .. Most,
             \A h \in Heights[n - 1] : Children(h) \in Seq(Heights[n - 1])
      PROVE  Good(n)
  <2>1. SUFFICES ASSUME NEW h \in Heights[n]
                 PROVE  Children(h) \in Seq(Heights[n - 1])
    OBVIOUS
  <2>2. Heights[n] = Heights[n - 1]
                       \cup {merkle_parent(l, r) : l, r \in Heights[n - 1]}
    BY HeightsIs DEF IsHeights, Most
  <2>3. CASE h \in Heights[n - 1]
    BY <1>2, <2>3
  <2>4. CASE h \notin Heights[n - 1]
    <3>1. PICK l \in Heights[n - 1], r \in Heights[n - 1] : h = merkle_parent(l, r)
      BY <2>1, <2>2, <2>4
    <3>2. Children(h) = << l, r >>
      BY <3>1 DEF merkle_parent, Children
    <3> DEFINE S == Heights[n - 1]
    <3>3. l \in S /\ r \in S
      BY <3>1
    <3> HIDE DEF S
    <3>4. << l, r >> \in Seq(S)
      BY <3>3
    <3> QED
      BY <3>2, <3>4 DEF S
  <2> QED
    BY <2>3, <2>4
<1>3. 0 \in B
  <2>1. SUFFICES ASSUME 1 <= Most PROVE Good(1)
    OBVIOUS
  <2>2. PICK m \in 1 .. Most : m = 1 /\ m - 1 = 0
    BY <1>0, <2>1
  <2>3. \A h \in Heights[m - 1] : Children(h) \in Seq(Heights[m - 1])
    <3>1. Heights[m - 1] = LeafHashes
      BY <1>0, <2>2
    <3>2. \A h \in LeafHashes : << h >> \in Seq(LeafHashes)
      OBVIOUS
    <3> QED
      BY <1>1, <3>1, <3>2
  <2>4. Good(m)
    BY <1>2, <2>3
  <2> QED
    BY <2>2, <2>4
<1>4. ASSUME NEW n \in Nat, n \in B PROVE n + 1 \in B
  <2>1. SUFFICES ASSUME (n + 1) + 1 <= Most PROVE Good((n + 1) + 1)
    OBVIOUS
  <2>2. PICK m \in 1 .. Most, k \in 1 .. Most :
            m = (n + 1) + 1 /\ k = n + 1 /\ k = m - 1
    BY <1>0, <2>1
  <2>3. Good(k)
    BY <1>0, <1>4, <2>1, <2>2
  <2>4. k - 1 \in 0 .. Most /\ k \in 0 .. Most /\ k - 1 <= k
    BY <1>0
  <2>5. Heights[k - 1] \subseteq Heights[k]
    BY <2>4, HeightsGrow
  <2>6. \A h \in Heights[k] : Children(h) \in Seq(Heights[k])
    BY <2>3, <2>5, SeqMonotonic
  <2>7. Good(m)
    BY <1>2, <2>2, <2>6
  <2> QED
    BY <2>2, <2>7
<1>5. Nat \subseteq B
  <2> HIDE DEF B
  <2> QED
    BY <1>3, <1>4, SetInduction
<1>6. ASSUME NEW n \in 1 .. Most PROVE Good(n)
  <2>1. PICK d \in Nat : n = d + 1
    <3>1. n - 1 \in Nat /\ n = (n - 1) + 1
      BY <1>0
    <3> QED
      BY <3>1
  <2> QED
    BY <1>0, <1>5, <2>1
<1> QED
  BY <1>0, <1>1, <1>6

-----------------------------------------------------------------------------
(***************************************************************************)
(* A sequence, each of its elements replaced.                              *)
(***************************************************************************)
Mapped(c, s) == [n \in DOMAIN s |-> c[s[n]]]

IsMap(c, S, T) == c \in [S -> T]

LEMMA MappedTyped ==
    ASSUME NEW S, NEW T, NEW c, IsMap(c, S, T), NEW s \in Seq(S)
    PROVE  /\ Mapped(c, s) \in Seq(T) /\ Len(Mapped(c, s)) = Len(s)
           /\ \A n \in 1 .. Len(s) : Mapped(c, s)[n] = c[s[n]]
<1>1. Len(s) \in Nat /\ DOMAIN s = 1 .. Len(s)
  BY LenProperties
<1>2. \A n \in 1 .. Len(s) : c[s[n]] \in T
  BY ElementOfSeq DEF IsMap
<1>3. Mapped(c, s) = [n \in 1 .. Len(s) |-> c[s[n]]]
  BY <1>1 DEF Mapped
<1>4. Mapped(c, s) \in [1 .. Len(s) -> T]
  BY <1>2, <1>3
<1> QED
  BY <1>1, <1>3, <1>4, FunctionIsSeq

LEMMA MappedJoins ==
    ASSUME NEW S, NEW T, NEW c, IsMap(c, S, T), NEW s \in Seq(S), NEW t \in Seq(S)
    PROVE  Mapped(c, s \o t) = Mapped(c, s) \o Mapped(c, t)
<1> DEFINE st == s \o t
           u == Mapped(c, s)
           v == Mapped(c, t)
           w == Mapped(c, st)
<1>1. PICK N \in Nat, M \in Nat : N = Len(s) /\ M = Len(t)
  BY LenProperties
<1>2. /\ st \in Seq(S) /\ Len(st) = N + M
      /\ \A n \in 1 .. N + M : st[n] = IF n <= N THEN s[n] ELSE t[n - N]
  BY <1>1, ConcatProperties
<1> HIDE DEF st
<1>3. /\ u \in Seq(T) /\ Len(u) = N /\ \A n \in 1 .. N : u[n] = c[s[n]]
      /\ v \in Seq(T) /\ Len(v) = M /\ \A n \in 1 .. M : v[n] = c[t[n]]
  BY <1>1, MappedTyped
<1>4. w \in Seq(T) /\ Len(w) = N + M /\ \A n \in 1 .. N + M : w[n] = c[st[n]]
  <2>1. st \in Seq(S)
    BY <1>2
  <2>2. w \in Seq(T) /\ Len(w) = Len(st) /\ \A n \in 1 .. Len(st) : w[n] = c[st[n]]
    BY <2>1, MappedTyped
  <2> QED
    BY <1>2, <2>2
<1> HIDE DEF u, v, w
<1>5. /\ u \o v \in Seq(T) /\ Len(u \o v) = N + M
      /\ \A n \in 1 .. N + M : (u \o v)[n] = IF n <= N THEN u[n] ELSE v[n - N]
  <2>1. /\ u \o v \in Seq(T) /\ Len(u \o v) = Len(u) + Len(v)
        /\ \A n \in 1 .. Len(u) + Len(v) :
              (u \o v)[n] = IF n <= Len(u) THEN u[n] ELSE v[n - Len(u)]
    BY <1>3, ConcatProperties
  <2> QED
    BY <1>3, <2>1
<1>6. ASSUME NEW n \in 1 .. N + M PROVE w[n] = (u \o v)[n]
  <2>1. CASE n <= N
    <3>1. n \in 1 .. N
      BY <2>1
    <3>2. st[n] = s[n] /\ (u \o v)[n] = u[n]
      BY <1>2, <1>5, <2>1
    <3>3. u[n] = c[s[n]] /\ w[n] = c[st[n]]
      BY <1>3, <1>4, <3>1
    <3> QED
      BY <3>2, <3>3
  <2>2. CASE ~ (n <= N)
    <3>1. n - N \in 1 .. M
      BY <2>2
    <3>2. st[n] = t[n - N] /\ (u \o v)[n] = v[n - N]
      BY <1>2, <1>5, <2>2
    <3>3. v[n - N] = c[t[n - N]] /\ w[n] = c[st[n]]
      BY <1>3, <1>4, <3>1
    <3> QED
      BY <3>2, <3>3
  <2> QED
    BY <2>1, <2>2
<1>7. w = u \o v
  BY <1>4, <1>5, <1>6, SeqEqual
<1> QED
  BY <1>7 DEF u, v, w, st

\* Each element put in a sequence of its own, and these joined.
LEMMA FlattenOnes ==
    ASSUME NEW S, NEW s \in Seq(S)
    PROVE  FlattenSeq([n \in DOMAIN s |-> << s[n] >>]) = s
<1> DEFINE c == [x \in S |-> << x >>]
           B == {u \in Seq(S) : FlattenSeq(Mapped(c, u)) = u}
<1>1. IsMap(c, S, Seq(S))
  BY DEF IsMap
<1>2. << >> \in B
  <2>1. << >> \in Seq(S) /\ Len(<< >>) = 0
    BY EmptySeq
  <2>2. Mapped(c, << >>) \in Seq(Seq(S)) /\ Len(Mapped(c, << >>)) = 0
    <3> HIDE DEF c
    <3>1. PICK z \in Seq(S) : z = << >> /\ Len(z) = 0
      BY <2>1
    <3>2. Mapped(c, z) \in Seq(Seq(S)) /\ Len(Mapped(c, z)) = Len(z)
      BY <1>1, MappedTyped
    <3> QED
      BY <3>1, <3>2
  <2>3. Mapped(c, << >>) = << >>
    BY <2>2, EmptySeq
  <2> QED
    BY <2>1, <2>3, FlattenEmpty
<1>3. ASSUME NEW u \in B, NEW x \in S PROVE Append(u, x) \in B
  <2>1. u \in Seq(S) /\ FlattenSeq(Mapped(c, u)) = u
    BY <1>3
  <2> DEFINE one == << x >>
             w == Mapped(c, u)
  <2>2. one \in Seq(S) /\ Append(u, x) = u \o one /\ Append(u, x) \in Seq(S)
    BY <2>1, AppendIsConcat, AppendProperties
  <2>3. Mapped(c, one) = << one >>
    BY DEF Mapped
  <2> HIDE DEF c, one
  <2>4. w \in Seq(Seq(S)) /\ Mapped(c, u \o one) = w \o Mapped(c, one)
    <3>1. w \in Seq(Seq(S))
      BY <1>1, <2>1, MappedTyped
    <3>2. Mapped(c, u \o one) = w \o Mapped(c, one)
      BY <1>1, <2>1, <2>2, MappedJoins
    <3> QED
      BY <3>1, <3>2
  <2> HIDE DEF w
  <2>5. w \o << one >> = Append(w, one)
    BY <2>2, <2>4, AppendIsConcat
  <2>6. FlattenSeq(Append(w, one)) = FlattenSeq(w) \o one
    BY <2>2, <2>4, FlattenAppend
  <2> QED
    BY <2>1, <2>2, <2>3, <2>4, <2>5, <2>6 DEF w
<1>4. Seq(S) \subseteq B
  <2> HIDE DEF B
  <2> QED
    BY <1>2, <1>3, SequenceInduction
<1>5. FlattenSeq(Mapped(c, s)) = s
  BY <1>4
<1>6. Mapped(c, s) = [n \in DOMAIN s |-> << s[n] >>]
  <2>1. \A n \in DOMAIN s : s[n] \in S
    BY LenProperties, ElementOfSeq
  <2> QED
    BY <2>1 DEF Mapped
<1> QED
  BY <1>5, <1>6

-----------------------------------------------------------------------------
(***************************************************************************)
(* Opening a level of hashes of height n leaves a level of height n - 1,   *)
(* if there is one, and goes hash by hash.                                 *)
(***************************************************************************)
Below(n) == IF n = 0 THEN 0 ELSE n - 1

LEMMA MostTyped ==
    /\ Most \in Nat /\ Most >= 1
    /\ \A n \in 0 .. Most : Below(n) \in 0 .. Most /\ Below(n) <= n
    /\ Heights[0] = LeafHashes
  BY LeavesTyped, HeightsIs DEF Most, Below, IsHeights

Child(n) == [h \in Heights[n] |-> Children(h)]

LEMMA ChildIsMap ==
    ASSUME NEW n \in 0 .. Most
    PROVE  IsMap(Child(n), Heights[n], Seq(Heights[Below(n)]))
<1>1. ASSUME NEW h \in Heights[n] PROVE Children(h) \in Seq(Heights[Below(n)])
  <2>1. CASE n = 0
    <3> DEFINE S == Heights[n]
    <3>1. Children(h) = << h >> /\ Heights[Below(n)] = S
      BY <2>1, ChildrenTyped DEF Below
    <3>2. h \in S
      OBVIOUS
    <3> HIDE DEF S
    <3>3. << h >> \in Seq(S)
      BY <3>2
    <3> QED
      BY <3>1, <3>3
  <2>2. CASE n # 0
    <3>1. n \in 1 .. Most /\ Below(n) = n - 1
      BY <2>2, MostTyped DEF Below
    <3> QED
      BY <3>1, ChildrenTyped
  <2> QED
    BY <2>1, <2>2
<1> QED
  BY <1>1 DEF IsMap, Child

LEMMA OpenedIs ==
    ASSUME NEW n \in 0 .. Most, NEW s \in Seq(Heights[n])
    PROVE  /\ Opened(s) = FlattenSeq(Mapped(Child(n), s))
           /\ Mapped(Child(n), s) \in Seq(Seq(Heights[Below(n)]))
<1>1. \A k \in DOMAIN s : s[k] \in Heights[n]
  BY LenProperties, ElementOfSeq
<1>2. Mapped(Child(n), s) = [k \in DOMAIN s |-> Children(s[k])]
  BY <1>1 DEF Mapped, Child
<1>3. Mapped(Child(n), s) \in Seq(Seq(Heights[Below(n)]))
  BY ChildIsMap, MappedTyped
<1> QED
  BY <1>2, <1>3 DEF Opened

LEMMA FlattenTyped ==
    ASSUME NEW S, NEW seqs \in Seq(Seq(S))
    PROVE  FlattenSeq(seqs) \in Seq(S)
<1>1. << >> \in Seq(S)
  BY EmptySeq
<1> QED
  BY <1>1, FlattenAppend

LEMMA OpenedTyped ==
    ASSUME NEW n \in 0 .. Most, NEW s \in Seq(Heights[n])
    PROVE  Opened(s) \in Seq(Heights[Below(n)])
  BY OpenedIs, FlattenTyped

LEMMA OpenedSame ==
    ASSUME NEW s \in Seq(Heights[0])
    PROVE  Opened(s) = s
<1>1. \A k \in DOMAIN s : Children(s[k]) = << s[k] >>
  BY LenProperties, ElementOfSeq, ChildrenTyped
<1>2. Opened(s) = FlattenSeq([k \in DOMAIN s |-> << s[k] >>])
  BY <1>1 DEF Opened
<1> QED
  BY <1>2, FlattenOnes

LEMMA OpenedJoins ==
    ASSUME NEW n \in 0 .. Most, NEW s \in Seq(Heights[n]), NEW t \in Seq(Heights[n])
    PROVE  Opened(s \o t) = Opened(s) \o Opened(t)
<1> DEFINE c == Child(n)
           T == Heights[Below(n)]
<1>1. s \o t \in Seq(Heights[n])
  BY ConcatProperties
<1>2. /\ Opened(s) = FlattenSeq(Mapped(c, s)) /\ Mapped(c, s) \in Seq(Seq(T))
      /\ Opened(t) = FlattenSeq(Mapped(c, t)) /\ Mapped(c, t) \in Seq(Seq(T))
      /\ Opened(s \o t) = FlattenSeq(Mapped(c, s \o t))
  BY <1>1, OpenedIs
<1>3. Mapped(c, s \o t) = Mapped(c, s) \o Mapped(c, t)
  BY ChildIsMap, MappedJoins
<1>4. FlattenSeq(Mapped(c, s) \o Mapped(c, t))
        = FlattenSeq(Mapped(c, s)) \o FlattenSeq(Mapped(c, t))
  <2> DEFINE u == Mapped(c, s)
             v == Mapped(c, t)
  <2>1. u \in Seq(Seq(T)) /\ v \in Seq(Seq(T))
    BY <1>2
  <2> HIDE DEF u, v, T
  <2>2. FlattenSeq(u \o v) = FlattenSeq(u) \o FlattenSeq(v)
    BY <2>1, FlattenConcat
  <2> QED
    BY <2>2 DEF u, v
<1> QED
  BY <1>2, <1>3, <1>4

\* The events of a level of leaves.
LEMMA BoundJoins ==
    ASSUME NEW s \in Seq(LeafHashes), NEW t \in Seq(LeafHashes)
    PROVE  /\ Bound(s) \in Seq(Field)
           /\ Bound(s \o t) = Bound(s) \o Bound(t)
<1> DEFINE c == [h \in LeafHashes |-> h.of]
           u == Mapped(c, s)
           v == Mapped(c, t)
<1>1. IsMap(c, LeafHashes, Seq(Field))
  BY DEF IsMap, LeafHashes
<1>2. ASSUME NEW w \in Seq(LeafHashes) PROVE Bound(w) = FlattenSeq(Mapped(c, w))
  <2>1. \A k \in DOMAIN w : w[k] \in LeafHashes
    BY LenProperties, ElementOfSeq
  <2>2. Mapped(c, w) = [k \in DOMAIN w |-> w[k].of]
    BY <2>1 DEF Mapped
  <2> QED
    BY <2>2 DEF Bound
<1>3. s \o t \in Seq(LeafHashes)
  BY ConcatProperties
<1> HIDE DEF c
<1>4. u \in Seq(Seq(Field)) /\ v \in Seq(Seq(Field))
  BY <1>1, MappedTyped
<1>5. Mapped(c, s \o t) = u \o v
  BY <1>1, MappedJoins
<1>6. Bound(s) = FlattenSeq(u) /\ Bound(t) = FlattenSeq(v)
      /\ Bound(s \o t) = FlattenSeq(u \o v)
  BY <1>2, <1>3, <1>5
<1> HIDE DEF u, v
<1>7. FlattenSeq(u) \in Seq(Field)
      /\ FlattenSeq(u \o v) = FlattenSeq(u) \o FlattenSeq(v)
  BY <1>4, FlattenTyped, FlattenConcat
<1> QED
  BY <1>6, <1>7

-----------------------------------------------------------------------------
(***************************************************************************)
(* What a level covers is what is left of it after as many openings as     *)
(* there are leaves.                                                       *)
(***************************************************************************)
IsOpening(f, level) ==
    f[0] = level /\ \A k \in 1 .. Most : f[k] = Opened(f[k - 1])

LEMMA CoveredIs ==
    ASSUME NEW m \in 0 .. Most, NEW level \in Seq(Heights[m])
    PROVE  \E f : IsOpening(f, level) /\ Covered(level) = Bound(f[Most])
<1> DEFINE N == Most
           H == Heights[N]
           S == Seq(H)
           G == [n \in 1 .. N |-> [s \in S |-> Opened(s)]]
           Fix(f) == f = [k \in 0 .. Len(Leaves) |->
                            IF k = 0 THEN level ELSE Opened(f[k - 1])]
           D == CHOOSE f : Fix(f)
<1>1. N \in Nat /\ N \in 0 .. N /\ Below(N) \in 0 .. N /\ Below(N) <= N
      /\ N = Len(Leaves)
  BY MostTyped DEF Most
<1>2. level \in S
  <2>1. Heights[m] \subseteq H
    BY <1>1, HeightsGrow
  <2> QED
    BY <2>1, SeqMonotonic
<1>3. ASSUME NEW s \in S PROVE Opened(s) \in S
  <2>1. Opened(s) \in Seq(Heights[Below(N)])
    BY <1>1, OpenedTyped
  <2>2. Heights[Below(N)] \subseteq H
    BY <1>1, HeightsGrow
  <2> QED
    BY <2>1, <2>2, SeqMonotonic
<1> HIDE DEF H, S
<1>4. G \in [1 .. N -> [S -> S]]
  BY <1>3
<1>5. PICK f \in [0 .. N -> S] : IsLoop(f, N, level, G)
  <2> HIDE DEF G, N
  <2> QED
    BY <1>1, <1>2, <1>4, LoopExists
<1>6. Fix(f)
  <2>1. ASSUME NEW n \in 1 .. N PROVE f[n] = Opened(f[n - 1])
    <3>1. n - 1 \in 0 .. N
      BY <1>1
    <3>2. f[n - 1] \in S /\ f[n] = G[n][f[n - 1]]
      BY <1>5, <3>1 DEF IsLoop
    <3> QED
      BY <3>2
  <2>2. f[0] = level
    BY <1>5 DEF IsLoop
  <2>3. ASSUME NEW n \in 0 .. N
        PROVE  f[n] = IF n = 0 THEN level ELSE Opened(f[n - 1])
    <3>1. CASE n = 0
      BY <2>2, <3>1
    <3>2. CASE n # 0
      <4>1. n \in 1 .. N
        BY <1>1, <3>2
      <4>2. f[n] = Opened(f[n - 1])
        BY <2>1, <4>1
      <4> QED
        BY <3>2, <4>2
    <3> QED
      BY <3>1, <3>2
  <2> QED
    BY <1>1, <1>5, <2>3
<1>7. Fix(D)
  BY <1>6
<1>8. Covered(level) = Bound(D[N])
  BY <1>1 DEF Covered
<1> HIDE DEF D
<1> DEFINE Body(n) == IF n = 0 THEN level ELSE Opened(D[n - 1])
<1>9. D = [n \in 0 .. N |-> Body(n)]
  BY <1>1, <1>7
<1>10. \A n \in 0 .. N : D[n] = Body(n)
  <2> HIDE DEF Body
  <2> QED
    BY <1>9
<1>11. D[0] = level
  <2>1. D[0] = Body(0)
    <3> HIDE DEF Body
    <3> QED
      BY <1>1, <1>10
  <2> QED
    BY <2>1
<1>12. ASSUME NEW n \in 1 .. N PROVE D[n] = Opened(D[n - 1])
  <2>1. D[n] = Body(n)
    <3> HIDE DEF Body
    <3> QED
      BY <1>1, <1>10
  <2> QED
    BY <1>1, <2>1
<1> QED
  BY <1>8, <1>11, <1>12 DEF IsOpening

\* The height that is left of a level of height m after k openings.
Left(m, k) == IF k <= m THEN m - k ELSE 0

LEMMA OpeningTyped ==
    ASSUME NEW m \in 0 .. Most, NEW level \in Seq(Heights[m]), NEW f,
           IsOpening(f, level)
    PROVE  \A k \in 0 .. Most : f[k] \in Seq(Heights[Left(m, k)])
<1> DEFINE B == {k \in Nat : k <= Most => f[k] \in Seq(Heights[Left(m, k)])}
<1>0. Most \in Nat
  BY MostTyped
<1>1. 0 \in B
  <2>1. Left(m, 0) = m /\ f[0] = level
    BY <1>0 DEF Left, IsOpening
  <2> QED
    BY <2>1
<1>2. ASSUME NEW k \in Nat, k \in B PROVE k + 1 \in B
  <2>1. SUFFICES ASSUME k + 1 <= Most
                 PROVE  f[k + 1] \in Seq(Heights[Left(m, k + 1)])
    OBVIOUS
  <2>2. /\ Left(m, k) \in 0 .. Most /\ Below(Left(m, k)) = Left(m, k + 1)
        /\ k <= Most
    BY <1>0, <2>1 DEF Left, Below
  <2>3. f[k] \in Seq(Heights[Left(m, k)])
    BY <1>2, <2>2
  <2>4. PICK n \in 1 .. Most : n = k + 1 /\ n - 1 = k
    BY <1>0, <2>1
  <2>5. f[n] = Opened(f[k])
    BY <2>4 DEF IsOpening
  <2>6. Opened(f[k]) \in Seq(Heights[Below(Left(m, k))])
    BY <2>2, <2>3, OpenedTyped
  <2> QED
    BY <2>2, <2>4, <2>5, <2>6
<1>3. Nat \subseteq B
  <2> HIDE DEF B
  <2> QED
    BY <1>1, <1>2, SetInduction
<1> QED
  BY <1>0, <1>3

InTwo(h, f, g, k) == h[k] = f[k] \o g[k]

LEMMA OpeningJoins ==
    ASSUME NEW m \in 0 .. Most, NEW s \in Seq(Heights[m]), NEW t \in Seq(Heights[m]),
           NEW f, NEW g, NEW h,
           IsOpening(f, s), IsOpening(g, t), IsOpening(h, s \o t)
    PROVE  \A k \in 0 .. Most : InTwo(h, f, g, k)
<1> DEFINE B == {k \in Nat : k <= Most => InTwo(h, f, g, k)}
<1>0. Most \in Nat
  BY MostTyped
<1>1. 0 \in B
  <2>1. h[0] = s \o t /\ f[0] = s /\ g[0] = t
    BY DEF IsOpening
  <2>2. InTwo(h, f, g, 0)
    BY <2>1 DEF InTwo
  <2> QED
    BY <2>2
<1>2. ASSUME NEW k \in Nat, k \in B PROVE k + 1 \in B
  <2>1. SUFFICES ASSUME k + 1 <= Most PROVE InTwo(h, f, g, k + 1)
    OBVIOUS
  <2>2. PICK n \in 1 .. Most : n = k + 1 /\ n - 1 = k
    BY <1>0, <2>1
  <2>3. h[n] = Opened(h[k]) /\ f[n] = Opened(f[k]) /\ g[n] = Opened(g[k])
    BY <2>2 DEF IsOpening
  <2>4. k \in 0 .. Most /\ Left(m, k) \in 0 .. Most
    BY <1>0, <2>1 DEF Left
  <2>5. f[k] \in Seq(Heights[Left(m, k)]) /\ g[k] \in Seq(Heights[Left(m, k)])
    BY <2>4, OpeningTyped
  <2>6. Opened(f[k] \o g[k]) = Opened(f[k]) \o Opened(g[k])
    BY <2>4, <2>5, OpenedJoins
  <2>7. InTwo(h, f, g, k)
    BY <1>2, <2>4
  <2>8. h[k] = f[k] \o g[k]
    BY <2>7 DEF InTwo
  <2>9. h[n] = f[n] \o g[n]
    BY <2>3, <2>6, <2>8
  <2>10. InTwo(h, f, g, n)
    BY <2>9 DEF InTwo
  <2> QED
    BY <2>2, <2>10
<1>3. Nat \subseteq B
  <2> HIDE DEF B
  <2> QED
    BY <1>1, <1>2, SetInduction
<1> QED
  BY <1>0, <1>3

LEMMA CoveredJoins ==
    ASSUME NEW m \in 0 .. Most, NEW s \in Seq(Heights[m]), NEW t \in Seq(Heights[m])
    PROVE  Covered(s) \in Seq(Field) /\ Covered(s \o t) = Covered(s) \o Covered(t)
<1>1. s \o t \in Seq(Heights[m])
  BY ConcatProperties
<1>2. PICK f : IsOpening(f, s) /\ Covered(s) = Bound(f[Most])
  BY CoveredIs
<1>3. PICK g : IsOpening(g, t) /\ Covered(t) = Bound(g[Most])
  BY CoveredIs
<1>4. PICK h : IsOpening(h, s \o t) /\ Covered(s \o t) = Bound(h[Most])
  BY <1>1, CoveredIs
<1>5. Most \in 0 .. Most /\ Left(m, Most) = 0 /\ Heights[0] = LeafHashes
  BY MostTyped DEF Left
<1>6. h[Most] = f[Most] \o g[Most]
  <2>1. InTwo(h, f, g, Most)
    BY <1>2, <1>3, <1>4, <1>5, OpeningJoins
  <2> QED
    BY <2>1 DEF InTwo
<1>7. f[Most] \in Seq(Heights[Left(m, Most)]) /\ g[Most] \in Seq(Heights[Left(m, Most)])
  BY <1>2, <1>3, <1>5, OpeningTyped
<1>8. f[Most] \in Seq(LeafHashes) /\ g[Most] \in Seq(LeafHashes)
  BY <1>5, <1>7
<1>9. /\ Bound(f[Most]) \in Seq(Field)
      /\ Bound(f[Most] \o g[Most]) = Bound(f[Most]) \o Bound(g[Most])
  BY <1>8, BoundJoins
<1> QED
  BY <1>2, <1>3, <1>4, <1>6, <1>9

\* A parent covers what its two children cover.
LEMMA CoveredParent ==
    ASSUME NEW m \in 0 .. Most, m + 1 <= Most, NEW l \in Heights[m], NEW r \in Heights[m]
    PROVE  /\ << merkle_parent(l, r) >> \in Seq(Heights[m + 1])
           /\ << l, r >> \in Seq(Heights[m])
           /\ Covered(<< merkle_parent(l, r) >>) = Covered(<< l, r >>)
<1> DEFINE p == merkle_parent(l, r)
           S == Heights[m]
           T == Heights[m + 1]
<1>0. Most \in Nat /\ m + 1 \in 0 .. Most /\ m + 1 \in 1 .. Most /\ (m + 1) - 1 = m
  BY MostTyped
<1>1. p \in T
  <2>1. T = S \cup {merkle_parent(x, y) : x, y \in S}
    BY <1>0, HeightsIs DEF IsHeights, Most
  <2> QED
    BY <2>1
<1>2. Children(p) = << l, r >>
  BY DEF merkle_parent, Children
<1>3. l \in S /\ r \in S
  OBVIOUS
<1> HIDE DEF p, S, T
<1>4. << p >> \in Seq(T) /\ << l, r >> \in Seq(S)
  BY <1>1, <1>3
<1>5. Opened(<< p >>) = << l, r >>
  <2> DEFINE seqs == [n \in DOMAIN << p >> |-> Children(<< p >>[n])]
             c == Children(p)
  <2>1. seqs = << c >>
    OBVIOUS
  <2>2. c \in Seq(S)
    BY <1>2, <1>4
  <2> HIDE DEF c, seqs
  <2>3. FlattenSeq(<< c >>) = c
    <3>1. PICK z : z = << >>
      OBVIOUS
    <3>2. z \in Seq(Seq(S)) /\ Append(z, c) = << c >>
      BY <3>1, EmptySeq
    <3>3. FlattenSeq(Append(z, c)) = FlattenSeq(z) \o c
      BY <2>2, <3>2, FlattenAppend
    <3>4. FlattenSeq(z) = << >>
      BY <3>1, FlattenEmpty
    <3> QED
      BY <2>2, <3>2, <3>3, <3>4
  <2> QED
    BY <1>2, <2>1, <2>3 DEF Opened, seqs, c
<1>6. PICK f : IsOpening(f, << p >>) /\ Covered(<< p >>) = Bound(f[Most])
  BY <1>0, <1>4, CoveredIs DEF T
<1>7. PICK g : IsOpening(g, << l, r >>) /\ Covered(<< l, r >>) = Bound(g[Most])
  BY <1>4, CoveredIs DEF S
<1> DEFINE B == {k \in Nat : k + 1 <= Most => f[k + 1] = g[k]}
<1>8. 0 \in B
  <2>1. f[1] = Opened(f[0]) /\ f[0] = << p >> /\ g[0] = << l, r >>
    <3>1. PICK n \in 1 .. Most : n = 1 /\ n - 1 = 0
      BY <1>0
    <3>2. f[n] = Opened(f[n - 1])
      BY <1>6 DEF IsOpening
    <3> QED
      BY <1>6, <1>7, <3>1, <3>2 DEF IsOpening
  <2> QED
    BY <1>5, <2>1
<1>9. ASSUME NEW k \in Nat, k \in B PROVE k + 1 \in B
  <2>1. SUFFICES ASSUME (k + 1) + 1 <= Most PROVE f[(k + 1) + 1] = g[k + 1]
    OBVIOUS
  <2>2. PICK n \in 1 .. Most, o \in 1 .. Most :
          n = (k + 1) + 1 /\ o = k + 1 /\ n - 1 = o /\ o - 1 = k
    BY <1>0, <2>1
  <2>3. f[n] = Opened(f[o]) /\ g[o] = Opened(g[k])
    BY <1>6, <1>7, <2>2 DEF IsOpening
  <2>4. f[o] = g[k]
    BY <1>0, <1>9, <2>1, <2>2
  <2> QED
    BY <2>2, <2>3, <2>4
<1>10. Nat \subseteq B
  <2> HIDE DEF B
  <2> QED
    BY <1>8, <1>9, SetInduction
<1>11. PICK k \in Nat : k + 1 = Most /\ Most - 1 = k
  <2>1. Most - 1 \in Nat /\ (Most - 1) + 1 = Most
    BY <1>0
  <2> QED
    BY <2>1
<1>12. f[Most] = g[k]
  <2>1. f[k + 1] = g[k]
    BY <1>0, <1>10, <1>11
  <2> QED
    BY <1>11, <2>1
<1>13. g[Most] = Opened(g[k])
  <2>1. PICK n \in 1 .. Most : n = Most
    BY <1>0
  <2>2. g[n] = Opened(g[n - 1])
    BY <1>7 DEF IsOpening
  <2> QED
    BY <1>11, <2>1, <2>2
<1>14. g[k] \in Seq(Heights[0])
  <2>1. k \in 0 .. Most /\ Left(m, k) = 0
    BY <1>0, <1>11 DEF Left
  <2>2. g[k] \in Seq(Heights[Left(m, k)])
    BY <1>4, <1>7, <2>1, OpeningTyped DEF S
  <2> QED
    BY <2>1, <2>2
<1>15. Opened(g[k]) = g[k]
  BY <1>14, OpenedSame
<1> QED
  BY <1>4, <1>6, <1>7, <1>12, <1>13, <1>15 DEF p, S, T

\* The leaves cover the events.
LEMMA CoveredLeaves == Covered(Leaves) = make_events
<1>1. Leaves \in Seq(Heights[0]) /\ 0 \in 0 .. Most /\ Most \in Nat
  BY LeavesTyped, MostTyped
<1>2. PICK f : IsOpening(f, Leaves) /\ Covered(Leaves) = Bound(f[Most])
  BY <1>1, CoveredIs
<1> DEFINE B == {k \in Nat : k <= Most => f[k] = Leaves}
<1>3. 0 \in B
  BY <1>2 DEF IsOpening
<1>4. ASSUME NEW k \in Nat, k \in B PROVE k + 1 \in B
  <2>1. SUFFICES ASSUME k + 1 <= Most PROVE f[k + 1] = Leaves
    OBVIOUS
  <2>2. PICK n \in 1 .. Most : n = k + 1 /\ n - 1 = k
    BY <1>1, <2>1
  <2>3. f[n] = Opened(f[k]) /\ f[k] = Leaves
    BY <1>1, <1>2, <1>4, <2>1, <2>2 DEF IsOpening
  <2> QED
    BY <1>1, <2>2, <2>3, OpenedSame
<1>5. Nat \subseteq B
  <2> HIDE DEF B
  <2> QED
    BY <1>3, <1>4, SetInduction
<1>6. f[Most] = Leaves
  BY <1>1, <1>5
<1> QED
  BY <1>2, <1>6, LeavesTyped

-----------------------------------------------------------------------------
(***************************************************************************)
(* The level ls is being paired and has height h; nx is the level above as *)
(* far as it is built, which stands for the first n hashes of ls.          *)
(***************************************************************************)
Rest(ls, n) == SubSeq(ls, n + 1, Len(ls))

Pairing(h, ls, nx, n) ==
    /\ ls \in Seq(Heights[h]) /\ Len(ls) >= 1 /\ h + Len(ls) <= Most
    /\ nx \in Seq(Heights[h + 1]) /\ 2 * Len(nx) = n /\ n <= Len(ls) + 1
    /\ Len(ls) = 1 => n = 0
    /\ Covered(nx \o Rest(ls, n)) = make_events

\* The two hashes paired next, or the odd one at the end.
Taken(ls, n) ==
    IF n + 1 < Len(ls) THEN << ls[n + 1], ls[n + 2] >> ELSE << ls[n + 1] >>

LEMMA RestTyped ==
    ASSUME NEW S, NEW ls \in Seq(S), NEW n \in Nat
    PROVE  /\ Rest(ls, n) \in Seq(S)
           /\ n >= Len(ls) => Rest(ls, n) = << >>
           /\ n < Len(ls) =>
                /\ Taken(ls, n) \in Seq(S)
                /\ Rest(ls, n) = Taken(ls, n) \o Rest(ls, n + 2)
<1>1. Len(ls) \in Nat /\ \A k \in 1 .. Len(ls) : ls[k] \in S
  BY LenProperties, ElementOfSeq
<1>2. ASSUME NEW m \in Nat
      PROVE  /\ Rest(ls, m) \in Seq(S)
             /\ m >= Len(ls) => Rest(ls, m) = << >>
  <2>1. \A k \in m + 1 .. Len(ls) : ls[k] \in S
    BY <1>1
  <2>2. Rest(ls, m) \in Seq(S)
    BY <1>1, <2>1, SubSeqProperties DEF Rest
  <2>3. m >= Len(ls) => Rest(ls, m) = << >>
    BY <1>1, SubSeqEmpty DEF Rest
  <2> QED
    BY <2>2, <2>3
<1>3. ASSUME n < Len(ls)
      PROVE  /\ Taken(ls, n) \in Seq(S)
             /\ Rest(ls, n) = Taken(ls, n) \o Rest(ls, n + 2)
  <2>1. n + 1 \in 1 .. Len(ls) /\ Len(ls) \in n + 1 .. Len(ls)
    BY <1>1, <1>3
  <2>2. Rest(ls, n) = << ls[n + 1] >> \o SubSeq(ls, (n + 1) + 1, Len(ls))
    BY <1>1, <2>1, SubSeqRecursiveFirst DEF Rest
  <2>3. SubSeq(ls, (n + 1) + 1, Len(ls)) = Rest(ls, n + 1)
    BY DEF Rest
  <2> DEFINE x == ls[n + 1]
             y == ls[n + 2]
             r == Rest(ls, n + 2)
  <2>4. x \in S /\ r \in Seq(S)
    BY <1>1, <1>2, <2>1
  <2>5. CASE n + 1 < Len(ls)
    <3>1. n + 2 \in 1 .. Len(ls) /\ Len(ls) \in n + 2 .. Len(ls) /\ (n + 1) + 1 = n + 2
      BY <1>1, <2>5
    <3>2. SubSeq(ls, n + 2, Len(ls)) = << ls[n + 2] >> \o SubSeq(ls, (n + 2) + 1, Len(ls))
      BY <3>1, SubSeqRecursiveFirst
    <3>3. Rest(ls, n + 1) = << y >> \o r
      BY <3>1, <3>2 DEF Rest
    <3>4. y \in S /\ Taken(ls, n) = << x, y >>
      BY <1>1, <2>5, <3>1 DEF Taken
    <3> HIDE DEF x, y, r
    <3>5. << x >> \in Seq(S) /\ << y >> \in Seq(S) /\ << x, y >> \in Seq(S)
      BY <2>4, <3>4
    <3>6. << x >> \o << y >> = << x, y >>
      <4> DEFINE u == << x >>
                 v == << y >>
                 w == << x, y >>
      <4>1. u \in Seq(S) /\ Len(u) = 1 /\ u[1] = x /\ v \in Seq(S) /\ Len(v) = 1 /\ v[1] = y
        BY <3>5
      <4>2. w \in Seq(S) /\ Len(w) = 2 /\ w[1] = x /\ w[2] = y
        BY <3>5
      <4> HIDE DEF u, v, w
      <4>3. /\ u \o v \in Seq(S) /\ Len(u \o v) = Len(u) + Len(v)
            /\ \A k \in 1 .. Len(u) + Len(v) :
                 (u \o v)[k] = IF k <= Len(u) THEN u[k] ELSE v[k - Len(u)]
        BY <4>1, ConcatProperties
      <4>4. PICK z : z = u \o v
        OBVIOUS
      <4>5. z \in Seq(S) /\ Len(z) = 2 /\ z[1] = x /\ z[2] = y
        <5>1. Len(u) + Len(v) = 2
          BY <4>1
        <5>2. z[1] = u[1]
          BY <4>1, <4>3, <4>4, <5>1
        <5>3. z[2] = v[1]
          BY <4>1, <4>3, <4>4, <5>1
        <5> QED
          BY <4>1, <4>3, <4>4, <5>1, <5>2, <5>3
      <4>6. \A k \in 1 .. Len(z) : z[k] = w[k]
        BY <4>2, <4>5
      <4>7. z = w
        BY <4>2, <4>5, <4>6, SeqEqual
      <4> QED
        BY <4>4, <4>7 DEF u, v, w
    <3>7. (<< x >> \o << y >>) \o r = << x >> \o (<< y >> \o r)
      BY <2>4, <3>5, ConcatAssociative, SMTT(30)
    <3>8. Rest(ls, n) = << x >> \o (<< y >> \o r)
      BY <2>2, <2>3, <3>3 DEF x
    <3>9. Rest(ls, n) = << x, y >> \o r
      BY <3>6, <3>7, <3>8
    <3> QED
      BY <3>4, <3>5, <3>9 DEF r
  <2>6. CASE ~ (n + 1 < Len(ls))
    <3>0. /\ n + 1 \in Nat /\ n + 1 >= Len(ls)
          /\ n + 2 \in Nat /\ n + 2 >= Len(ls)
      BY <1>1, <2>6
    <3>1. Rest(ls, n + 1) = << >> /\ Rest(ls, n + 2) = << >>
      BY <1>2, <3>0
    <3>2. Taken(ls, n) = << x >>
      BY <2>6 DEF Taken
    <3>3. Rest(ls, n) = Taken(ls, n) \o Rest(ls, n + 2)
      BY <2>2, <2>3, <3>1, <3>2
    <3> HIDE DEF x
    <3>4. << x >> \in Seq(S)
      BY <2>4
    <3> QED
      BY <3>2, <3>3, <3>4
  <2> QED
    BY <2>5, <2>6
<1> QED
  BY <1>2, <1>3

\* What goes up covers what was taken.
LEMMA PairedCovers ==
    ASSUME NEW h \in 0 .. Most, h + 1 <= Most, NEW ls \in Seq(Heights[h]),
           NEW n \in Nat, n < Len(ls)
    PROVE  /\ Taken(ls, n) \in Seq(Heights[h]) /\ Paired(ls, n) \in Seq(Heights[h + 1])
           /\ Len(Paired(ls, n)) = 1
           /\ Covered(Paired(ls, n)) = Covered(Taken(ls, n))
<1>1. Len(ls) \in Nat /\ \A k \in 1 .. Len(ls) : ls[k] \in Heights[h]
  BY LenProperties, ElementOfSeq
<1>2. h + 1 \in 0 .. Most /\ Heights[h] \subseteq Heights[h + 1]
  <2>1. h + 1 \in 0 .. Most /\ h <= h + 1
    BY MostTyped
  <2> QED
    BY <2>1, HeightsGrow
<1>3. Taken(ls, n) \in Seq(Heights[h])
  BY RestTyped
<1>4. CASE n + 1 < Len(ls)
  <2>1. PICK l \in Heights[h], r \in Heights[h] : l = ls[n + 1] /\ r = ls[n + 2]
    BY <1>1, <1>4
  <2>2. Paired(ls, n) = << merkle_parent(l, r) >> /\ Taken(ls, n) = << l, r >>
    BY <1>4, <2>1 DEF Paired, Taken
  <2>3. /\ << merkle_parent(l, r) >> \in Seq(Heights[h + 1])
        /\ Covered(<< merkle_parent(l, r) >>) = Covered(<< l, r >>)
    BY CoveredParent
  <2>4. Len(Paired(ls, n)) = 1
    BY <2>2
  <2> QED
    BY <1>3, <2>2, <2>3, <2>4
<1>5. CASE ~ (n + 1 < Len(ls))
  <2>1. Paired(ls, n) = << ls[n + 1] >> /\ Taken(ls, n) = << ls[n + 1] >>
    BY <1>5 DEF Paired, Taken
  <2>2. Taken(ls, n) \in Seq(Heights[h + 1])
    BY <1>2, <1>3, SeqMonotonic
  <2> QED
    BY <1>3, <2>1, <2>2
<1> QED
  BY <1>4, <1>5

LEMMA PairingStarts ==
    Pairing(0, Leaves, << >>, 0)
<1>1. /\ Leaves \in Seq(Heights[0]) /\ Len(Leaves) >= 1 /\ 0 + Len(Leaves) <= Most
      /\ Most \in Nat
  BY LeavesTyped, MostTyped DEF Most
<1>2. << >> \in Seq(Heights[0 + 1]) /\ 2 * Len(<< >>) = 0 /\ 0 <= Len(Leaves) + 1
  BY <1>1, EmptySeq
<1>3. << >> \o Rest(Leaves, 0) = Leaves
  <2>1. SubSeq(Leaves, 1, Len(Leaves)) = Leaves
    BY <1>1, SubSeqFull
  <2>2. Rest(Leaves, 0) = Leaves
    BY <2>1 DEF Rest
  <2> QED
    BY <1>1, <2>2, ConcatEmptySeq
<1> QED
  BY <1>1, <1>2, <1>3, CoveredLeaves DEF Pairing

LEMMA PairingStep ==
    ASSUME NEW h \in Nat, NEW ls, NEW nx, NEW n \in Nat, Pairing(h, ls, nx, n),
           Len(ls) > 1, n < Len(ls)
    PROVE  Pairing(h, ls, nx \o Paired(ls, n), n + 2)
<1> DEFINE H == Heights[h + 1]
           t == Taken(ls, n)
           p == Paired(ls, n)
           r == Rest(ls, n + 2)
<1>1. /\ ls \in Seq(Heights[h]) /\ Len(ls) \in Nat /\ h + Len(ls) <= Most
      /\ nx \in Seq(H) /\ Len(nx) \in Nat /\ 2 * Len(nx) = n
  BY LenProperties DEF Pairing
<1>2. Most \in Nat /\ h \in 0 .. Most /\ h + 1 \in 0 .. Most /\ h + 1 <= Most /\ h <= h + 1
  BY <1>1, MostTyped
<1>3. /\ t \in Seq(Heights[h]) /\ p \in Seq(H) /\ Len(p) = 1
      /\ Covered(p) = Covered(t)
  BY <1>1, <1>2, PairedCovers
<1>4. r \in Seq(Heights[h]) /\ Rest(ls, n) = t \o r
  <2>1. r \in Seq(Heights[h])
    <3>1. n + 2 \in Nat
      OBVIOUS
    <3> QED
      BY <1>1, <3>1, RestTyped
  <2>2. Rest(ls, n) = Taken(ls, n) \o Rest(ls, n + 2)
    BY <1>1, RestTyped
  <2> QED
    BY <2>1, <2>2
<1>5. t \in Seq(H) /\ r \in Seq(H)
  BY <1>2, <1>3, <1>4, HeightsGrow, SeqMonotonic
<1>6. Covered(nx \o (t \o r)) = make_events
  BY <1>4 DEF Pairing
<1> HIDE DEF t, p, r, H
<1>a. nx \in Seq(H) /\ t \in Seq(H) /\ p \in Seq(H) /\ r \in Seq(H)
  BY <1>1, <1>3, <1>5
<1>7. t \o r \in Seq(H) /\ p \o r \in Seq(H) /\ nx \o p \in Seq(H)
      /\ Len(nx \o p) = Len(nx) + 1
  <2>1. Len(nx \o p) = Len(nx) + Len(p)
    BY <1>a, ConcatProperties
  <2>2. t \o r \in Seq(H) /\ p \o r \in Seq(H) /\ nx \o p \in Seq(H)
    BY <1>a, ConcatProperties
  <2> QED
    BY <1>3, <2>1, <2>2
<1>8. Covered(nx \o (t \o r)) = Covered(nx) \o (Covered(t) \o Covered(r))
  <2>1. Covered(nx \o (t \o r)) = Covered(nx) \o Covered(t \o r)
    BY <1>1, <1>2, <1>7, CoveredJoins DEF H
  <2>2. Covered(t \o r) = Covered(t) \o Covered(r)
    BY <1>2, <1>5, CoveredJoins DEF H
  <2> QED
    BY <2>1, <2>2
<1>9. Covered(nx \o (p \o r)) = Covered(nx) \o (Covered(p) \o Covered(r))
  <2>1. Covered(nx \o (p \o r)) = Covered(nx) \o Covered(p \o r)
    BY <1>1, <1>2, <1>7, CoveredJoins DEF H
  <2>2. Covered(p \o r) = Covered(p) \o Covered(r)
    BY <1>2, <1>3, <1>5, CoveredJoins DEF H
  <2> QED
    BY <2>1, <2>2
<1>10. (nx \o p) \o r = nx \o (p \o r)
  <2>1. nx \in Seq(H) /\ p \in Seq(H) /\ r \in Seq(H)
    BY <1>a
  <2> QED
    BY <2>1, ConcatAssociative, SMTT(30)
<1>11. Covered((nx \o p) \o r) = make_events
  BY <1>3, <1>6, <1>8, <1>9, <1>10
<1>12. 2 * Len(nx \o p) = n + 2 /\ n + 2 <= Len(ls) + 1
  BY <1>1, <1>7
<1>13. /\ ls \in Seq(Heights[h]) /\ Len(ls) >= 1 /\ h + Len(ls) <= Most
       /\ ~ (Len(ls) = 1)
  <2>1. PICK a \in Nat : a = Len(ls)
    BY <1>1
  <2>2. a > 1
    BY <2>1
  <2>3. a >= 1 /\ ~ (a = 1)
    BY <2>2
  <2> QED
    BY <1>1, <2>1, <2>3
<1>14. Covered((nx \o p) \o Rest(ls, n + 2)) = make_events /\ nx \o p \in Seq(Heights[h + 1])
  BY <1>7, <1>11 DEF r, H
<1>15. Pairing(h, ls, nx \o p, n + 2)
  BY <1>12, <1>13, <1>14 DEF Pairing
<1> QED
  BY <1>15 DEF p

LEMMA PairingUp ==
    ASSUME NEW h \in Nat, NEW ls, NEW nx, NEW n \in Nat, Pairing(h, ls, nx, n),
           Len(ls) > 1, n >= Len(ls)
    PROVE  Pairing(h + 1, nx, << >>, 0)
<1>1. /\ ls \in Seq(Heights[h]) /\ Len(ls) \in Nat /\ h + Len(ls) <= Most
      /\ nx \in Seq(Heights[h + 1]) /\ Len(nx) \in Nat /\ 2 * Len(nx) = n
      /\ n <= Len(ls) + 1 /\ Covered(nx \o Rest(ls, n)) = make_events
  BY LenProperties DEF Pairing
<1>2. Most \in Nat /\ Len(nx) >= 1 /\ (h + 1) + Len(nx) <= Most
  <2>1. PICK a \in Nat, b \in Nat : a = Len(ls) /\ b = Len(nx)
    BY <1>1
  <2>2. a > 1 /\ n >= a /\ 2 * b = n /\ n <= a + 1 /\ h + a <= Most /\ Most \in Nat
    BY <1>1, <2>1, MostTyped
  <2>3. b >= 1 /\ b + 1 <= a
    BY <2>2
  <2>4. (h + 1) + b <= Most
    BY <2>2, <2>3
  <2> QED
    BY <2>1, <2>2, <2>3, <2>4
<1>3. nx \o Rest(ls, n) = nx
  <2>1. Rest(ls, n) = << >>
    BY <1>1, RestTyped
  <2> QED
    BY <1>1, <2>1, ConcatEmptySeq
<1>4. << >> \o Rest(nx, 0) = nx
  <2>1. SubSeq(nx, 1, Len(nx)) = nx
    BY <1>1, SubSeqFull
  <2>2. Rest(nx, 0) = nx
    BY <2>1 DEF Rest
  <2> QED
    BY <1>1, <2>2, ConcatEmptySeq
<1>5. << >> \in Seq(Heights[(h + 1) + 1]) /\ 2 * Len(<< >>) = 0 /\ 0 <= Len(nx) + 1
  BY <1>2, EmptySeq
<1>6. Covered(<< >> \o Rest(nx, 0)) = make_events
  BY <1>1, <1>3, <1>4
<1> QED
  BY <1>1, <1>2, <1>5, <1>6 DEF Pairing

LEMMA PairingEnds ==
    ASSUME NEW h \in Nat, NEW ls, NEW nx, NEW n \in Nat, Pairing(h, ls, nx, n),
           ~ (Len(ls) > 1)
    PROVE  Covered(<< ls[1] >>) = make_events
<1>1. /\ ls \in Seq(Heights[h]) /\ Len(ls) \in Nat /\ Len(ls) = 1 /\ n = 0
      /\ nx \in Seq(Heights[h + 1]) /\ Len(nx) \in Nat /\ 2 * Len(nx) = n
      /\ Covered(nx \o Rest(ls, n)) = make_events
  <2>1. /\ ls \in Seq(Heights[h]) /\ Len(ls) \in Nat /\ Len(ls) >= 1
        /\ Len(ls) = 1 => n = 0
        /\ nx \in Seq(Heights[h + 1]) /\ Len(nx) \in Nat /\ 2 * Len(nx) = n
        /\ Covered(nx \o Rest(ls, n)) = make_events
    BY LenProperties DEF Pairing
  <2>2. Len(ls) = 1
    <3>1. PICK a \in Nat : a = Len(ls)
      BY <2>1
    <3>2. a >= 1 /\ ~ (a > 1)
      BY <2>1, <3>1
    <3>3. a = 1
      BY <3>2
    <3> QED
      BY <3>1, <3>3
  <2> QED
    BY <2>1, <2>2
<1>2. nx = << >>
  <2>1. Len(nx) = 0
    BY <1>1
  <2> QED
    BY <1>1, <2>1, EmptySeq
<1>3. Rest(ls, 0) = ls
  BY <1>1, SubSeqFull DEF Rest
<1>4. << >> \o ls = ls
  BY <1>1, ConcatEmptySeq
<1>5. ls = << ls[1] >>
  <2>1. DOMAIN ls = 1 .. 1
    BY <1>1, LenProperties
  <2> QED
    BY <1>1, <2>1
<1>6. Covered(ls) = make_events
  BY <1>1, <1>2, <1>3, <1>4
<1> QED
  BY <1>5, <1>6

-----------------------------------------------------------------------------
(***************************************************************************)
(* Rows, one behind the other.                                             *)
(***************************************************************************)
LEMMA AppendAny ==
    ASSUME NEW s, IsSequence(s), NEW x
    PROVE  /\ IsSequence(Append(s, x))
           /\ Len(s) \in Nat /\ DOMAIN s = 1 .. Len(s)
           /\ Len(Append(s, x)) = Len(s) + 1
           /\ DOMAIN Append(s, x) = 1 .. Len(s) + 1
           /\ \A n \in 1 .. Len(s) : Append(s, x)[n] = s[n]
           /\ Append(s, x)[Len(s) + 1] = x
<1>1. PICK S : s \in Seq(S)
  BY DEF IsSequence
<1> DEFINE T == S \cup {x}
<1>2. s \in Seq(T) /\ x \in T
  <2>1. S \subseteq T
    OBVIOUS
  <2> HIDE DEF T
  <2>2. s \in Seq(T)
    BY <1>1, <2>1, SeqMonotonic
  <2> QED
    BY <2>2 DEF T
<1> HIDE DEF T
<1>3. /\ Append(s, x) \in Seq(T) /\ Len(Append(s, x)) = Len(s) + 1
      /\ \A n \in 1 .. Len(s) : Append(s, x)[n] = s[n]
      /\ Append(s, x)[Len(s) + 1] = x
  BY <1>2, AppendProperties
<1>4. Len(s) \in Nat /\ DOMAIN s = 1 .. Len(s)
  BY <1>2, LenProperties
<1>5. DOMAIN Append(s, x) = 1 .. Len(s) + 1
  BY <1>3, LenProperties
<1>6. IsSequence(Append(s, x))
  BY <1>3 DEF IsSequence
<1> QED
  BY <1>3, <1>4, <1>5, <1>6

LEMMA FourAppended ==
    ASSUME NEW s, IsSequence(s), NEW a, NEW b, NEW c, NEW d
    PROVE  s \o << a, b, c, d >> = Append(Append(Append(Append(s, a), b), c), d)
<1>1. PICK S : s \in Seq(S)
  BY DEF IsSequence
<1> DEFINE T == S \cup {a, b, c, d}
           q == << a, b, c, d >>
           s1 == Append(s, a)
           s2 == Append(s1, b)
           s3 == Append(s2, c)
           s4 == Append(s3, d)
<1>2. s \in Seq(T) /\ a \in T /\ b \in T /\ c \in T /\ d \in T
  <2>1. S \subseteq T /\ a \in T /\ b \in T /\ c \in T /\ d \in T
    OBVIOUS
  <2> HIDE DEF T
  <2> QED
    BY <1>1, <2>1, SeqMonotonic
<1> HIDE DEF T
<1>3. q \in Seq(T) /\ Len(q) = 4 /\ q[1] = a /\ q[2] = b /\ q[3] = c /\ q[4] = d
  BY <1>2
<1>4. PICK N \in Nat : N = Len(s)
  BY <1>2, LenProperties
<1> HIDE DEF q, s1, s2, s3, s4
<1>5. /\ s1 \in Seq(T) /\ Len(s1) = N + 1 /\ s1[N + 1] = a
      /\ \A n \in 1 .. N : s1[n] = s[n]
  BY <1>2, <1>4, AppendProperties DEF s1
<1>6. /\ s2 \in Seq(T) /\ Len(s2) = N + 2 /\ s2[N + 2] = b
      /\ \A n \in 1 .. N + 1 : s2[n] = s1[n]
  BY <1>2, <1>5, AppendProperties DEF s2
<1>7. /\ s3 \in Seq(T) /\ Len(s3) = N + 3 /\ s3[N + 3] = c
      /\ \A n \in 1 .. N + 2 : s3[n] = s2[n]
  BY <1>2, <1>6, AppendProperties DEF s3
<1>8. /\ s4 \in Seq(T) /\ Len(s4) = N + 4 /\ s4[N + 4] = d
      /\ \A n \in 1 .. N + 3 : s4[n] = s3[n]
  BY <1>2, <1>7, AppendProperties DEF s4
<1>9. /\ s \o q \in Seq(T) /\ Len(s \o q) = N + 4
      /\ \A n \in 1 .. N + 4 : (s \o q)[n] = IF n <= N THEN s[n] ELSE q[n - N]
  <2>1. /\ s \o q \in Seq(T) /\ Len(s \o q) = Len(s) + Len(q)
        /\ \A n \in 1 .. Len(s) + Len(q) :
              (s \o q)[n] = IF n <= Len(s) THEN s[n] ELSE q[n - Len(s)]
    BY <1>2, <1>3, ConcatProperties
  <2> QED
    BY <1>3, <1>4, <2>1
<1>10. PICK z : z = s \o q
  OBVIOUS
<1>11. ASSUME NEW n \in 1 .. N + 4 PROVE z[n] = s4[n]
  <2>1. CASE n <= N
    <3>1. n \in 1 .. N /\ n \in 1 .. N + 1 /\ n \in 1 .. N + 2 /\ n \in 1 .. N + 3
      BY <2>1
    <3>2. s4[n] = s[n]
      BY <1>5, <1>6, <1>7, <1>8, <3>1
    <3> QED
      BY <1>9, <1>10, <2>1, <3>2
  <2>2. CASE n = N + 1
    <3>1. n \in 1 .. N + 1 /\ n \in 1 .. N + 2 /\ n \in 1 .. N + 3 /\ n - N = 1
      BY <2>2
    <3>2. s4[n] = a
      BY <1>5, <1>6, <1>7, <1>8, <2>2, <3>1
    <3>3. z[n] = q[n - N]
      BY <1>9, <1>10, <2>2
    <3> QED
      BY <1>3, <3>1, <3>2, <3>3
  <2>3. CASE n = N + 2
    <3>1. n \in 1 .. N + 2 /\ n \in 1 .. N + 3 /\ n - N = 2
      BY <2>3
    <3>2. s4[n] = b
      BY <1>6, <1>7, <1>8, <2>3, <3>1
    <3>3. z[n] = q[n - N]
      BY <1>9, <1>10, <2>3
    <3> QED
      BY <1>3, <3>1, <3>2, <3>3
  <2>4. CASE n = N + 3
    <3>1. n \in 1 .. N + 3 /\ n - N = 3
      BY <2>4
    <3>2. s4[n] = c
      BY <1>7, <1>8, <2>4, <3>1
    <3>3. z[n] = q[n - N]
      BY <1>9, <1>10, <2>4
    <3> QED
      BY <1>3, <3>1, <3>2, <3>3
  <2>5. CASE n = N + 4
    <3>1. n - N = 4
      BY <2>5
    <3>2. s4[n] = d
      BY <1>8, <2>5
    <3>3. z[n] = q[n - N]
      BY <1>9, <1>10, <2>5
    <3> QED
      BY <1>3, <3>1, <3>2, <3>3
  <2> QED
    BY <2>1, <2>2, <2>3, <2>4, <2>5
<1>12. z = s4
  <2>1. z \in Seq(T) /\ Len(z) = N + 4
    BY <1>9, <1>10
  <2> QED
    BY <1>8, <1>11, <2>1, SeqEqual
<1> QED
  BY <1>10, <1>12 DEF q, s1, s2, s3, s4

(***************************************************************************)
(* The rows of one method are those of the runs from a to b, one of each.  *)
(***************************************************************************)
Group(rs, m, a, b) ==
    /\ {rs[n].run : n \in OfMethod(rs, m)} = a .. b
    /\ \A n, k \in OfMethod(rs, m) : rs[n].run = rs[k].run => n = k

LEMMA GroupEmpty ==
    ASSUME NEW m, NEW a \in Int
    PROVE  Group(<< >>, m, a, a - 1)
<1>1. OfMethod(<< >>, m) = {}
  BY DEF OfMethod
<1>2. a .. a - 1 = {}
  OBVIOUS
<1> QED
  BY <1>1, <1>2 DEF Group

LEMMA GroupSame ==
    ASSUME NEW rs, IsSequence(rs), NEW row, NEW m, m # row.method,
           NEW a, NEW b, Group(rs, m, a, b)
    PROVE  Group(Append(rs, row), m, a, b)
<1> DEFINE t == Append(rs, row)
           N == Len(rs)
<1>1. /\ N \in Nat /\ DOMAIN rs = 1 .. N /\ DOMAIN t = 1 .. N + 1
      /\ \A n \in 1 .. N : t[n] = rs[n]
      /\ t[N + 1] = row
  BY AppendAny
<1> HIDE DEF t, N
<1>2. OfMethod(t, m) = OfMethod(rs, m)
  <2>1. ASSUME NEW n \in 1 .. N + 1 PROVE t[n].method = m <=> n \in 1 .. N /\ rs[n].method = m
    <3>1. CASE n = N + 1
      BY <1>1, <3>1
    <3>2. CASE n # N + 1
      <4>1. n \in 1 .. N
        BY <1>1, <3>2
      <4> QED
        BY <1>1, <4>1
    <3> QED
      BY <3>1, <3>2
  <2>2. 1 .. N \subseteq 1 .. N + 1
    BY <1>1
  <2> QED
    BY <1>1, <2>1, <2>2 DEF OfMethod
<1>3. \A n \in OfMethod(rs, m) : t[n] = rs[n]
  BY <1>1 DEF OfMethod
<1>4. {t[n].run : n \in OfMethod(t, m)} = {rs[n].run : n \in OfMethod(rs, m)}
  BY <1>2, <1>3
<1>5. \A n, k \in OfMethod(t, m) : t[n].run = t[k].run => n = k
  BY <1>2, <1>3 DEF Group
<1>6. Group(t, m, a, b)
  BY <1>4, <1>5 DEF Group
<1> QED
  BY <1>6 DEF t

LEMMA GroupGrows ==
    ASSUME NEW rs, IsSequence(rs), NEW row, NEW a \in Int, NEW b \in Int, a <= b + 1,
           Group(rs, row.method, a, b), row.run = b + 1
    PROVE  Group(Append(rs, row), row.method, a, b + 1)
<1> DEFINE t == Append(rs, row)
           N == Len(rs)
           m == row.method
           old == OfMethod(rs, m)
<1>1. /\ N \in Nat /\ DOMAIN rs = 1 .. N /\ DOMAIN t = 1 .. N + 1
      /\ \A n \in 1 .. N : t[n] = rs[n]
      /\ t[N + 1] = row
  BY AppendAny
<1> HIDE DEF t, N
<1>2. OfMethod(t, m) = old \cup {N + 1} /\ old \subseteq 1 .. N
  <2>1. ASSUME NEW n \in 1 .. N + 1
        PROVE  t[n].method = m <=> n = N + 1 \/ (n \in 1 .. N /\ rs[n].method = m)
    <3>1. CASE n = N + 1
      BY <1>1, <3>1
    <3>2. CASE n # N + 1
      <4>1. n \in 1 .. N
        BY <1>1, <3>2
      <4> QED
        BY <1>1, <3>2, <4>1
    <3> QED
      BY <3>1, <3>2
  <2>2. 1 .. N \subseteq 1 .. N + 1 /\ N + 1 \in 1 .. N + 1
    BY <1>1
  <2>3. /\ OfMethod(t, m) = {n \in 1 .. N + 1 : t[n].method = m}
        /\ old = {n \in 1 .. N : rs[n].method = m}
    BY <1>1 DEF OfMethod
  <2> QED
    BY <2>1, <2>2, <2>3
<1>3. \A n \in old : t[n] = rs[n] /\ n # N + 1
  <2>1. \A n \in 1 .. N : n # N + 1
    BY <1>1
  <2> QED
    BY <1>1, <1>2, <2>1
<1> HIDE DEF old
<1>4. {rs[n].run : n \in old} = a .. b /\ \A n, k \in old : rs[n].run = rs[k].run => n = k
  BY DEF Group, old
<1>5. \A n \in old : rs[n].run # b + 1
  <2>1. b + 1 \notin a .. b
    OBVIOUS
  <2> QED
    BY <1>4, <2>1
<1>6. {t[n].run : n \in OfMethod(t, m)} = a .. b + 1
  <2>1. {t[n].run : n \in OfMethod(t, m)} = {rs[n].run : n \in old} \cup {b + 1}
    <3>1. t[N + 1].run = b + 1 /\ \A n \in old : t[n].run = rs[n].run
      BY <1>1, <1>3
    <3>2. {t[n].run : n \in OfMethod(t, m)} = {t[n].run : n \in old} \cup {t[N + 1].run}
      BY <1>2
    <3>3. {t[n].run : n \in old} = {rs[n].run : n \in old}
      BY <3>1
    <3> QED
      BY <3>1, <3>2, <3>3
  <2>2. (a .. b) \cup {b + 1} = a .. b + 1
    OBVIOUS
  <2> QED
    BY <1>4, <2>1, <2>2
<1>7. ASSUME NEW n \in OfMethod(t, m), NEW k \in OfMethod(t, m), t[n].run = t[k].run
      PROVE  n = k
  <2>1. \A x \in old : t[x].run # b + 1
    BY <1>3, <1>5
  <2>2. t[N + 1].run = b + 1
    BY <1>1
  <2>3. CASE n \in old /\ k \in old
    BY <1>3, <1>4, <1>7, <2>3
  <2>4. CASE n = N + 1
    BY <1>2, <1>7, <2>1, <2>2, <2>4
  <2>5. CASE k = N + 1
    BY <1>2, <1>7, <2>1, <2>2, <2>5
  <2> QED
    BY <1>2, <2>3, <2>4, <2>5
<1>8. Group(t, m, a, b + 1)
  BY <1>6, <1>7 DEF Group
<1> QED
  BY <1>8 DEF t

LEMMA GroupCounts ==
    ASSUME NEW rs, NEW m, NEW a \in Int, NEW b \in Int, a <= b, Group(rs, m, a, b)
    PROVE  /\ m \in DOMAIN summarize_rows(rs)
           /\ summarize_rows(rs)[m].runs = b - a + 1
<1> DEFINE S == OfMethod(rs, m)
           f == [n \in S |-> rs[n].run]
           names == {rs[n].method : n \in DOMAIN rs}
<1>1. m \in names
  <2>1. a \in a .. b
    OBVIOUS
  <2>2. PICK n \in S : rs[n].run = a
    BY <2>1 DEF Group
  <2> QED
    BY <2>2 DEF OfMethod
<1>2. IsNumbering(f, S, a, b)
  BY DEF Group, IsNumbering
<1> HIDE DEF names, f
<1>3. DOMAIN summarize_rows(rs) = names
  BY DEF summarize_rows, names
<1>4. summarize_rows(rs)[m].runs = b - a + 1
  BY <1>1, <1>2, CountedByNumber DEF summarize_rows, names
<1> QED
  BY <1>1, <1>3, <1>4

-----------------------------------------------------------------------------
(***************************************************************************)
(* The rows for a file: those of the flat methods up to run f, those of    *)
(* the trees up to run t, each of which binds the events.                  *)
(***************************************************************************)
FlatMethods == Methods \ {"merkle_chunks"}

RowsTyped(rs) ==
    /\ IsSequence(rs)
    /\ \A n \in DOMAIN rs :
         /\ rs[n].method \in Methods
         /\ rs[n].method = "merkle_chunks" => Covered(<< rs[n].digest >>) = make_events

RowsOfRuns(rs, a, f, t) ==
    /\ RowsTyped(rs)
    /\ \A m \in FlatMethods : Group(rs, m, a, f)
    /\ Group(rs, "merkle_chunks", a, t)

LEMMA RowsNone ==
    ASSUME NEW a \in Int
    PROVE  RowsOfRuns(<< >>, a, a - 1, a - 1)
<1>1. PICK z : z = << >>
  OBVIOUS
<1>2. RowsTyped(z)
  <2>1. z \in Seq(Nat)
    BY <1>1, EmptySeq
  <2>2. DOMAIN z = {}
    BY <1>1
  <2> QED
    BY <2>1, <2>2 DEF RowsTyped, IsSequence
<1>3. \A m : Group(z, m, a, a - 1)
  BY <1>1, GroupEmpty
<1>4. RowsOfRuns(z, a, a - 1, a - 1)
  BY <1>2, <1>3 DEF RowsOfRuns
<1> QED
  BY <1>1, <1>4

LEMMA RowsTypedGrow ==
    ASSUME NEW rs, RowsTyped(rs), NEW row, row.method \in Methods,
           row.method = "merkle_chunks" => Covered(<< row.digest >>) = make_events
    PROVE  RowsTyped(Append(rs, row))
<1> DEFINE t == Append(rs, row)
<1>1. IsSequence(rs)
  BY DEF RowsTyped
<1>2. /\ IsSequence(t) /\ Len(rs) \in Nat /\ DOMAIN rs = 1 .. Len(rs)
      /\ DOMAIN t = 1 .. Len(rs) + 1
      /\ \A n \in 1 .. Len(rs) : t[n] = rs[n]
      /\ t[Len(rs) + 1] = row
  BY <1>1, AppendAny
<1> HIDE DEF t
<1>3. ASSUME NEW n \in DOMAIN t
      PROVE  /\ t[n].method \in Methods
             /\ t[n].method = "merkle_chunks" => Covered(<< t[n].digest >>) = make_events
  <2>1. CASE n = Len(rs) + 1
    BY <1>2, <2>1
  <2>2. CASE n # Len(rs) + 1
    <3>1. n \in DOMAIN rs /\ t[n] = rs[n]
      BY <1>2, <2>2
    <3> QED
      BY <3>1 DEF RowsTyped
  <2> QED
    BY <2>1, <2>2
<1>4. RowsTyped(t)
  BY <1>2, <1>3 DEF RowsTyped
<1> QED
  BY <1>4 DEF t

\* One row more of a flat method.
LEMMA FlatRowAdded ==
    ASSUME NEW rs, RowsTyped(rs), NEW row, row.method \in FlatMethods,
           NEW a \in Int, NEW b \in Int, a <= b + 1, row.run = b + 1,
           Group(rs, row.method, a, b)
    PROVE  /\ RowsTyped(Append(rs, row))
           /\ Group(Append(rs, row), row.method, a, b + 1)
           /\ \A m, x, y : m # row.method /\ Group(rs, m, x, y)
                             => Group(Append(rs, row), m, x, y)
<1>1. IsSequence(rs)
  BY DEF RowsTyped
<1>2. row.method \in Methods /\ row.method # "merkle_chunks"
  BY DEF FlatMethods
<1>3. RowsTyped(Append(rs, row))
  BY <1>2, RowsTypedGrow
<1>4. Group(Append(rs, row), row.method, a, b + 1)
  BY <1>1, GroupGrows
<1>5. \A m, x, y : m # row.method /\ Group(rs, m, x, y)
                     => Group(Append(rs, row), m, x, y)
  BY <1>1, GroupSame
<1> QED
  BY <1>3, <1>4, <1>5

LEMMA FlatRowsAdded ==
    ASSUME NEW rs, NEW a \in Int, NEW b \in Int, a <= b + 1, RowsOfRuns(rs, a, b, b),
           benchRun = b + 1
    PROVE  RowsOfRuns(rs \o FlatRows, a, b + 1, b)
<1> DEFINE r1 == Row("ksentry_triangular", bench_ksentry)
           r2 == Row("rolling_hash_affine", bench_rolling_hash)
           r3 == Row("blake3_batch", Blake3(make_events))
           r4 == Row("hmac_sha256_batch", Hmac(make_events))
           s1 == Append(rs, r1)
           s2 == Append(s1, r2)
           s3 == Append(s2, r3)
           s4 == Append(s3, r4)
<1>1. /\ r1.method = "ksentry_triangular" /\ r1.run = b + 1
      /\ r2.method = "rolling_hash_affine" /\ r2.run = b + 1
      /\ r3.method = "blake3_batch" /\ r3.run = b + 1
      /\ r4.method = "hmac_sha256_batch" /\ r4.run = b + 1
  BY DEF Row
<1>2. FlatRows = << r1, r2, r3, r4 >>
  BY DEF FlatRows
<1> HIDE DEF r1, r2, r3, r4
<1>3. IsSequence(rs) /\ RowsTyped(rs)
  BY DEF RowsOfRuns, RowsTyped
<1>4. rs \o FlatRows = s4
  <2>1. rs \o << r1, r2, r3, r4 >> = Append(Append(Append(Append(rs, r1), r2), r3), r4)
    BY <1>3, FourAppended
  <2> QED
    BY <1>2, <2>1
<1>5. /\ FlatMethods = {"ksentry_triangular", "rolling_hash_affine", "blake3_batch",
                        "hmac_sha256_batch"}
      /\ "merkle_chunks" \notin FlatMethods
  BY DEF FlatMethods, Methods
<1>6. /\ \A m \in FlatMethods : Group(rs, m, a, b)
      /\ Group(rs, "merkle_chunks", a, b)
  BY DEF RowsOfRuns
<1> HIDE DEF s1, s2, s3, s4
<1>7. /\ RowsTyped(s1) /\ Group(s1, "ksentry_triangular", a, b + 1)
      /\ \A m \in {"rolling_hash_affine", "blake3_batch", "hmac_sha256_batch",
                   "merkle_chunks"} : Group(s1, m, a, b)
  <2>1. r1.method \in FlatMethods /\ Group(rs, r1.method, a, b)
    BY <1>1, <1>5, <1>6
  <2>2. /\ RowsTyped(s1) /\ Group(s1, r1.method, a, b + 1)
        /\ \A m, x, y : m # r1.method /\ Group(rs, m, x, y) => Group(s1, m, x, y)
    BY <1>1, <1>3, <2>1, FlatRowAdded DEF s1
  <2> QED
    BY <1>1, <1>5, <1>6, <2>2
<1>8. /\ RowsTyped(s2) /\ Group(s2, "ksentry_triangular", a, b + 1)
      /\ Group(s2, "rolling_hash_affine", a, b + 1)
      /\ \A m \in {"blake3_batch", "hmac_sha256_batch", "merkle_chunks"} :
            Group(s2, m, a, b)
  <2>1. r2.method \in FlatMethods /\ Group(s1, r2.method, a, b)
    BY <1>1, <1>5, <1>7
  <2>2. /\ RowsTyped(s2) /\ Group(s2, r2.method, a, b + 1)
        /\ \A m, x, y : m # r2.method /\ Group(s1, m, x, y) => Group(s2, m, x, y)
    BY <1>1, <1>7, <2>1, FlatRowAdded DEF s2
  <2> QED
    BY <1>1, <1>7, <2>2
<1>9. /\ RowsTyped(s3) /\ Group(s3, "ksentry_triangular", a, b + 1)
      /\ Group(s3, "rolling_hash_affine", a, b + 1)
      /\ Group(s3, "blake3_batch", a, b + 1)
      /\ \A m \in {"hmac_sha256_batch", "merkle_chunks"} : Group(s3, m, a, b)
  <2>1. r3.method \in FlatMethods /\ Group(s2, r3.method, a, b)
    BY <1>1, <1>5, <1>8
  <2>2. /\ RowsTyped(s3) /\ Group(s3, r3.method, a, b + 1)
        /\ \A m, x, y : m # r3.method /\ Group(s2, m, x, y) => Group(s3, m, x, y)
    BY <1>1, <1>8, <2>1, FlatRowAdded DEF s3
  <2> QED
    BY <1>1, <1>8, <2>2
<1>10. /\ RowsTyped(s4) /\ Group(s4, "ksentry_triangular", a, b + 1)
       /\ Group(s4, "rolling_hash_affine", a, b + 1)
       /\ Group(s4, "blake3_batch", a, b + 1)
       /\ Group(s4, "hmac_sha256_batch", a, b + 1)
       /\ Group(s4, "merkle_chunks", a, b)
  <2>1. r4.method \in FlatMethods /\ Group(s3, r4.method, a, b)
    BY <1>1, <1>5, <1>9
  <2>2. /\ RowsTyped(s4) /\ Group(s4, r4.method, a, b + 1)
        /\ \A m, x, y : m # r4.method /\ Group(s3, m, x, y) => Group(s4, m, x, y)
    BY <1>1, <1>9, <2>1, FlatRowAdded DEF s4
  <2> QED
    BY <1>1, <1>9, <2>2
<1>11. RowsOfRuns(s4, a, b + 1, b)
  BY <1>5, <1>10 DEF RowsOfRuns
<1> QED
  BY <1>4, <1>11

LEMMA TreeRowAdded ==
    ASSUME NEW rs, NEW a \in Int, NEW b \in Int, a <= b + 1, RowsOfRuns(rs, a, b + 1, b),
           benchRun = b + 1, NEW root, Covered(<< root >>) = make_events
    PROVE  RowsOfRuns(Append(rs, Row("merkle_chunks", root)), a, b + 1, b + 1)
<1> DEFINE row == Row("merkle_chunks", root)
<1>1. row.method = "merkle_chunks" /\ row.run = b + 1 /\ row.digest = root
  BY DEF Row
<1> HIDE DEF row
<1>2. /\ IsSequence(rs) /\ RowsTyped(rs)
      /\ \A m \in FlatMethods : Group(rs, m, a, b + 1)
      /\ Group(rs, "merkle_chunks", a, b)
  BY DEF RowsOfRuns, RowsTyped
<1>3. /\ "merkle_chunks" \in Methods
      /\ \A m \in FlatMethods : m # "merkle_chunks"
  BY DEF Methods, FlatMethods
<1>4. RowsTyped(Append(rs, row))
  <2>1. row.method \in Methods /\ Covered(<< row.digest >>) = make_events
    BY <1>1, <1>3
  <2> QED
    BY <1>2, <2>1, RowsTypedGrow
<1>5. Group(Append(rs, row), "merkle_chunks", a, b + 1)
  <2>1. Group(rs, row.method, a, b)
    BY <1>1, <1>2
  <2>2. Group(Append(rs, row), row.method, a, b + 1)
    BY <1>1, <1>2, <2>1, GroupGrows
  <2> QED
    BY <1>1, <2>2
<1>6. ASSUME NEW m \in FlatMethods PROVE Group(Append(rs, row), m, a, b + 1)
  <2>1. m # row.method /\ Group(rs, m, a, b + 1)
    BY <1>1, <1>2, <1>3
  <2> QED
    BY <1>2, <2>1, GroupSame
<1>7. RowsOfRuns(Append(rs, row), a, b + 1, b + 1)
  BY <1>4, <1>5, <1>6 DEF RowsOfRuns
<1> QED
  BY <1>7 DEF row

(***************************************************************************)
(* What is written of the rows of all runs.                                *)
(***************************************************************************)
FileGood(f, c) ==
    IF CsvOrder[f] = "baseline_bench_summary"
    THEN AllRunsCounted(c) ELSE RootsOfRuns(c, f)

LEMMA RunsTyped ==
    \A f \in 1 .. 3 : /\ FirstRun(f) \in Int /\ LastRun(f) \in Int
                      /\ FirstRun(f) <= LastRun(f)
  BY BaselinesAssumption DEF FirstRun, LastRun

LEMMA ContentsGood ==
    ASSUME NEW f \in 1 .. 3, RowsOfRuns(rows, FirstRun(f), LastRun(f), LastRun(f))
    PROVE  FileGood(f, Contents(f))
<1> DEFINE a == FirstRun(f)
           b == LastRun(f)
<1>1. a \in Int /\ b \in Int /\ a <= b
  BY RunsTyped
<1>2. \A m \in Methods : Group(rows, m, a, b)
  BY DEF RowsOfRuns, FlatMethods
<1>3. \A n \in DOMAIN rows :
        /\ rows[n].method \in Methods
        /\ rows[n].method = "merkle_chunks" => Covered(<< rows[n].digest >>) = make_events
  BY DEF RowsOfRuns, RowsTyped
<1>4. CASE f = 3
  <2>1. a = 1 /\ b = Runs
    BY <1>4 DEF FirstRun, LastRun
  <2>2. CsvOrder[f] = "baseline_bench_summary"
    BY <1>4, NamesAre
  <2>3. Runs \in Nat /\ b - a + 1 = Runs
    BY <2>1, BaselinesAssumption
  <2> HIDE DEF a, b
  <2>4. ASSUME NEW m \in Methods
        PROVE  m \in DOMAIN summarize_rows(rows) /\ summarize_rows(rows)[m].runs = b - a + 1
    BY <1>1, <1>2, GroupCounts
  <2>5. DOMAIN summarize_rows(rows) = Methods
    <3>1. DOMAIN summarize_rows(rows) = {rows[n].method : n \in DOMAIN rows}
      BY DEF summarize_rows
    <3> QED
      BY <1>3, <2>4, <3>1
  <2>6. AllRunsCounted(summarize_rows(rows))
    BY <2>3, <2>4, <2>5 DEF AllRunsCounted
  <2> QED
    BY <2>2, <2>6 DEF FileGood, Contents
<1>5. CASE f # 3
  <2>1. CsvOrder[f] # "baseline_bench_summary"
    <3>1. f = 1 \/ f = 2
      BY <1>5
    <3> QED
      BY <3>1, NamesAre
  <2>2. Group(rows, "merkle_chunks", a, b)
    BY <1>2 DEF Methods
  <2>3. \A n \in OfMethod(rows, "merkle_chunks") :
            Covered(<< rows[n].digest >>) = make_events
    BY <1>3 DEF OfMethod
  <2>4. RootsOfRuns(rows, f)
    BY <2>2, <2>3 DEF RootsOfRuns, Group
  <2> QED
    BY <2>1, <2>4 DEF FileGood, Contents
<1> QED
  BY <1>4, <1>5

-----------------------------------------------------------------------------
(***************************************************************************)
(* The inductive invariant of the evaluation: which runs the rows are of   *)
(* at each step, that a level being paired stands for the events, and that *)
(* what is written is good.                                                *)
(***************************************************************************)
RowsInv ==
    /\ bstep \in {"idle", "start"} => csv = 1 /\ benchRun = 0 /\ rows = << >>
    /\ bstep \in {"methods", "merkle", "write"} =>
         benchRun \in FirstRun(csv) .. LastRun(csv)
    /\ bstep = "methods" =>
         RowsOfRuns(rows, FirstRun(csv), benchRun - 1, benchRun - 1)
    /\ bstep = "merkle" =>
         RowsOfRuns(rows, FirstRun(csv), benchRun, benchRun - 1)
    /\ bstep = "write" =>
         RowsOfRuns(rows, FirstRun(csv), LastRun(csv), LastRun(csv))

TreeInv ==
    bstep = "merkle" =>
        i \in Nat /\ \E h \in Nat : Pairing(h, leaves, next, i)

CsvsInv ==
    /\ csv \in 1 .. 3 /\ IsSequence(csvs)
    /\ bstep \notin {"done", "failed"} => Len(csvs) = csv - 1
    /\ \A f \in DOMAIN csvs : FileGood(f, csvs[f])

EvalInv == RowsInv /\ TreeInv /\ CsvsInv

LEMMA EvalStarts ==
    ASSUME BaselinesInit PROVE EvalInv
<1>1. /\ bstep = "idle" /\ csv = 1 /\ benchRun = 0 /\ rows = << >> /\ csvs = << >>
  BY DEF BaselinesInit
<1>2. RowsInv /\ TreeInv
  BY <1>1 DEF RowsInv, TreeInv
<1>3. csvs \in Seq(Nat) /\ Len(csvs) = 0 /\ DOMAIN csvs = {}
  BY <1>1, EmptySeq
<1>4. IsSequence(csvs)
  BY <1>3 DEF IsSequence
<1>5. CsvsInv
  BY <1>1, <1>3, <1>4 DEF CsvsInv
<1> QED
  BY <1>2, <1>5 DEF EvalInv

LEMMA EvalUnchanged ==
    ASSUME EvalInv, UNCHANGED baselineVars PROVE EvalInv'
<1>1. UNCHANGED <<bstep, csv, benchRun, rows, leaves, next, i, csvs>>
  BY DEF baselineVars
<1> QED
  BY <1>1 DEF EvalInv, RowsInv, TreeInv, CsvsInv

\* The contents stay as long as nothing is written.
LEMMA CsvsKeep ==
    ASSUME CsvsInv, UNCHANGED <<csv, csvs>>,
           bstep' \notin {"done", "failed"} => bstep \notin {"done", "failed"}
    PROVE  CsvsInv'
  BY DEF CsvsInv

LEMMA CallBaselinesKeeps ==
    ASSUME EvalInv, CallBaselines, bstep = "idle" PROVE EvalInv'
<1>1. /\ bstep' = "start" /\ csv' = csv /\ benchRun' = benchRun /\ rows' = rows
      /\ csvs' = csvs
  BY DEF CallBaselines
<1>2. RowsInv' /\ TreeInv'
  BY <1>1 DEF EvalInv, RowsInv, TreeInv
<1>3. CsvsInv'
  BY <1>1, CsvsKeep DEF EvalInv
<1> QED
  BY <1>2, <1>3 DEF EvalInv

LEMMA CreateDirKeeps ==
    ASSUME EvalInv, CreateDir PROVE EvalInv'
<1>1. /\ bstep = "start" /\ bstep' = "methods" /\ csv' = csv /\ benchRun' = benchRun
      /\ rows' = rows /\ csvs' = csvs
  BY DEF CreateDir
<1>2. csv = 1 /\ benchRun = 0 /\ rows = << >> /\ FirstRun(1) = 0 /\ LastRun(1) = 0
  BY <1>1 DEF EvalInv, RowsInv, FirstRun, LastRun
<1>3. RowsOfRuns(<< >>, 0, 0 - 1, 0 - 1)
  BY RowsNone
<1>4. RowsInv' /\ TreeInv'
  <2>1. benchRun' \in FirstRun(csv') .. LastRun(csv')
    BY <1>1, <1>2
  <2>2. RowsOfRuns(rows', FirstRun(csv'), benchRun' - 1, benchRun' - 1)
    BY <1>1, <1>2, <1>3
  <2> QED
    BY <1>1, <2>1, <2>2 DEF RowsInv, TreeInv
<1>5. CsvsInv'
  BY <1>1, CsvsKeep DEF EvalInv
<1> QED
  BY <1>4, <1>5 DEF EvalInv

LEMMA RunMethodsKeeps ==
    ASSUME EvalInv, RunMethods PROVE EvalInv'
<1>1. /\ bstep = "methods" /\ bstep' = "merkle" /\ csv' = csv /\ benchRun' = benchRun
      /\ csvs' = csvs /\ rows' = rows \o FlatRows
      /\ leaves' = Leaves /\ next' = << >> /\ i' = 0
  BY DEF RunMethods
<1>2. csv \in 1 .. 3 /\ benchRun \in FirstRun(csv) .. LastRun(csv)
  BY <1>1 DEF EvalInv, CsvsInv, RowsInv
<1>3. FirstRun(csv) \in Int /\ LastRun(csv) \in Int
  BY <1>2, RunsTyped
<1>4. PICK b \in Int : b = benchRun - 1 /\ benchRun = b + 1 /\ FirstRun(csv) <= b + 1
  <2>1. benchRun - 1 \in Int /\ benchRun = (benchRun - 1) + 1
        /\ FirstRun(csv) <= (benchRun - 1) + 1
    BY <1>2, <1>3
  <2> QED
    BY <2>1
<1>5. RowsOfRuns(rows, FirstRun(csv), b, b)
  BY <1>1, <1>4 DEF EvalInv, RowsInv
<1>6. RowsOfRuns(rows \o FlatRows, FirstRun(csv), b + 1, b)
  BY <1>3, <1>4, <1>5, FlatRowsAdded
<1>7. RowsInv'
  <2>1. RowsOfRuns(rows', FirstRun(csv'), benchRun', benchRun' - 1)
    BY <1>1, <1>4, <1>6
  <2> QED
    BY <1>1, <1>2, <2>1 DEF RowsInv
<1>8. TreeInv'
  <2>1. Pairing(0, leaves', next', i')
    BY <1>1, PairingStarts
  <2>2. i' \in Nat /\ 0 \in Nat
    BY <1>1
  <2> QED
    BY <2>1, <2>2 DEF TreeInv
<1>9. CsvsInv'
  BY <1>1, CsvsKeep DEF EvalInv
<1> QED
  BY <1>7, <1>8, <1>9 DEF EvalInv

\* The steps of the pairing leave everything but the tree alone.
LEMMA TreeMoves ==
    ASSUME EvalInv, bstep = "merkle", UNCHANGED <<bstep, csv, benchRun, rows, csvs>>,
           TreeInv'
    PROVE  EvalInv'
<1>1. RowsInv'
  BY DEF EvalInv, RowsInv
<1>2. CsvsInv'
  BY CsvsKeep DEF EvalInv
<1> QED
  BY <1>1, <1>2 DEF EvalInv

LEMMA PairStepKeeps ==
    ASSUME EvalInv, PairStep PROVE EvalInv'
<1>1. /\ bstep = "merkle" /\ Len(leaves) > 1 /\ i < Len(leaves)
      /\ next' = next \o Paired(leaves, i) /\ i' = i + 2 /\ leaves' = leaves
      /\ UNCHANGED <<bstep, csv, benchRun, rows, csvs>>
  BY DEF PairStep, MoreThanOne
<1>2. PICK h \in Nat : Pairing(h, leaves, next, i)
  BY <1>1 DEF EvalInv, TreeInv
<1>3. i \in Nat
  BY <1>1 DEF EvalInv, TreeInv
<1>4. Pairing(h, leaves, next \o Paired(leaves, i), i + 2)
  BY <1>1, <1>2, <1>3, PairingStep
<1>5. Pairing(h, leaves', next', i') /\ i' \in Nat
  BY <1>1, <1>3, <1>4
<1>6. TreeInv'
  BY <1>5 DEF TreeInv
<1> QED
  BY <1>1, <1>6, TreeMoves

LEMMA NextLevelKeeps ==
    ASSUME EvalInv, NextLevel PROVE EvalInv'
<1>1. /\ bstep = "merkle" /\ Len(leaves) > 1 /\ i >= Len(leaves)
      /\ leaves' = next /\ next' = << >> /\ i' = 0
      /\ UNCHANGED <<bstep, csv, benchRun, rows, csvs>>
  BY DEF NextLevel, MoreThanOne
<1>2. PICK h \in Nat : Pairing(h, leaves, next, i)
  BY <1>1 DEF EvalInv, TreeInv
<1>3. i \in Nat
  BY <1>1 DEF EvalInv, TreeInv
<1>4. Pairing(h + 1, next, << >>, 0)
  BY <1>1, <1>2, <1>3, PairingUp
<1>5. Pairing(h + 1, leaves', next', i') /\ i' \in Nat /\ h + 1 \in Nat
  BY <1>1, <1>4
<1>6. TreeInv'
  BY <1>5 DEF TreeInv
<1> QED
  BY <1>1, <1>6, TreeMoves

LEMMA RootKeeps ==
    ASSUME EvalInv, Root PROVE EvalInv'
<1>1. /\ bstep = "merkle" /\ ~ (Len(leaves) > 1) /\ csv' = csv /\ csvs' = csvs
      /\ rows' = Append(rows, Row("merkle_chunks", leaves[1]))
      /\ \/ /\ benchRun < LastRun(csv) /\ benchRun' = benchRun + 1 /\ bstep' = "methods"
         \/ /\ ~ (benchRun < LastRun(csv)) /\ benchRun' = benchRun /\ bstep' = "write"
  BY DEF Root, MoreThanOne
<1>2. csv \in 1 .. 3 /\ benchRun \in FirstRun(csv) .. LastRun(csv)
  BY <1>1 DEF EvalInv, CsvsInv, RowsInv
<1>3. FirstRun(csv) \in Int /\ LastRun(csv) \in Int
  BY <1>2, RunsTyped
<1>4. PICK b \in Int : b = benchRun - 1 /\ benchRun = b + 1 /\ FirstRun(csv) <= b + 1
  <2>1. benchRun - 1 \in Int /\ benchRun = (benchRun - 1) + 1
        /\ FirstRun(csv) <= (benchRun - 1) + 1
    BY <1>2, <1>3
  <2> QED
    BY <2>1
<1>5. RowsOfRuns(rows, FirstRun(csv), b + 1, b)
  BY <1>1, <1>4 DEF EvalInv, RowsInv
<1>6. Covered(<< leaves[1] >>) = make_events
  <2>1. PICK h \in Nat : Pairing(h, leaves, next, i)
    BY <1>1 DEF EvalInv, TreeInv
  <2>2. i \in Nat
    BY <1>1 DEF EvalInv, TreeInv
  <2> QED
    BY <1>1, <2>1, <2>2, PairingEnds
<1>7. RowsOfRuns(rows', FirstRun(csv), benchRun, benchRun)
  <2>1. RowsOfRuns(Append(rows, Row("merkle_chunks", leaves[1])), FirstRun(csv), b + 1, b + 1)
    BY <1>3, <1>4, <1>5, <1>6, TreeRowAdded
  <2> QED
    BY <1>1, <1>4, <2>1
<1>8. RowsInv' /\ TreeInv'
  <2>1. CASE benchRun < LastRun(csv)
    <3>1. benchRun' = benchRun + 1 /\ bstep' = "methods" /\ benchRun' - 1 = benchRun
      BY <1>1, <1>2, <1>3, <2>1
    <3>2. benchRun' \in FirstRun(csv') .. LastRun(csv')
      BY <1>1, <1>2, <1>3, <2>1, <3>1
    <3>3. RowsOfRuns(rows', FirstRun(csv'), benchRun' - 1, benchRun' - 1)
      BY <1>1, <1>7, <3>1
    <3> QED
      BY <3>1, <3>2, <3>3 DEF RowsInv, TreeInv
  <2>2. CASE ~ (benchRun < LastRun(csv))
    <3>1. benchRun' = benchRun /\ bstep' = "write"
      BY <1>1, <2>2
    <3>2. benchRun = LastRun(csv)
      BY <1>2, <1>3, <2>2
    <3>3. RowsOfRuns(rows', FirstRun(csv'), LastRun(csv'), LastRun(csv'))
      BY <1>1, <1>7, <3>2
    <3>4. benchRun' \in FirstRun(csv') .. LastRun(csv')
      BY <1>1, <1>2, <3>1
    <3> QED
      BY <3>1, <3>3, <3>4 DEF RowsInv, TreeInv
  <2> QED
    BY <2>1, <2>2
<1>9. CsvsInv'
  BY <1>1, CsvsKeep DEF EvalInv
<1> QED
  BY <1>8, <1>9 DEF EvalInv

LEMMA WriteCsvKeeps ==
    ASSUME EvalInv, WriteCsv PROVE EvalInv'
<1>1. /\ bstep = "write" /\ csvs' = Append(csvs, Contents(csv)) /\ rows' = << >>
      /\ \/ /\ csv < 3 /\ csv' = csv + 1 /\ benchRun' = FirstRun(csv + 1)
            /\ bstep' = "methods"
         \/ ~ (csv < 3) /\ bstep' = "done" /\ csv' = csv
  BY NamesAre DEF WriteCsv
<1>2. /\ csv \in 1 .. 3 /\ IsSequence(csvs) /\ Len(csvs) = csv - 1
      /\ \A f \in DOMAIN csvs : FileGood(f, csvs[f])
      /\ RowsOfRuns(rows, FirstRun(csv), LastRun(csv), LastRun(csv))
  BY <1>1 DEF EvalInv, CsvsInv, RowsInv
<1>3. FileGood(csv, Contents(csv))
  BY <1>2, ContentsGood
<1> DEFINE c == Contents(csv)
<1> HIDE DEF c
<1>4. /\ IsSequence(csvs') /\ Len(csvs) \in Nat /\ DOMAIN csvs = 1 .. Len(csvs)
      /\ Len(csvs') = Len(csvs) + 1 /\ DOMAIN csvs' = 1 .. Len(csvs) + 1
      /\ \A f \in 1 .. Len(csvs) : csvs'[f] = csvs[f]
      /\ csvs'[Len(csvs) + 1] = c
  <2>1. csvs' = Append(csvs, c)
    BY <1>1 DEF c
  <2> QED
    BY <1>2, <2>1, AppendAny
<1>5. \A f \in DOMAIN csvs' : FileGood(f, csvs'[f])
  <2>1. SUFFICES ASSUME NEW f \in DOMAIN csvs' PROVE FileGood(f, csvs'[f])
    OBVIOUS
  <2>2. CASE f = Len(csvs) + 1
    <3>1. f = csv /\ csvs'[f] = c
      BY <1>2, <1>4, <2>2
    <3> QED
      BY <1>3, <3>1 DEF c
  <2>3. CASE f # Len(csvs) + 1
    <3>1. f \in DOMAIN csvs /\ csvs'[f] = csvs[f]
      BY <1>4, <2>3
    <3> QED
      BY <1>2, <3>1
  <2> QED
    BY <2>2, <2>3
<1>6. CsvsInv'
  <2>1. CASE csv < 3
    <3>1. csv' \in 1 .. 3 /\ Len(csvs') = csv' - 1
      BY <1>1, <1>2, <1>4, <2>1
    <3> QED
      BY <1>4, <1>5, <3>1 DEF CsvsInv
  <2>2. CASE ~ (csv < 3)
    <3>1. csv' \in 1 .. 3 /\ bstep' = "done"
      BY <1>1, <1>2, <2>2
    <3> QED
      BY <1>4, <1>5, <3>1 DEF CsvsInv
  <2> QED
    BY <2>1, <2>2
<1>7. RowsInv' /\ TreeInv'
  <2>1. CASE csv < 3
    <3>1. csv' = csv + 1 /\ benchRun' = FirstRun(csv') /\ bstep' = "methods"
          /\ csv' \in 1 .. 3
      BY <1>1, <1>2, <2>1
    <3>2. FirstRun(csv') \in Int /\ LastRun(csv') \in Int /\ FirstRun(csv') <= LastRun(csv')
      BY <3>1, RunsTyped
    <3>3. RowsOfRuns(rows', FirstRun(csv'), benchRun' - 1, benchRun' - 1)
      BY <1>1, <3>1, <3>2, RowsNone
    <3>4. benchRun' \in FirstRun(csv') .. LastRun(csv')
      BY <3>1, <3>2
    <3> QED
      BY <3>1, <3>3, <3>4 DEF RowsInv, TreeInv
  <2>2. CASE ~ (csv < 3)
    <3>1. bstep' = "done"
      BY <1>1, <2>2
    <3> QED
      BY <3>1 DEF RowsInv, TreeInv
  <2> QED
    BY <2>1, <2>2
<1> QED
  BY <1>6, <1>7 DEF EvalInv

LEMMA BaselinesFailKeeps ==
    ASSUME EvalInv, BaselinesFail PROVE EvalInv'
<1>1. bstep \in {"start", "write"} /\ bstep' = "failed" /\ csv' = csv /\ csvs' = csvs
  BY DEF BaselinesFail
<1>2. RowsInv' /\ TreeInv'
  BY <1>1 DEF RowsInv, TreeInv
<1>3. CsvsInv'
  BY <1>1, CsvsKeep DEF EvalInv
<1> QED
  BY <1>2, <1>3 DEF EvalInv

LEMMA EvalInvAlways == Spec => []EvalInv
<1>1. Init => EvalInv
  BY EvalStarts DEF Init
<1>2. EvalInv /\ [Next]_vars => EvalInv'
  <2>1. SUFFICES ASSUME EvalInv, [Next]_vars PROVE EvalInv'
    OBVIOUS
  <2>2. CASE Verus \/ Test
    BY <2>1, <2>2, EvalUnchanged DEF Verus, Test, Command
  <2>3. CASE BuildCases
    BY <2>1, <2>3, EvalUnchanged DEF BuildCases
  <2>4. CASE ProgramFails
    BY <2>1, <2>4, EvalUnchanged DEF ProgramFails
  <2>5. CASE WriteReport
    <3>1. CASE step = "core"
      <4>1. CallBaselines /\ bstep = "idle"
        BY <2>5, <3>1 DEF WriteReport, ReportDue
      <4> QED
        BY <2>1, <4>1, CallBaselinesKeeps
    <3>2. CASE step # "core"
      BY <2>1, <2>5, <3>2, EvalUnchanged DEF WriteReport
    <3> QED
      BY <3>1, <3>2
  <2>6. CASE Evaluate
    <3>1. BaselinesStep
      BY <2>6 DEF Evaluate
    <3> QED
      BY <2>1, <3>1, CreateDirKeeps, RunMethodsKeeps, PairStepKeeps, NextLevelKeeps,
         RootKeeps, WriteCsvKeeps, BaselinesFailKeeps DEF BaselinesStep
  <2>7. CASE CoreEnds
    BY <2>1, <2>7, EvalUnchanged DEF CoreEnds
  <2>8. CASE CopyNext \/ CopyFails \/ Plot
    BY <2>1, <2>8, EvalUnchanged DEF CopyNext, CopyFails, Plot
  <2>9. CASE UNCHANGED vars
    BY <2>1, <2>9, EvalUnchanged DEF vars
  <2> QED
    BY <2>1, <2>2, <2>3, <2>4, <2>5, <2>6, <2>7, <2>8, <2>9 DEF Next
<1> QED
  BY <1>1, <1>2, PTL DEF Spec

(***************************************************************************)
(* The Merkle root of every run covers each event once and in order, as    *)
(* does every level on the way to it, for any number of events and any     *)
(* size of the chunks; the files of rows hold one root of each of their    *)
(* runs, and the summary counts every run of each method                   *)
(* (bench_merkle_chunks, summarize_rows and the three writers).            *)
(***************************************************************************)
THEOREM RootsBind == Spec => []RootBinds
<1>1. EvalInv => RootBinds
  <2>1. SUFFICES ASSUME EvalInv PROVE RootBinds
    OBVIOUS
  <2>2. \A f \in DOMAIN csvs : FileGood(f, csvs[f])
    BY <2>1 DEF EvalInv, CsvsInv
  <2>3. bstep = "merkle" =>
          Covered(next \o SubSeq(leaves, i + 1, Len(leaves))) = make_events
    BY <2>1 DEF EvalInv, TreeInv, Pairing, Rest
  <2> QED
    BY <2>2, <2>3 DEF RootBinds, FileGood
<1> QED
  BY <1>1, EvalInvAlways, PTL
=============================================================================
