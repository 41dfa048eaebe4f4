----------------------------- MODULE ShellProofs -----------------------------
(***************************************************************************)
(* Proofs about the command line: for buffers and a history of any size,   *)
(* any set of characters, and keys that strike between any two bytes that  *)
(* the main loop copies or clears.                                         *)
(***************************************************************************)
EXTENDS Shell, SetInduction, FiniteSetTheorems, SequenceTheorems

(* Numbers. *)

LEMMA ShellConstants ==
  /\ Cap \in Nat /\ Cap >= 1 /\ GuiCap \in Nat /\ GuiCap >= 1 /\ GuiCap <= Cap
  /\ MaxHistory \in Nat /\ MaxHistory >= 1
  /\ Nul \notin Chars /\ Monitor # Vgamode /\ Exec # Vgamode
BY ShellAssumption

\* The lesser of two numbers
LEMMA MinOfTwo ==
  ASSUME NEW a \in Int, NEW b \in Int
  PROVE  Min({a, b}) = IF a <= b THEN a ELSE b
<1> DEFINE m == IF a <= b THEN a ELSE b
<1>1. m \in {a, b} /\ \A y \in {a, b} : m =< y
  OBVIOUS
<1>2. \A x \in {a, b} : (\A y \in {a, b} : x =< y) => x = m
  OBVIOUS
<1> HIDE DEF m
<1>3. Min({a, b}) \in {a, b} /\ \A y \in {a, b} : Min({a, b}) =< y
  BY <1>1 DEF Min
<1> QED
  BY <1>2, <1>3 DEF m

\* The place of byte n of the copying, and that of the byte behind it
LEMMA Places ==
  ASSUME NEW n \in Nat, NEW c \in Nat, c >= 1, NEW m \in Nat, n <= m * c
  PROVE  /\ n \div c \in 0 .. m /\ n % c \in 0 .. (c - 1)
         /\ n < m * c => n \div c < m
         /\ n = m * c => n \div c = m
         /\ n = 0 => n \div c = 0 /\ n % c = 0
         /\ (n + 1) \div c = IF n % c = c - 1 THEN n \div c + 1 ELSE n \div c
         /\ (n + 1) % c = IF n % c = c - 1 THEN 0 ELSE (n % c) + 1
<1> DEFINE q == n \div c
           r == n % c
           v == (n + 1) \div c
           w == (n + 1) % c
<1>1. q \in Int /\ r \in 0 .. (c - 1) /\ n = q * c + r
  OBVIOUS
<1>2. v \in Int /\ w \in 0 .. (c - 1) /\ n + 1 = v * c + w
  OBVIOUS
<1> HIDE DEF q, r, v, w
<1>3. ASSUME NEW x \in Int, NEW y \in Int, x < y
      PROVE  x * c + c <= y * c
  <2>1. y - x \in Nat /\ y - x >= 1
    BY <1>3
  <2>2. (y - x) * c >= c
    BY <2>1
  <2> QED
    BY <2>2
<1>4. q >= 0
  <2> SUFFICES ASSUME q < 0 PROVE FALSE
    BY <1>1
  <2>1. q * c + c <= 0 * c
    BY <1>1, <1>3
  <2> QED
    BY <2>1, <1>1
<1>5. q <= m
  <2> SUFFICES ASSUME m < q PROVE FALSE
    BY <1>1
  <2>1. m * c + c <= q * c
    BY <1>1, <1>3
  <2> QED
    BY <2>1, <1>1
<1>6. n < m * c => q < m
  <2> SUFFICES ASSUME n < m * c, q = m PROVE FALSE
    BY <1>1, <1>5
  <2> QED
    BY <1>1
<1>7. n = m * c => q = m
  <2> SUFFICES ASSUME n = m * c, q < m PROVE FALSE
    BY <1>1, <1>5
  <2>1. q * c + c <= m * c
    BY <1>1, <1>3
  <2> QED
    BY <2>1, <1>1
<1>8. n = 0 => q = 0 /\ r = 0
  <2> SUFFICES ASSUME n = 0 PROVE q = 0 /\ r = 0
    OBVIOUS
  <2>1. ~(0 < q)
    <3> SUFFICES ASSUME 0 < q PROVE FALSE
      OBVIOUS
    <3>1. 0 * c + c <= q * c
      BY <1>1, <1>3
    <3> QED
      BY <3>1, <1>1
  <2>2. q = 0
    BY <2>1, <1>1, <1>4
  <2>3. q * c = 0
    BY <2>2
  <2> QED
    BY <2>2, <2>3, <1>1
<1>9. CASE r = c - 1
  <2>1. n + 1 = (q + 1) * c
    BY <1>1, <1>9
  <2>2. ~(v < q + 1)
    <3> SUFFICES ASSUME v < q + 1 PROVE FALSE
      OBVIOUS
    <3>1. v * c + c <= (q + 1) * c
      BY <1>1, <1>2, <1>3
    <3> QED
      BY <3>1, <2>1, <1>2
  <2>3. ~(q + 1 < v)
    <3> SUFFICES ASSUME q + 1 < v PROVE FALSE
      OBVIOUS
    <3>1. (q + 1) * c + c <= v * c
      BY <1>1, <1>2, <1>3
    <3> QED
      BY <3>1, <2>1, <1>2
  <2>4. v = q + 1
    BY <2>2, <2>3, <1>1, <1>2
  <2>5. w = 0
    BY <2>1, <2>4, <1>2
  <2> QED
    BY <2>4, <2>5, <1>1, <1>4, <1>5, <1>6, <1>7, <1>8, <1>9 DEF q, r, v, w
<1>10. CASE r # c - 1
  <2>1. n + 1 = q * c + (r + 1) /\ r + 1 \in 0 .. (c - 1)
    BY <1>1, <1>10
  <2>2. ~(v < q)
    <3> SUFFICES ASSUME v < q PROVE FALSE
      OBVIOUS
    <3>1. v * c + c <= q * c
      BY <1>1, <1>2, <1>3
    <3>2. v * c \in Int /\ q * c \in Int
      BY <1>1, <1>2
    <3> QED
      BY <3>1, <3>2, <2>1, <1>1, <1>2
  <2>3. ~(q < v)
    <3> SUFFICES ASSUME q < v PROVE FALSE
      OBVIOUS
    <3>1. q * c + c <= v * c
      BY <1>1, <1>2, <1>3
    <3>2. v * c \in Int /\ q * c \in Int
      BY <1>1, <1>2
    <3> QED
      BY <3>1, <3>2, <2>1, <1>1, <1>2
  <2>4. v = q
    BY <2>2, <2>3, <1>1, <1>2
  <2>5. w = r + 1
    BY <2>1, <2>4, <1>1, <1>2
  <2> QED
    BY <2>4, <2>5, <1>1, <1>4, <1>5, <1>6, <1>7, <1>8, <1>10 DEF q, r, v, w
<1> QED
  BY <1>9, <1>10
-----------------------------------------------------------------------------
(* Strings. *)

\* A string ends at its first null character, or with its array.
LEMMA StrLenIs ==
  ASSUME NEW n \in Nat, NEW s \in [0 .. (n - 1) -> Cells]
  PROVE  /\ StrLen(s) \in 0 .. n
         /\ \A i \in 0 .. (n - 1) : i < StrLen(s) => s[i] # Nul
         /\ StrLen(s) < n => s[StrLen(s)] = Nul
<1> DEFINE S == {i \in 0 .. (n - 1) : s[i] = Nul} \cup {n}
<1>1. DOMAIN s = 0 .. (n - 1) /\ Cardinality(0 .. (n - 1)) = n
  <2>1. Cardinality(0 .. (n - 1)) = IF 0 > n - 1 THEN 0 ELSE n - 1 - 0 + 1
    BY FS_Interval
  <2> QED
    BY <2>1
<1>2. StrLen(s) = Min(S)
  BY <1>1 DEF StrLen
<1>3. S \in SUBSET Nat /\ S # {}
  OBVIOUS
<1> HIDE DEF S
<1>4. \E x \in S : \A y \in S : x =< y
  BY <1>3, LeastElement
<1>5. Min(S) \in S /\ \A y \in S : Min(S) =< y
  BY <1>4 DEF Min
<1> DEFINE d == Min(S)
<1>6. d \in S /\ \A y \in S : d =< y
  BY <1>5
<1> HIDE DEF d
<1>7. d \in 0 .. n /\ d <= n
  BY <1>6 DEF S
<1>8. \A i \in 0 .. (n - 1) : i < d => s[i] # Nul
  BY <1>6, <1>7 DEF S
<1>9. d < n => s[d] = Nul
  BY <1>6 DEF S
<1> QED
  BY <1>2, <1>7, <1>8, <1>9 DEF d

\* Where a string ends
LEMMA EndsAt ==
  ASSUME NEW n \in Nat, NEW s \in [0 .. (n - 1) -> Cells], NEW e \in 0 .. (n - 1),
         s[e] = Nul
  PROVE  /\ StrLen(s) <= e
         /\ (\A i \in 0 .. (e - 1) : s[i] # Nul) => StrLen(s) = e
<1> DEFINE d == StrLen(s)
<1>1. d \in 0 .. n /\ (\A i \in 0 .. (n - 1) : i < d => s[i] # Nul) /\ (d < n => s[d] = Nul)
  BY StrLenIs
<1> HIDE DEF d
<1>2. d <= e
  BY <1>1
<1> QED
  BY <1>1, <1>2 DEF d

\* The characters of a string are characters.
LEMMA TextIs ==
  ASSUME NEW n \in Nat, NEW s \in [0 .. (n - 1) -> Cells]
  PROVE  /\ Text(s) \in Seq(Chars) /\ Len(Text(s)) = StrLen(s)
         /\ Text(s) = [i \in 1 .. StrLen(s) |-> s[i - 1]]
<1> DEFINE d == StrLen(s)
<1>1. d \in 0 .. n /\ \A i \in 0 .. (n - 1) : i < d => s[i] # Nul
  BY StrLenIs
<1>2. Text(s) = [i \in 1 .. d |-> s[i - 1]]
  BY DEF Text
<1> HIDE DEF d
<1>3. \A i \in 1 .. d : s[i - 1] \in Chars
  <2> TAKE i \in 1 .. d
  <2>1. i - 1 \in 0 .. (n - 1) /\ i - 1 < d
    BY <1>1
  <2> QED
    BY <2>1, <1>1 DEF Cells
<1>4. Text(s) \in [1 .. d -> Chars]
  BY <1>2, <1>3
<1>5. Text(s) \in Seq(Chars) /\ Len(Text(s)) = d
  BY <1>4, <1>1, SeqDef
<1> QED
  BY <1>2, <1>5 DEF d

\* Two arrays that agree up to the end of the string in one of them hold the same text.
LEMMA SameText ==
  ASSUME NEW n \in Nat, NEW s \in [0 .. (n - 1) -> Cells],
         NEW p \in Nat, NEW t \in [0 .. (p - 1) -> Cells],
         StrLen(s) < n, StrLen(s) < p, \A i \in 0 .. StrLen(s) : t[i] = s[i]
  PROVE  StrLen(t) = StrLen(s) /\ Text(t) = Text(s)
<1> DEFINE d == StrLen(s)
<1>1. d \in 0 .. n /\ (\A i \in 0 .. (n - 1) : i < d => s[i] # Nul) /\ s[d] = Nul
  BY StrLenIs
<1>2. d < n /\ d < p /\ \A i \in 0 .. d : t[i] = s[i]
  OBVIOUS
<1>3. Text(s) = [i \in 1 .. d |-> s[i - 1]] /\ Text(t) = [i \in 1 .. StrLen(t) |-> t[i - 1]]
  BY DEF Text
<1> HIDE DEF d
<1>4. t[d] = Nul /\ d \in 0 .. (p - 1) /\ \A i \in 0 .. (d - 1) : t[i] # Nul
  BY <1>1, <1>2
<1>5. StrLen(t) = d
  BY <1>4, EndsAt
<1>6. \A i \in 1 .. d : t[i - 1] = s[i - 1]
  BY <1>1, <1>2
<1> QED
  BY <1>3, <1>5, <1>6 DEF d
-----------------------------------------------------------------------------
(* The inductive invariant. *)

Waiting == {"idle", "sleep", "asleep"}

GhostTypes == raced \in BOOLEAN /\ torn \in BOOLEAN /\ recent \in Seq(Seq(Chars))

\* Only the loop of vgamode has the GUI on, and it is never left; and the main loop does
\* nothing but wait as long as there is no command.
InPlace == /\ vga_active <=> pc = "gui"
           /\ pc \notin Waiting => command_ready

\* A line that came from the GUI may have anything in its last cell, and is never copied
\* byte by byte; half of one line and half of another end because both end there.
Ended == /\ command_buffer[Cap - 1] = Nul
         /\ ~vga_active => \A l \in Lines : cmd_history[l][Cap - 1] = Nul
         /\ \A l \in Lines : StrLen(cmd_history[l]) < Cap

\* Unless a key was too early: the screen shows what is in the buffer up to the cursor,
\* Enter has put a null there, and nothing is left to show while the buffer is cleared.
Shown == ~raced =>
  /\ line = [i \in 1 .. command_length |-> command_buffer[i - 1]]
  /\ \A i \in 0 .. (command_length - 1) : command_buffer[i] # Nul
  /\ pc \in {"wipe", "monwipe"} => command_length = 0
  /\ command_ready /\ pc \in Waiting \cup {"copy", "rewind", "run"}
       => command_buffer[command_length] = Nul

\* add_to_history has copied cell i of line l, when it has copied k bytes.
Copied(l, i) == l > Row \/ (l = Row /\ i < Column)

\* Line l as it was when the copying began: a cell that went into the next line is there.
Before(l) == [i \in Index |-> IF Copied(l + 1, i) THEN cmd_history[l + 1][i]
                              ELSE cmd_history[l][i]]

Remembered == ~torn =>
  /\ history_count = Len(recent)
  /\ pc # "copy" =>
       \A l \in 0 .. (history_count - 1) : Text(cmd_history[l]) = recent[l + 1]
  /\ pc = "copy" =>
       \A l \in 0 .. (history_count - 1) :
         l < MaxHistory - 1 => Text(Before(l)) = recent[l + 1]

\* Unless a key was too early, what has come into the newest line is the command.
CopiesCommand ==
  pc = "copy" /\ ~raced =>
    \A i \in Index : Copied(0, i) => cmd_history[0][i] = command_buffer[i]

ShellIndInv == /\ ShellTypeOK /\ GhostTypes /\ InPlace /\ Ended /\ GuiLineWhole
               /\ Shown /\ Remembered /\ CopiesCommand

\* The history from the top, no cell of it copied yet
LEMMA NothingCopied ==
  ASSUME k' = 0
  PROVE  \A l \in 0 .. (MaxHistory - 1), i \in Index : ~Copied(l, i)'
<1>1. 0 \div Cap = 0 /\ 0 % Cap = 0
  <2>1. 0 <= MaxHistory * Cap
    BY ShellConstants
  <2> QED
    BY <2>1, Places, ShellConstants
<1>2. Row' = MaxHistory - 1 /\ Column' = 0
  BY <1>1, ShellConstants DEF Row, Column
<1> QED
  BY <1>2, ShellConstants DEF Copied, Index

LEMMA ShellInitInv == ShellInit => ShellIndInv
<1> SUFFICES ASSUME ShellInit PROVE ShellIndInv
  OBVIOUS
<1> USE ShellConstants
<1>1. ShellTypeOK
  <2>1. Empty \in [Index -> Cells]
    BY DEF Empty, Cells
  <2>2. 0 \in 0 .. (MaxHistory * Cap) /\ 0 \in Index
    BY DEF Index
  <2>3. gui_cmd_buffer \in [0 .. (GuiCap - 1) -> Cells]
    BY DEF ShellInit, Cells
  <2> QED
    BY <2>1, <2>2, <2>3, SMTT(30) DEF ShellInit, ShellTypeOK
<1>2. GhostTypes
  BY EmptySeq DEF ShellInit, GhostTypes
<1>3. InPlace
  BY DEF ShellInit, InPlace, Waiting
<1>4. Ended
  <2>1. \A l \in Lines : cmd_history[l] = Empty
    BY DEF ShellInit
  <2>2. Cap - 1 \in 0 .. (Cap - 1) /\ Index = 0 .. (Cap - 1)
    BY DEF Index
  <2>3. Empty[Cap - 1] = Nul /\ Empty \in [0 .. (Cap - 1) -> Cells]
    BY <2>2 DEF Empty, Cells
  <2>4. StrLen(Empty) <= Cap - 1
    BY <2>2, <2>3, EndsAt
  <2>5. StrLen(Empty) \in 0 .. Cap
    BY <2>3, StrLenIs
  <2> QED
    BY <2>1, <2>3, <2>4, <2>5 DEF ShellInit, Ended
<1>5. GuiLineWhole
  <2>1. /\ gui_cmd_buffer \in [0 .. (GuiCap - 1) -> Cells] /\ gui_cmd_buffer[0] = Nul
        /\ gui_cmd_len = 0
    BY DEF ShellInit, Cells
  <2> QED
    BY <2>1, EndsAt DEF GuiLineWhole
<1>6. Shown
  <2>1. line = [i \in 1 .. 0 |-> command_buffer[i - 1]]
    BY DEF ShellInit
  <2> QED
    BY <2>1 DEF ShellInit, Shown, Waiting
<1>7. Remembered
  BY DEF ShellInit, Remembered
<1>8. CopiesCommand
  BY DEF ShellInit, CopiesCommand
<1> QED
  BY <1>1, <1>2, <1>3, <1>4, <1>5, <1>6, <1>7, <1>8 DEF ShellIndInv
-----------------------------------------------------------------------------
(* What the steps have in common. *)

\* A step that leaves the history and the recent lines alone, and goes on copying if it
\* was copying
LEMMA HistoryFrame ==
  ASSUME ShellIndInv, UNCHANGED <<cmd_history, history_count, torn, recent>>,
         pc' = "copy" <=> pc = "copy", pc = "copy" => k' = k
  PROVE  Remembered'
<1>1. CASE pc # "copy"
  BY <1>1 DEF ShellIndInv, Remembered
<1>2. CASE pc = "copy"
  <2>1. k' = k /\ pc' = "copy"
    BY <1>2
  <2>2. ASSUME NEW l \in 0 .. (history_count - 1)
        PROVE  Before(l)' = Before(l)
    BY <2>1 DEF Before, Copied, Row, Column
  <2>3. ASSUME NEW l \in 0 .. (history_count - 1)
        PROVE  Text(Before(l))' = Text(Before(l))
    BY <2>2 DEF Text, StrLen
  <2> QED
    BY <1>2, <2>1, <2>3 DEF ShellIndInv, Remembered
<1> QED
  BY <1>1, <1>2

\* A key wakes the main loop and otherwise leaves it where it is; unless it is too early
\* the main loop waits.
LEMMA KeyFacts ==
  ASSUME ShellIndInv, Key
  PROVE  /\ pc' \in {"idle", "sleep", "asleep", "copy", "rewind", "run", "monitor",
                     "monsleep", "monasleep", "monreset", "monwipe", "endsleep",
                     "endasleep", "gui", "exec", "execsleep", "execasleep", "reset", "wipe"}
         /\ pc' = "copy" <=> pc = "copy"
         /\ pc' = "gui" <=> pc = "gui"
         /\ pc' \in Waiting <=> pc \in Waiting
         /\ k' = k /\ torn' = torn /\ raced' \in BOOLEAN
         /\ ~raced' => ~raced /\ ~command_ready /\ pc \in Waiting
<1>1. raced' \in BOOLEAN /\ (~raced' => ~raced /\ ~command_ready)
  BY DEF Key, ShellIndInv, GhostTypes, ShellTypeOK
<1>2. ~command_ready => pc \in Waiting
  BY DEF ShellIndInv, InPlace
<1> QED
  BY <1>1, <1>2 DEF Key, Woken, ShellIndInv, ShellTypeOK, Waiting

\* A key that does not enter a line in the GUI leaves the history alone.
LEMMA KeyHistory ==
  ASSUME ShellIndInv, Key, UNCHANGED <<cmd_history, history_count, recent, vga_active>>,
         command_ready => command_ready'
  PROVE  InPlace' /\ GhostTypes' /\ Remembered' /\ CopiesCommand'
<1>1. InPlace'
  BY KeyFacts DEF InPlace, ShellIndInv
<1>2. GhostTypes'
  BY KeyFacts DEF GhostTypes, ShellIndInv
<1>3. Remembered'
  BY KeyFacts, HistoryFrame
<1>4. CopiesCommand'
  <2>1. pc' = "copy" => raced'
    BY KeyFacts DEF Waiting
  <2> QED
    BY <2>1 DEF CopiesCommand
<1> QED
  BY <1>1, <1>2, <1>3, <1>4
-----------------------------------------------------------------------------
(* The keys of the text shell. *)

LEMMA TypeCharStep ==
  ASSUME ShellIndInv, NEW c \in Chars, TypeChar(c)
  PROVE  ShellIndInv'
<1> USE ShellConstants
<1>1. Key /\ UNCHANGED <<command_ready, history, gui, stuck, recent>>
  BY DEF TypeChar
<1>2. InPlace' /\ GhostTypes' /\ Remembered' /\ CopiesCommand'
  BY <1>1, KeyHistory DEF history, gui
<1>3. GuiLineWhole'
  BY <1>1 DEF ShellIndInv, GuiLineWhole, StrLen, gui
<1>4. CASE ~Room
  <2>1. UNCHANGED <<command_buffer, command_length, line>>
    BY <1>4 DEF TypeChar
  <2>2. ShellTypeOK'
    BY <1>1, <2>1, KeyFacts DEF ShellIndInv, ShellTypeOK, history, gui
  <2>3. Ended'
    BY <1>1, <2>1 DEF ShellIndInv, Ended, StrLen, history, gui
  <2>4. Shown'
    BY <1>1, <2>1, KeyFacts DEF ShellIndInv, Shown, Waiting
  <2> QED
    BY <1>2, <1>3, <2>2, <2>3, <2>4 DEF ShellIndInv
<1>5. CASE Room
  <2>1. /\ command_buffer' = [command_buffer EXCEPT ![command_length] = c]
        /\ command_length' = command_length + 1 /\ line' = Append(line, c)
        /\ command_length < Cap - 1
    BY <1>5 DEF TypeChar, Room
  <2>2. command_buffer \in [Index -> Cells] /\ command_length \in Index
    BY DEF ShellIndInv, ShellTypeOK
  <2>3. command_buffer' \in [Index -> Cells] /\ command_length' \in Index
    BY <2>1, <2>2 DEF Index, Cells
  <2>4. ShellTypeOK'
    BY <1>1, <2>3, KeyFacts DEF ShellIndInv, ShellTypeOK, history, gui
  <2>5. Ended'
    <3>1. command_buffer'[Cap - 1] = Nul
      BY <2>1, <2>2 DEF Index, ShellIndInv, Ended
    <3> QED
      BY <1>1, <3>1 DEF ShellIndInv, Ended, StrLen, history, gui
  <2>6. Shown'
    <3> SUFFICES ASSUME ~raced'
                 PROVE  /\ line' = [i \in 1 .. command_length' |-> command_buffer'[i - 1]]
                        /\ \A i \in 0 .. (command_length' - 1) : command_buffer'[i] # Nul
      BY <1>1, KeyFacts DEF Shown, Waiting
    <3>1. /\ line = [i \in 1 .. command_length |-> command_buffer[i - 1]]
          /\ \A i \in 0 .. (command_length - 1) : command_buffer[i] # Nul
      BY <1>1, KeyFacts DEF ShellIndInv, Shown
    <3> DEFINE n == command_length
               t == [i \in 1 .. (n + 1) |-> command_buffer'[i - 1]]
    <3>2. n \in Nat /\ n < Cap - 1
      BY <2>1, <2>2 DEF Index
    <3>3. \A i \in 0 .. n : command_buffer'[i] \in Chars
      BY <2>1, <2>2, <3>1, <3>2 DEF Index, Cells
    <3>4. \A i \in 1 .. (n + 1) : t[i] \in Chars
            /\ t[i] = IF i = n + 1 THEN c ELSE command_buffer[i - 1]
      <4> TAKE i \in 1 .. (n + 1)
      <4>1. i - 1 \in 0 .. n /\ i - 1 \in Index /\ t[i] = command_buffer'[i - 1]
        BY <3>2 DEF Index
      <4> HIDE DEF t
      <4> QED
        BY <4>1, <3>2, <3>3, <2>1, <2>2
    <3>5. t \in Seq(Chars) /\ Len(t) = n + 1
      <4>1. t \in [1 .. (n + 1) -> Chars]
        BY <3>4
      <4> QED
        BY <4>1, <3>2, SeqDef
    <3>6. line \in Seq(Chars) /\ Len(line) = n /\ \A i \in 1 .. n : line[i] = command_buffer[i - 1]
      <4>1. \A i \in 1 .. n : command_buffer[i - 1] \in Chars
        BY <3>1, <3>2, <2>2 DEF Index, Cells
      <4>2. line \in [1 .. n -> Chars]
        BY <3>1, <4>1
      <4> QED
        BY <4>2, <3>1, <3>2, SeqDef
    <3>7. /\ line' \in Seq(Chars) /\ Len(line') = n + 1 /\ line'[n + 1] = c
          /\ \A i \in 1 .. n : line'[i] = command_buffer[i - 1]
      BY <2>1, <3>6, AppendProperties
    <3> HIDE DEF t
    <3>8. \A i \in 1 .. Len(t) : line'[i] = t[i]
      BY <3>2, <3>4, <3>5, <3>7
    <3>9. line' = t
      BY <3>5, <3>7, <3>8, SeqEqual
    <3> QED
      BY <3>9, <3>3, <3>2, <2>1 DEF t
  <2> QED
    BY <1>2, <1>3, <2>4, <2>5, <2>6 DEF ShellIndInv
<1> QED
  BY <1>4, <1>5

LEMMA BackspaceStep ==
  ASSUME ShellIndInv, Backspace
  PROVE  ShellIndInv'
<1> USE ShellConstants
<1>1. Key /\ UNCHANGED <<command_ready, history, gui, stuck, recent>>
  BY DEF Backspace
<1>2. InPlace' /\ GhostTypes' /\ Remembered' /\ CopiesCommand'
  BY <1>1, KeyHistory DEF history, gui
<1>3. GuiLineWhole'
  BY <1>1 DEF ShellIndInv, GuiLineWhole, StrLen, gui
<1>4. CASE ~(command_length > 0)
  <2>1. UNCHANGED <<command_buffer, command_length, line>>
    BY <1>4 DEF Backspace
  <2>2. ShellTypeOK'
    BY <1>1, <2>1, KeyFacts DEF ShellIndInv, ShellTypeOK, history, gui
  <2>3. Ended'
    BY <1>1, <2>1 DEF ShellIndInv, Ended, StrLen, history, gui
  <2>4. Shown'
    BY <1>1, <2>1, KeyFacts DEF ShellIndInv, Shown, Waiting
  <2> QED
    BY <1>2, <1>3, <2>2, <2>3, <2>4 DEF ShellIndInv
<1>5. CASE command_length > 0
  <2>1. /\ command_buffer' = [command_buffer EXCEPT ![command_length - 1] = Nul]
        /\ command_length' = command_length - 1 /\ line' = SubSeq(line, 1, Len(line) - 1)
    BY <1>5 DEF Backspace
  <2>2. command_buffer \in [Index -> Cells] /\ command_length \in Index
    BY DEF ShellIndInv, ShellTypeOK
  <2>3. command_buffer' \in [Index -> Cells] /\ command_length' \in Index
    BY <1>5, <2>1, <2>2 DEF Index, Cells
  <2>4. ShellTypeOK'
    BY <1>1, <2>3, KeyFacts DEF ShellIndInv, ShellTypeOK, history, gui
  <2>5. Ended'
    <3>1. command_buffer'[Cap - 1] = Nul
      BY <2>1, <2>2 DEF Index, ShellIndInv, Ended
    <3> QED
      BY <1>1, <3>1 DEF ShellIndInv, Ended, StrLen, history, gui
  <2>6. Shown'
    <3> SUFFICES ASSUME ~raced'
                 PROVE  /\ line' = [i \in 1 .. command_length' |-> command_buffer'[i - 1]]
                        /\ \A i \in 0 .. (command_length' - 1) : command_buffer'[i] # Nul
      BY <1>1, KeyFacts DEF Shown, Waiting
    <3>1. /\ line = [i \in 1 .. command_length |-> command_buffer[i - 1]]
          /\ \A i \in 0 .. (command_length - 1) : command_buffer[i] # Nul
      BY <1>1, KeyFacts DEF ShellIndInv, Shown
    <3> DEFINE n == command_length - 1
               t == [i \in 1 .. n |-> command_buffer'[i - 1]]
    <3>2. n \in Nat /\ n < Cap - 1 /\ command_length = n + 1
      BY <1>5, <2>2 DEF Index
    <3> HIDE DEF n
    <3>3. \A i \in 0 .. (n - 1) : command_buffer'[i] = command_buffer[i]
                                  /\ command_buffer'[i] \in Chars
      BY <2>1, <2>2, <3>1, <3>2 DEF Index, Cells
    <3>4. \A i \in 1 .. n : t[i] \in Chars /\ t[i] = command_buffer[i - 1]
      <4> TAKE i \in 1 .. n
      <4>1. i - 1 \in 0 .. (n - 1) /\ t[i] = command_buffer'[i - 1]
        BY <3>2
      <4> HIDE DEF t
      <4> QED
        BY <4>1, <3>3
    <3>5. t \in Seq(Chars) /\ Len(t) = n
      <4>1. t \in [1 .. n -> Chars]
        BY <3>4
      <4> QED
        BY <4>1, <3>2, SeqDef
    <3>6. line \in Seq(Chars) /\ Len(line) = n + 1
          /\ \A i \in 1 .. (n + 1) : line[i] = command_buffer[i - 1] /\ line[i] \in Chars
      <4>1. \A i \in 1 .. (n + 1) : command_buffer[i - 1] \in Chars
        BY <3>1, <3>2, <2>2 DEF Index, Cells
      <4>2. line \in [1 .. (n + 1) -> Chars]
        BY <3>1, <3>2, <4>1
      <4> QED
        BY <4>1, <4>2, <3>1, <3>2, SeqDef
    <3>7. /\ line' \in Seq(Chars) /\ Len(line') = n
          /\ \A i \in 1 .. n : line'[i] = command_buffer[i - 1]
      <4>1. line' = SubSeq(line, 1, n)
        BY <2>1, <3>2, <3>6
      <4>2. \A i \in 1 .. n : line[i] \in Chars
        BY <3>2, <3>6
      <4>3. /\ SubSeq(line, 1, n) \in Seq(Chars)
            /\ Len(SubSeq(line, 1, n)) = IF 1 <= n THEN n - 1 + 1 ELSE 0
            /\ \A i \in 1 .. (n - 1 + 1) : SubSeq(line, 1, n)[i] = line[1 + i - 1]
        BY <4>2, <3>2, SubSeqProperties
      <4> QED
        BY <4>1, <4>3, <3>2, <3>6
    <3> HIDE DEF t
    <3>8. \A i \in 1 .. Len(t) : line'[i] = t[i]
      BY <3>2, <3>4, <3>5, <3>7
    <3>9. line' = t
      BY <3>5, <3>7, <3>8, SeqEqual
    <3>10. command_length' = n
      BY <2>1, <3>2
    <3> QED
      BY <3>9, <3>3, <3>10, ShellConstants DEF t
  <2> QED
    BY <1>2, <1>3, <2>4, <2>5, <2>6 DEF ShellIndInv
<1> QED
  BY <1>4, <1>5

LEMMA EnterStep ==
  ASSUME ShellIndInv, Enter
  PROVE  ShellIndInv'
<1> USE ShellConstants
<1>1. /\ Key /\ UNCHANGED <<command_length, history, gui, stuck, line, recent>>
      /\ command_buffer' = [command_buffer EXCEPT ![command_length] = Nul]
      /\ command_ready' = TRUE
  BY DEF Enter
<1>2. InPlace' /\ GhostTypes' /\ Remembered' /\ CopiesCommand'
  BY <1>1, KeyHistory DEF history, gui
<1>3. GuiLineWhole'
  BY <1>1 DEF ShellIndInv, GuiLineWhole, StrLen, gui
<1>4. command_buffer \in [Index -> Cells] /\ command_length \in Index
  BY DEF ShellIndInv, ShellTypeOK
<1>5. command_buffer' \in [Index -> Cells] /\ command_buffer'[command_length] = Nul
  BY <1>1, <1>4 DEF Cells
<1>6. ShellTypeOK'
  BY <1>1, <1>5, KeyFacts DEF ShellIndInv, ShellTypeOK, history, gui
<1>7. Ended'
  <2>1. command_buffer'[Cap - 1] = Nul
    BY <1>1, <1>4 DEF Index, ShellIndInv, Ended
  <2> QED
    BY <1>1, <2>1 DEF ShellIndInv, Ended, StrLen, history, gui
<1>8. Shown'
  <2> SUFFICES ASSUME ~raced'
               PROVE  /\ line' = [i \in 1 .. command_length' |-> command_buffer'[i - 1]]
                      /\ \A i \in 0 .. (command_length' - 1) : command_buffer'[i] # Nul
    BY <1>1, <1>5, KeyFacts DEF Shown, Waiting
  <2>1. /\ line = [i \in 1 .. command_length |-> command_buffer[i - 1]]
        /\ \A i \in 0 .. (command_length - 1) : command_buffer[i] # Nul
    BY <1>1, KeyFacts DEF ShellIndInv, Shown
  <2>2. \A i \in 0 .. (command_length - 1) : command_buffer'[i] = command_buffer[i]
    BY <1>1, <1>4 DEF Index
  <2>3. \A i \in 1 .. command_length : command_buffer'[i - 1] = command_buffer[i - 1]
    BY <2>2, <1>4 DEF Index
  <2> QED
    BY <1>1, <2>1, <2>2, <2>3
<1> QED
  BY <1>2, <1>3, <1>6, <1>7, <1>8 DEF ShellIndInv

LEMMA LoadHistoryStep ==
  ASSUME ShellIndInv, NEW d \in {1, -1}, load_history(d)
  PROVE  ShellIndInv'
<1> USE ShellConstants
<1>1. /\ Key
      /\ UNCHANGED <<command_ready, cmd_history, history_count, gui, stuck, recent>>
  BY DEF load_history
<1>2. InPlace' /\ GhostTypes' /\ Remembered' /\ CopiesCommand'
  BY <1>1, KeyHistory DEF gui
<1>3. GuiLineWhole'
  BY <1>1 DEF ShellIndInv, GuiLineWhole, StrLen, gui
<1>4. CASE history_count = 0
  <2>1. UNCHANGED <<command_buffer, command_length, history_pos, line>>
    BY <1>4 DEF load_history
  <2>2. ShellTypeOK'
    BY <1>1, <2>1, KeyFacts DEF ShellIndInv, ShellTypeOK, gui
  <2>3. Ended'
    BY <1>1, <2>1 DEF ShellIndInv, Ended, StrLen, gui
  <2>4. Shown'
    BY <1>1, <2>1, KeyFacts DEF ShellIndInv, Shown, Waiting
  <2> QED
    BY <1>2, <1>3, <2>2, <2>3, <2>4 DEF ShellIndInv
<1>5. CASE history_count # 0
  <2>1. PICK s : /\ s = IF NewPos(d) = -1 THEN Empty ELSE cmd_history[NewPos(d)]
                 /\ history_pos' = NewPos(d) /\ command_buffer' = Overlaid(s)
                 /\ command_length' = StrLen(s) /\ line' = Text(s)
    BY <1>5 DEF load_history
  <2>2. /\ command_buffer \in [Index -> Cells] /\ history_count \in 0 .. MaxHistory
        /\ history_pos \in -1 .. (history_count - 1)
        /\ cmd_history \in [Lines -> [Index -> Cells]]
    BY DEF ShellIndInv, ShellTypeOK
  <2>3. NewPos(d) \in -1 .. (history_count - 1) /\ (NewPos(d) # -1 => NewPos(d) \in Lines)
    BY <1>5, <2>2 DEF NewPos, Lines
  <2>4. Empty \in [Index -> Cells] /\ StrLen(Empty) < Cap
    <3>1. Cap - 1 \in 0 .. (Cap - 1) /\ Index = 0 .. (Cap - 1)
      BY DEF Index
    <3>2. Empty[Cap - 1] = Nul /\ Empty \in [0 .. (Cap - 1) -> Cells]
      BY <3>1 DEF Empty, Cells
    <3> QED
      BY <3>1, <3>2, EndsAt, StrLenIs
  <2>5. s \in [Index -> Cells] /\ StrLen(s) < Cap
    BY <2>1, <2>2, <2>3, <2>4 DEF ShellIndInv, Ended
  <2>6. PICK e \in Index : /\ e = StrLen(s) /\ s[e] = Nul
                           /\ \A i \in Index : i < e => s[i] # Nul
    <3>1. /\ StrLen(s) \in 0 .. Cap /\ s[StrLen(s)] = Nul
          /\ \A i \in Index : i < StrLen(s) => s[i] # Nul
      BY <2>5, StrLenIs DEF Index
    <3> QED
      BY <2>5, <3>1 DEF Index
  <2>7. command_buffer' = [i \in Index |-> IF i <= e THEN s[i] ELSE command_buffer[i]]
    BY <2>1, <2>6 DEF Overlaid
  <2>8. command_buffer' \in [Index -> Cells] /\ command_length' \in Index
    BY <2>1, <2>2, <2>5, <2>6, <2>7
  <2>9. ShellTypeOK'
    BY <1>1, <2>1, <2>2, <2>3, <2>8, KeyFacts DEF ShellIndInv, ShellTypeOK, gui
  <2>10. Ended'
    <3>1. command_buffer'[Cap - 1] = Nul
      <4>1. Cap - 1 \in Index /\ command_buffer[Cap - 1] = Nul
        BY DEF Index, ShellIndInv, Ended
      <4>2. Cap - 1 <= e => e = Cap - 1
        BY <2>6 DEF Index
      <4> QED
        BY <4>1, <4>2, <2>6, <2>7
    <3> QED
      BY <1>1, <3>1 DEF ShellIndInv, Ended, StrLen, gui
  <2>11. Shown'
    <3> SUFFICES ASSUME ~raced'
                 PROVE  /\ line' = [i \in 1 .. command_length' |-> command_buffer'[i - 1]]
                        /\ \A i \in 0 .. (command_length' - 1) : command_buffer'[i] # Nul
      BY <1>1, KeyFacts DEF Shown, Waiting
    <3>1. line' = [i \in 1 .. e |-> s[i - 1]] /\ command_length' = e
      BY <2>1, <2>6 DEF Text
    <3>2. \A i \in 0 .. (e - 1) : i \in Index /\ command_buffer'[i] = s[i] /\ s[i] # Nul
      BY <2>6, <2>7 DEF Index
    <3>3. \A i \in 1 .. e : s[i - 1] = command_buffer'[i - 1]
      <4> TAKE i \in 1 .. e
      <4>1. i - 1 \in 0 .. (e - 1)
        BY <2>6 DEF Index
      <4> QED
        BY <4>1, <3>2
    <3> QED
      BY <3>1, <3>2, <3>3
  <2> QED
    BY <1>2, <1>3, <2>9, <2>10, <2>11 DEF ShellIndInv
<1> QED
  BY <1>4, <1>5

LEMMA TickStep ==
  ASSUME ShellIndInv, Tick
  PROVE  ShellIndInv'
<1> USE ShellConstants
<1>1. pc' = Woken /\ UNCHANGED <<input, history, gui, k, stuck, ghosts>>
  BY DEF Tick
<1>2. /\ pc' \in {"idle", "sleep", "asleep", "copy", "rewind", "run", "monitor", "monsleep",
                  "monasleep", "monreset", "monwipe", "endsleep", "endasleep", "gui",
                  "exec", "execsleep", "execasleep", "reset", "wipe"}
      /\ pc' = "copy" <=> pc = "copy"
      /\ pc' = "gui" <=> pc = "gui"
      /\ pc' \in Waiting <=> pc \in Waiting
      /\ pc' \in {"wipe", "monwipe"} => pc \in {"wipe", "monwipe"}
      /\ pc' \in {"copy", "rewind", "run"} => pc \in {"copy", "rewind", "run"}
  BY <1>1 DEF Woken, Waiting, ShellIndInv, ShellTypeOK
<1>3. ShellTypeOK'
  BY <1>1, <1>2 DEF ShellIndInv, ShellTypeOK, input, history, gui
<1>4. GhostTypes' /\ InPlace'
  BY <1>1, <1>2 DEF ShellIndInv, GhostTypes, InPlace, ghosts, gui, input
<1>5. Ended' /\ GuiLineWhole'
  BY <1>1 DEF ShellIndInv, Ended, GuiLineWhole, StrLen, input, history, gui
<1>6. Shown'
  BY <1>1, <1>2 DEF ShellIndInv, Shown, ghosts, input
<1>7. Remembered'
  BY <1>1, <1>2, HistoryFrame DEF history, ghosts
<1>8. CopiesCommand'
  BY <1>1, <1>2 DEF ShellIndInv, CopiesCommand, Copied, Row, Column, history, ghosts, input
<1> QED
  BY <1>3, <1>4, <1>5, <1>6, <1>7, <1>8 DEF ShellIndInv
-----------------------------------------------------------------------------
(* The keys of the GUI. *)

\* A key of the GUI leaves the buffer of the text shell alone.
LEMMA GuiKeyFrame ==
  ASSUME ShellIndInv, Key, vga_active, UNCHANGED <<input, vga_active, line>>
  PROVE  Shown'
<1>1. raced'
  BY KeyFacts DEF ShellIndInv, InPlace, Waiting
<1> QED
  BY <1>1 DEF Shown

\* The GUI's line has characters up to its cursor.
LEMMA GuiLineCells ==
  ASSUME ShellIndInv
  PROVE  \A i \in 0 .. (gui_cmd_len - 1) : gui_cmd_buffer[i] # Nul
<1>1. gui_cmd_buffer \in [0 .. (GuiCap - 1) -> Cells] /\ gui_cmd_len \in 0 .. (GuiCap - 1)
  BY DEF ShellIndInv, ShellTypeOK
<1>2. \A i \in 0 .. (GuiCap - 1) : i < StrLen(gui_cmd_buffer) => gui_cmd_buffer[i] # Nul
  BY <1>1, StrLenIs, ShellConstants
<1>3. StrLen(gui_cmd_buffer) = gui_cmd_len
  BY DEF ShellIndInv, GuiLineWhole
<1> QED
  BY <1>1, <1>2, <1>3, ShellConstants

LEMMA GuiCharStep ==
  ASSUME ShellIndInv, NEW c \in Chars, GuiChar(c)
  PROVE  ShellIndInv'
<1> USE ShellConstants
<1>1. /\ Key /\ vga_active /\ gui_cmd_len < GuiCap - 1
      /\ gui_cmd_buffer' = [gui_cmd_buffer EXCEPT ![gui_cmd_len] = c, ![gui_cmd_len + 1] = Nul]
      /\ gui_cmd_len' = gui_cmd_len + 1
      /\ UNCHANGED <<input, history, vga_active, stuck, line, recent>>
  BY DEF GuiChar
<1>2. InPlace' /\ GhostTypes' /\ Remembered' /\ CopiesCommand'
  BY <1>1, KeyHistory DEF history, input
<1>3. Shown'
  BY <1>1, GuiKeyFrame
<1>4. Ended'
  BY <1>1 DEF ShellIndInv, Ended, StrLen, input, history
<1>5. gui_cmd_buffer \in [0 .. (GuiCap - 1) -> Cells] /\ gui_cmd_len \in 0 .. (GuiCap - 1)
  BY DEF ShellIndInv, ShellTypeOK
<1>6. /\ gui_cmd_buffer' \in [0 .. (GuiCap - 1) -> Cells]
      /\ gui_cmd_len' \in 0 .. (GuiCap - 1)
      /\ gui_cmd_buffer'[gui_cmd_len + 1] = Nul
      /\ gui_cmd_buffer'[gui_cmd_len] = c
      /\ \A i \in 0 .. (gui_cmd_len - 1) : gui_cmd_buffer'[i] = gui_cmd_buffer[i]
  BY <1>1, <1>5 DEF Cells
<1>7. ShellTypeOK'
  BY <1>1, <1>6, KeyFacts DEF ShellIndInv, ShellTypeOK, input, history
<1>8. GuiLineWhole'
  <2>1. \A i \in 0 .. (gui_cmd_len - 1) : gui_cmd_buffer[i] # Nul
    BY GuiLineCells
  <2>2. PICK e \in 0 .. (GuiCap - 1) : e = gui_cmd_len + 1
    BY <1>1, <1>5
  <2>3. gui_cmd_buffer'[e] = Nul /\ \A i \in 0 .. (e - 1) : gui_cmd_buffer'[i] # Nul
    BY <1>5, <1>6, <2>1, <2>2
  <2>4. StrLen(gui_cmd_buffer') = e
    BY <1>6, <2>3, EndsAt
  <2> QED
    BY <1>1, <2>2, <2>4 DEF GuiLineWhole, StrLen
<1> QED
  BY <1>2, <1>3, <1>4, <1>7, <1>8 DEF ShellIndInv

LEMMA GuiBackspaceStep ==
  ASSUME ShellIndInv, GuiBackspace
  PROVE  ShellIndInv'
<1> USE ShellConstants
<1>1. /\ Key /\ vga_active /\ gui_cmd_len > 0
      /\ gui_cmd_buffer' = [gui_cmd_buffer EXCEPT ![gui_cmd_len - 1] = Nul]
      /\ gui_cmd_len' = gui_cmd_len - 1
      /\ UNCHANGED <<input, history, vga_active, stuck, line, recent>>
  BY DEF GuiBackspace
<1>2. InPlace' /\ GhostTypes' /\ Remembered' /\ CopiesCommand'
  BY <1>1, KeyHistory DEF history, input
<1>3. Shown'
  BY <1>1, GuiKeyFrame
<1>4. Ended'
  BY <1>1 DEF ShellIndInv, Ended, StrLen, input, history
<1>5. gui_cmd_buffer \in [0 .. (GuiCap - 1) -> Cells] /\ gui_cmd_len \in 0 .. (GuiCap - 1)
  BY DEF ShellIndInv, ShellTypeOK
<1>6. /\ gui_cmd_buffer' \in [0 .. (GuiCap - 1) -> Cells]
      /\ gui_cmd_len' \in 0 .. (GuiCap - 1)
      /\ gui_cmd_buffer'[gui_cmd_len - 1] = Nul
      /\ \A i \in 0 .. (gui_cmd_len - 2) : gui_cmd_buffer'[i] = gui_cmd_buffer[i]
  BY <1>1, <1>5 DEF Cells
<1>7. ShellTypeOK'
  BY <1>1, <1>6, KeyFacts DEF ShellIndInv, ShellTypeOK, input, history
<1>8. GuiLineWhole'
  <2>1. \A i \in 0 .. (gui_cmd_len - 1) : gui_cmd_buffer[i] # Nul
    BY GuiLineCells
  <2>2. \A i \in 0 .. (gui_cmd_len - 1 - 1) : gui_cmd_buffer'[i] # Nul
    BY <1>5, <1>6, <2>1
  <2>3. StrLen(gui_cmd_buffer') = gui_cmd_len - 1
    BY <1>1, <1>5, <1>6, <2>2, EndsAt
  <2> QED
    BY <1>1, <2>3 DEF GuiLineWhole, StrLen
<1> QED
  BY <1>2, <1>3, <1>4, <1>7, <1>8 DEF ShellIndInv

\* The lines that were entered last, one more entered: as many as the history holds
LEMMA NewestIs ==
  ASSUME recent \in Seq(Seq(Chars)), Len(recent) <= MaxHistory, NEW t \in Seq(Chars)
  PROVE  /\ Newest(t) \in Seq(Seq(Chars))
         /\ Len(Newest(t)) = Min({Len(recent) + 1, MaxHistory})
         /\ Newest(t)[1] = t
         /\ \A l \in 1 .. (Len(Newest(t)) - 1) : l <= Len(recent) /\ Newest(t)[l + 1] = recent[l]
<1> USE ShellConstants
<1> DEFINE r == <<t>> \o recent
           n == Len(recent)
           m == IF MaxHistory <= n + 1 THEN MaxHistory ELSE n + 1
<1>1. n \in Nat /\ n <= MaxHistory
  BY LenProperties
<1>2. /\ r \in Seq(Seq(Chars)) /\ Len(r) = n + 1
      /\ \A i \in 1 .. (n + 1) : r[i] = IF i <= 1 THEN t ELSE recent[i - 1]
  <2>1. <<t>> \in Seq(Seq(Chars)) /\ Len(<<t>>) = 1 /\ <<t>>[1] = t
    OBVIOUS
  <2>2. /\ r \in Seq(Seq(Chars)) /\ Len(r) = 1 + n
        /\ \A i \in 1 .. (1 + n) : r[i] = IF i <= 1 THEN <<t>>[i] ELSE recent[i - 1]
    BY <2>1, ConcatProperties
  <2> HIDE DEF r, n
  <2> QED
    BY <1>1, <2>1, <2>2
<1>3. Min({MaxHistory, n + 1}) = m /\ Min({n + 1, MaxHistory}) = m
  <2> HIDE DEF n
  <2>1. {MaxHistory, n + 1} = {n + 1, MaxHistory}
    OBVIOUS
  <2>2. n + 1 \in Int
    BY <1>1
  <2>3. Min({MaxHistory, n + 1}) = m
    BY <2>2, MinOfTwo
  <2> QED
    BY <2>1, <2>3
<1>4. Newest(t) = SubSeq(r, 1, m)
  BY <1>3 DEF Newest
<1> HIDE DEF r, n
<1>5. m \in 1 .. (n + 1) /\ m <= MaxHistory
  BY <1>1
<1>6. \A i \in 1 .. m : r[i] \in Seq(Chars)
  <2> TAKE i \in 1 .. m
  <2>1. i \in 1 .. Len(r)
    BY <1>2, <1>5
  <2> QED
    BY <2>1, <1>2, ElementOfSeq
<1> HIDE DEF m
<1>7. /\ SubSeq(r, 1, m) \in Seq(Seq(Chars))
      /\ Len(SubSeq(r, 1, m)) = m
      /\ \A i \in 1 .. m : SubSeq(r, 1, m)[i] = r[i]
  <2>1. /\ SubSeq(r, 1, m) \in Seq(Seq(Chars))
        /\ Len(SubSeq(r, 1, m)) = IF 1 <= m THEN m - 1 + 1 ELSE 0
        /\ \A i \in 1 .. (m - 1 + 1) : SubSeq(r, 1, m)[i] = r[1 + i - 1]
    BY <1>5, <1>6, SubSeqProperties
  <2> QED
    BY <2>1, <1>5
<1>8. Newest(t)[1] = t /\ \A l \in 1 .. (m - 1) : l <= n /\ Newest(t)[l + 1] = recent[l]
  <2>1. 1 \in 1 .. m /\ 1 \in 1 .. (n + 1)
    BY <1>1, <1>5
  <2>2. Newest(t)[1] = t
    BY <2>1, <1>2, <1>4, <1>7
  <2>3. ASSUME NEW l \in 1 .. (m - 1)
        PROVE  l <= n /\ Newest(t)[l + 1] = recent[l]
    <3>1. l + 1 \in 1 .. m /\ l + 1 \in 1 .. (n + 1) /\ ~(l + 1 <= 1) /\ l + 1 - 1 = l
          /\ l <= n
      BY <1>1, <1>5
    <3> QED
      BY <3>1, <1>2, <1>4, <1>7
  <2> QED
    BY <2>2, <2>3
<1> QED
  BY <1>3, <1>4, <1>7, <1>8 DEF n

\* A line that is entered, given what it comes to hold and that the others move up
LEMMA LineEntered ==
  ASSUME ShellIndInv, ~torn, ~torn', NEW t \in Seq(Chars),
         recent' = Newest(t), history_count' = Min({history_count + 1, MaxHistory}),
         pc' # "copy", Text(cmd_history'[0]) = t,
         \A l \in 0 .. (history_count - 1) :
           l < MaxHistory - 1 => Text(cmd_history'[l + 1]) = recent[l + 1]
  PROVE  Remembered' /\ history_count' \in 1 .. MaxHistory /\ recent' \in Seq(Seq(Chars))
<1> USE ShellConstants
<1>1. /\ recent \in Seq(Seq(Chars)) /\ history_count = Len(recent)
      /\ history_count \in 0 .. MaxHistory
  BY DEF ShellIndInv, GhostTypes, Remembered, ShellTypeOK
<1>2. /\ recent' \in Seq(Seq(Chars)) /\ Len(recent') = history_count' /\ recent'[1] = t
      /\ \A l \in 1 .. (Len(recent') - 1) : l <= Len(recent) /\ recent'[l + 1] = recent[l]
  <2>1. Len(recent) <= MaxHistory
    BY <1>1
  <2>2. /\ Newest(t) \in Seq(Seq(Chars))
        /\ Len(Newest(t)) = Min({Len(recent) + 1, MaxHistory})
        /\ Newest(t)[1] = t
        /\ \A l \in 1 .. (Len(Newest(t)) - 1) :
             l <= Len(recent) /\ Newest(t)[l + 1] = recent[l]
    BY <1>1, <2>1, NewestIs
  <2> QED
    BY <1>1, <2>2
<1>3. history_count' \in 1 .. MaxHistory
  BY <1>1, MinOfTwo
<1>4. ASSUME NEW l \in 0 .. (history_count' - 1)
      PROVE  Text(cmd_history'[l]) = recent'[l + 1]
  <2>1. CASE l = 0
    BY <2>1, <1>2
  <2>2. CASE l # 0
    <3>1. l \in 1 .. (Len(recent') - 1) /\ l - 1 < MaxHistory - 1
      BY <2>2, <1>2, <1>3
    <3>2. l <= history_count
      BY <3>1, <1>1, <1>2
    <3>3. l - 1 \in 0 .. (history_count - 1) /\ l - 1 + 1 = l
      BY <3>1, <3>2, <1>1
    <3> QED
      BY <3>1, <3>3, <1>2
  <2> QED
    BY <2>1, <2>2
<1>5. \A l \in 0 .. (history_count' - 1) : Text(cmd_history[l])' = (recent[l + 1])'
  BY <1>4 DEF Text, StrLen
<1> QED
  BY <1>2, <1>3, <1>5 DEF Remembered

LEMMA GuiEnterStep ==
  ASSUME ShellIndInv, GuiEnter
  PROVE  ShellIndInv'
<1> USE ShellConstants
<1>1. /\ Key /\ vga_active /\ GuiAddToHistory /\ UNCHANGED <<input, vga_active, line>>
      /\ \/ UNCHANGED <<gui_cmd_buffer, gui_cmd_len>>
         \/ gui_cmd_len' = 0 /\ gui_cmd_buffer' = [gui_cmd_buffer EXCEPT ![0] = Nul]
      /\ stuck' \in BOOLEAN
  BY DEF GuiEnter, GuiWipe, ShellIndInv, ShellTypeOK
<1>2. /\ gui_cmd_buffer \in [0 .. (GuiCap - 1) -> Cells] /\ gui_cmd_len \in 0 .. (GuiCap - 1)
      /\ StrLen(gui_cmd_buffer) = gui_cmd_len
  BY DEF ShellIndInv, ShellTypeOK, GuiLineWhole
<1>3. gui_cmd_buffer' \in [0 .. (GuiCap - 1) -> Cells] /\ gui_cmd_len' \in 0 .. (GuiCap - 1)
  BY <1>1, <1>2 DEF Cells
<1>4. GuiLineWhole'
  <2>1. CASE UNCHANGED <<gui_cmd_buffer, gui_cmd_len>>
    BY <2>1, <1>2 DEF GuiLineWhole, StrLen
  <2>2. CASE gui_cmd_len' = 0 /\ gui_cmd_buffer' = [gui_cmd_buffer EXCEPT ![0] = Nul]
    <3>1. gui_cmd_buffer'[0] = Nul /\ 0 \in 0 .. (GuiCap - 1)
      BY <2>2, <1>2
    <3>2. StrLen(gui_cmd_buffer') = 0
      BY <3>1, <1>3, EndsAt
    <3> QED
      BY <2>2, <3>2 DEF GuiLineWhole, StrLen
  <2> QED
    BY <1>1, <2>1, <2>2
<1>5. Shown'
  BY <1>1, GuiKeyFrame
<1>6. CASE gui_cmd_buffer[0] = Nul
  <2>1. UNCHANGED <<history, recent>>
    BY <1>1, <1>6 DEF GuiAddToHistory
  <2>2. InPlace' /\ GhostTypes' /\ Remembered' /\ CopiesCommand'
    BY <1>1, <2>1, KeyHistory DEF history, input
  <2>3. ShellTypeOK'
    BY <1>1, <1>3, <2>1, KeyFacts DEF ShellIndInv, ShellTypeOK, input, history
  <2>4. Ended'
    BY <1>1, <2>1 DEF ShellIndInv, Ended, StrLen, input, history
  <2> QED
    BY <1>4, <1>5, <2>2, <2>3, <2>4 DEF ShellIndInv
<1>7. CASE gui_cmd_buffer[0] # Nul
  <2>1. /\ \E behind \in [GuiCap .. (Cap - 1) -> Cells] :
             cmd_history' = Pushed([i \in Index |-> IF i < GuiCap THEN gui_cmd_buffer[i]
                                                    ELSE behind[i]])
        /\ history_count' = Min({history_count + 1, MaxHistory}) /\ history_pos' = -1
        /\ recent' = Kept(Text(gui_cmd_buffer), torn)
    BY <1>1, <1>7 DEF GuiAddToHistory
  <2>2. PICK g : /\ cmd_history' = Pushed(g)
                 /\ \E behind \in [GuiCap .. (Cap - 1) -> Cells] :
                      g = [i \in Index |-> IF i < GuiCap THEN gui_cmd_buffer[i] ELSE behind[i]]
    BY <2>1
  <2>3. g \in [Index -> Cells] /\ \A i \in 0 .. (GuiCap - 1) : g[i] = gui_cmd_buffer[i]
    BY <2>2, <1>2 DEF Index
  <2>4. StrLen(g) = gui_cmd_len /\ Text(g) = Text(gui_cmd_buffer)
    <3>1. \A i \in 0 .. StrLen(gui_cmd_buffer) : g[i] = gui_cmd_buffer[i]
      BY <1>2, <2>3
    <3>2. StrLen(gui_cmd_buffer) < GuiCap /\ StrLen(gui_cmd_buffer) < Cap
      BY <1>2
    <3>3. g \in [0 .. (Cap - 1) -> Cells]
      BY <2>3 DEF Index
    <3> QED
      BY <3>1, <3>2, <3>3, <1>2, SameText
  <2>5. /\ cmd_history \in [Lines -> [Index -> Cells]]
        /\ \A l \in Lines : StrLen(cmd_history[l]) < Cap
        /\ history_count \in 0 .. MaxHistory
    BY DEF ShellIndInv, ShellTypeOK, Ended
  <2>6. /\ cmd_history' \in [Lines -> [Index -> Cells]] /\ cmd_history'[0] = g
        /\ \A l \in Lines : l # 0 => l - 1 \in Lines /\ cmd_history'[l] = cmd_history[l - 1]
    BY <2>2, <2>3, <2>5 DEF Pushed, Lines
  <2>7. Ended'
    <3>1. \A l \in Lines : StrLen(cmd_history'[l]) < Cap
      BY <2>4, <2>5, <2>6, <1>2
    <3> QED
      BY <1>1, <3>1 DEF Ended, StrLen, ShellIndInv, input
  <2>8. Text(gui_cmd_buffer) \in Seq(Chars)
    BY <1>2, TextIs
  <2>9. history_count' \in 0 .. MaxHistory
    BY <2>1, <2>5, MinOfTwo
  <2>10. pc' # "copy" /\ torn' = torn
    BY <1>1, KeyFacts DEF ShellIndInv, InPlace
  <2>11. ASSUME ~torn
         PROVE  Remembered' /\ recent' \in Seq(Seq(Chars))
    <3>1. recent' = Newest(Text(gui_cmd_buffer))
      BY <2>1, <2>11 DEF Kept
    <3>2. ASSUME NEW l \in 0 .. (history_count - 1), l < MaxHistory - 1
          PROVE  Text(cmd_history'[l + 1]) = recent[l + 1]
      <4>1. l + 1 \in Lines /\ l + 1 # 0 /\ l + 1 - 1 = l
        BY <3>2, <2>5 DEF Lines
      <4>2. Text(cmd_history[l]) = recent[l + 1]
        BY <1>1, <2>11 DEF ShellIndInv, Remembered, InPlace
      <4> QED
        BY <4>1, <4>2, <2>6
    <3> QED
      BY <3>1, <3>2, <2>1, <2>4, <2>6, <2>8, <2>10, <2>11, LineEntered
  <2>12. ASSUME torn
         PROVE  Remembered' /\ recent' \in Seq(Seq(Chars))
    <3>1. recent' = <<>>
      BY <2>1, <2>12 DEF Kept
    <3> QED
      BY <3>1, <2>10, <2>12, EmptySeq DEF Remembered
  <2>13. GhostTypes' /\ Remembered'
    BY <1>1, <2>10, <2>11, <2>12, KeyFacts DEF GhostTypes, ShellIndInv
  <2>14. InPlace' /\ CopiesCommand'
    BY <1>1, <2>10, KeyFacts DEF InPlace, CopiesCommand, ShellIndInv, input
  <2>15. ShellTypeOK'
    <3>1. history_pos' \in -1 .. (history_count' - 1)
      BY <2>1, <2>9
    <3> QED
      BY <1>1, <1>3, <3>1, <2>6, <2>9, KeyFacts DEF ShellIndInv, ShellTypeOK, input
  <2> QED
    BY <1>4, <1>5, <2>7, <2>13, <2>14, <2>15 DEF ShellIndInv
<1> QED
  BY <1>6, <1>7
-----------------------------------------------------------------------------
(* The main loop. *)

\* A step of the main loop that only goes elsewhere; when it goes to the copying nothing
\* is copied yet.
LEMMA Goes ==
  ASSUME ShellIndInv, k' = 0,
         UNCHANGED <<input, cmd_history, history_count, gui_cmd_buffer, gui_cmd_len,
                     ghosts, stuck>>,
         history_pos' \in {history_pos, -1}, vga_active' \in BOOLEAN,
         vga_active' <=> pc' = "gui", pc \notin {"copy", "gui"},
         pc' \in {"idle", "sleep", "asleep", "copy", "rewind", "run", "monitor", "monsleep",
                  "monasleep", "monreset", "endsleep", "endasleep", "gui", "exec", "execsleep",
                  "execasleep", "reset"},
         pc' \in Waiting \/ command_ready,
         pc' \in Waiting \cup {"copy", "rewind", "run"}
           => pc \in Waiting \cup {"copy", "rewind", "run"}
  PROVE  ShellIndInv'
<1> USE ShellConstants
<1>1. ShellTypeOK'
  <2>1. 0 \in 0 .. (MaxHistory * Cap)
    OBVIOUS
  <2>2. history_pos' \in -1 .. (history_count' - 1)
    BY DEF ShellIndInv, ShellTypeOK
  <2> QED
    BY <2>1, <2>2 DEF ShellIndInv, ShellTypeOK, input
<1>2. GhostTypes' /\ InPlace'
  BY DEF ShellIndInv, GhostTypes, InPlace, ghosts, input
<1>3. Ended' /\ GuiLineWhole'
  <2>1. ~vga_active
    BY DEF ShellIndInv, InPlace
  <2> QED
    BY <2>1 DEF ShellIndInv, Ended, GuiLineWhole, StrLen, input
<1>4. Shown'
  BY DEF ShellIndInv, Shown, ghosts, input
<1>5. CopiesCommand'
  <2>1. ASSUME NEW i \in Index
        PROVE  ~Copied(0, i)'
    BY NothingCopied
  <2> QED
    BY <2>1 DEF CopiesCommand
<1>6. CASE pc' # "copy"
  <2>1. Remembered'
    BY <1>6, HistoryFrame DEF ghosts
  <2> QED
    BY <1>1, <1>2, <1>3, <1>4, <1>5, <2>1 DEF ShellIndInv
<1>7. CASE pc' = "copy"
  <2>1. ASSUME NEW l \in 0 .. (history_count - 1), l < MaxHistory - 1
        PROVE  Before(l)' = cmd_history[l]
    <3>1. l + 1 \in 0 .. (MaxHistory - 1) /\ l \in Lines
      BY <2>1 DEF Lines, ShellIndInv, ShellTypeOK
    <3>2. \A i \in Index : ~Copied(l + 1, i)'
      BY <3>1, NothingCopied
    <3>3. Before(l)' = [i \in Index |-> cmd_history[l][i]]
      BY <3>2 DEF Before
    <3>4. cmd_history[l] \in [Index -> Cells]
      BY <3>1 DEF ShellIndInv, ShellTypeOK
    <3> QED
      BY <3>3, <3>4
  <2>2. ASSUME NEW l \in 0 .. (history_count - 1), l < MaxHistory - 1
        PROVE  Text(Before(l))' = Text(cmd_history[l])
    BY <2>1, <2>2 DEF Text, StrLen
  <2>3. Remembered'
    BY <1>7, <2>2 DEF ShellIndInv, Remembered, ghosts
  <2> QED
    BY <1>1, <1>2, <1>3, <1>4, <1>5, <2>3 DEF ShellIndInv
<1> QED
  BY <1>6, <1>7

LEMMA QuietStep ==
  ASSUME ShellIndInv, Look \/ Hlt \/ Rewind \/ Run \/ ExecLook \/ MonitorLook \/ MonitorEnds
  PROVE  ShellIndInv'
<1>1. /\ vga_active \in BOOLEAN /\ (vga_active <=> pc = "gui")
      /\ pc \notin Waiting => command_ready
  BY DEF ShellIndInv, ShellTypeOK, InPlace
<1>2. CASE Look
  BY <1>1, <1>2, Goes DEF Look, At, Go, Waiting, input, history, gui
<1>3. CASE Hlt
  <2>1. /\ pc \in {"sleep", "monsleep", "endsleep", "execsleep"} /\ k' = 0 /\ UNCHANGED stuck
        /\ UNCHANGED <<input, history, gui, ghosts>>
        /\ pc' \in {"asleep", "monasleep", "endasleep", "execasleep"}
        /\ pc' = "asleep" <=> pc = "sleep"
    BY <1>3 DEF Hlt, Go
  <2>2. /\ UNCHANGED <<input, cmd_history, history_count, gui_cmd_buffer, gui_cmd_len,
                      ghosts, stuck>>
        /\ history_pos' = history_pos /\ vga_active' = vga_active
    BY <2>1 DEF history, gui
  <2>3. /\ pc \notin {"copy", "gui"} /\ pc' # "gui" /\ ~vga_active
        /\ pc' \in Waiting \/ command_ready
        /\ pc' \in Waiting \cup {"copy", "rewind", "run"}
             => pc \in Waiting \cup {"copy", "rewind", "run"}
    BY <1>1, <2>1 DEF Waiting
  <2> QED
    BY <1>1, <2>1, <2>2, <2>3, Goes
<1>4. CASE Rewind
  BY <1>1, <1>4, Goes DEF Rewind, At, Go, Waiting, input, history, gui
<1>5. CASE Run
  <2>1. /\ pc = "run" /\ k' = 0 /\ UNCHANGED stuck
        /\ vga_active' = (Text(command_buffer) = Vgamode)
        /\ UNCHANGED <<input, history, gui_cmd_buffer, gui_cmd_len, ghosts>>
        /\ pc' \in {"monitor", "gui", "exec", "reset"}
        /\ pc' = "gui" <=> Text(command_buffer) = Vgamode
    <3>1. PICK l \in AfterCommand(Text(command_buffer)) : Go(l)
      BY <1>5 DEF Run
    <3>2. ASSUME NEW text, l \in AfterCommand(text)
          PROVE  l \in {"monitor", "gui", "exec", "reset"} /\ (l = "gui" <=> text = Vgamode)
      <4>1. CASE text = Monitor
        BY <3>2, <4>1, ShellConstants DEF AfterCommand
      <4>2. CASE text = Vgamode
        BY <3>2, <4>2, ShellConstants DEF AfterCommand
      <4>3. CASE text = Exec
        BY <3>2, <4>3, ShellConstants, ShellAssumption DEF AfterCommand
      <4>4. CASE text \notin {Monitor, Vgamode, Exec}
        BY <3>2, <4>4 DEF AfterCommand
      <4> QED
        BY <4>1, <4>2, <4>3, <4>4
    <3>3. /\ l \in {"monitor", "gui", "exec", "reset"}
          /\ l = "gui" <=> Text(command_buffer) = Vgamode
      BY <3>1, <3>2
    <3> QED
      BY <1>5, <3>1, <3>3 DEF Run, At, Go
  <2>2. vga_active' \in BOOLEAN /\ (vga_active' <=> pc' = "gui")
    BY <2>1
  <2>3. /\ pc' \in Waiting \/ command_ready
        /\ pc' \notin Waiting \cup {"copy", "rewind", "run"} /\ pc \notin {"copy", "gui"}
        /\ UNCHANGED <<input, cmd_history, history_count, gui_cmd_buffer, gui_cmd_len,
                      ghosts, stuck>>
        /\ history_pos' \in {history_pos, -1}
    BY <1>1, <2>1 DEF Waiting, history
  <2> QED
    BY <2>1, <2>2, <2>3, Goes
<1>6. CASE MonitorLook
  BY <1>1, <1>6, Goes DEF MonitorLook, At, Go, Waiting, input, history, gui
<1>7. CASE MonitorEnds
  BY <1>1, <1>7, Goes DEF MonitorEnds, At, Go, Waiting, input, history, gui
<1>8. CASE ExecLook
  BY <1>1, <1>8, Goes DEF ExecLook, At, Go, Waiting, input, history, gui
<1> QED
  BY <1>2, <1>3, <1>4, <1>5, <1>6, <1>7, <1>8

LEMMA ResetLengthStep ==
  ASSUME ShellIndInv, ResetLength
  PROVE  ShellIndInv'
<1> USE ShellConstants
<1>1. /\ pc \in {"reset", "monreset"} /\ pc' \in {"wipe", "monwipe"}
      /\ command_length' = 0 /\ line' = <<>> /\ k' = 0
      /\ raced' = (raced /\ pc = "monreset")
      /\ UNCHANGED <<command_buffer, command_ready, history, gui, torn, recent, stuck>>
  BY DEF ResetLength, At, Go
<1>2. ShellTypeOK'
  <2>1. 0 \in 0 .. (MaxHistory * Cap) /\ 0 \in Index
    BY DEF Index
  <2> QED
    BY <1>1, <2>1 DEF ShellIndInv, ShellTypeOK, history, gui
<1>3. GhostTypes' /\ InPlace'
  BY <1>1 DEF ShellIndInv, GhostTypes, InPlace, Waiting, gui
<1>4. Ended' /\ GuiLineWhole'
  BY <1>1 DEF ShellIndInv, Ended, GuiLineWhole, StrLen, history, gui
<1>5. Shown'
  <2>1. line' = [i \in 1 .. 0 |-> command_buffer'[i - 1]]
    BY <1>1
  <2> QED
    BY <1>1, <2>1 DEF Shown, Waiting
<1>6. Remembered'
  BY <1>1, HistoryFrame DEF history
<1>7. CopiesCommand'
  BY <1>1 DEF CopiesCommand
<1> QED
  BY <1>2, <1>3, <1>4, <1>5, <1>6, <1>7 DEF ShellIndInv

LEMMA WipeByteStep ==
  ASSUME ShellIndInv, WipeByte
  PROVE  ShellIndInv'
<1> USE ShellConstants
<1>1. /\ pc \in {"wipe", "monwipe"} /\ k < Cap /\ k' = k + 1
      /\ command_buffer' = [command_buffer EXCEPT ![k] = Nul]
      /\ UNCHANGED <<command_length, command_ready, history, gui, pc, stuck, ghosts>>
  BY DEF WipeByte, At
<1>2. ShellTypeOK'
  <2>1. k + 1 \in 0 .. (MaxHistory * Cap)
    <3>1. MaxHistory * Cap >= Cap
      OBVIOUS
    <3> QED
      BY <3>1, <1>1 DEF ShellIndInv, ShellTypeOK
  <2>2. command_buffer' \in [Index -> Cells]
    BY <1>1 DEF ShellIndInv, ShellTypeOK, Cells
  <2> QED
    BY <1>1, <2>1, <2>2 DEF ShellIndInv, ShellTypeOK, history, gui
<1>3. GhostTypes' /\ InPlace'
  BY <1>1 DEF ShellIndInv, GhostTypes, InPlace, ghosts, gui
<1>4. Ended' /\ GuiLineWhole'
  <2>1. command_buffer'[Cap - 1] = Nul
    BY <1>1 DEF ShellIndInv, Ended, ShellTypeOK, Index
  <2> QED
    BY <1>1, <2>1 DEF ShellIndInv, Ended, GuiLineWhole, StrLen, history, gui
<1>5. Shown'
  <2> SUFFICES ASSUME ~raced PROVE Shown'
    BY <1>1 DEF Shown, ghosts
  <2>1. command_length = 0 /\ line = [i \in 1 .. command_length |-> command_buffer[i - 1]]
    BY <1>1 DEF ShellIndInv, Shown
  <2>2. line = [i \in 1 .. 0 |-> command_buffer'[i - 1]]
    BY <2>1
  <2> QED
    BY <1>1, <2>1, <2>2 DEF Shown, Waiting, ghosts
<1>6. Remembered'
  BY <1>1, HistoryFrame DEF history, ghosts
<1>7. CopiesCommand'
  BY <1>1 DEF CopiesCommand
<1> QED
  BY <1>2, <1>3, <1>4, <1>5, <1>6, <1>7 DEF ShellIndInv

LEMMA CommandDoneStep ==
  ASSUME ShellIndInv, CommandDone
  PROVE  ShellIndInv'
<1> USE ShellConstants
<1>1. /\ pc = "wipe" /\ pc' = "sleep" /\ k' = 0 /\ command_ready' = FALSE
      /\ UNCHANGED <<command_buffer, command_length, history, gui, ghosts, stuck>>
  BY DEF CommandDone, At, Go
<1>2. ShellTypeOK'
  <2>1. 0 \in 0 .. (MaxHistory * Cap)
    OBVIOUS
  <2> QED
    BY <1>1, <2>1 DEF ShellIndInv, ShellTypeOK, history, gui
<1>3. GhostTypes' /\ InPlace'
  BY <1>1 DEF ShellIndInv, GhostTypes, InPlace, Waiting, ghosts, gui
<1>4. Ended' /\ GuiLineWhole'
  BY <1>1 DEF ShellIndInv, Ended, GuiLineWhole, StrLen, history, gui
<1>5. Shown'
  BY <1>1 DEF ShellIndInv, Shown, ghosts
<1>6. Remembered'
  BY <1>1, HistoryFrame DEF history, ghosts
<1>7. CopiesCommand'
  BY <1>1 DEF CopiesCommand
<1> QED
  BY <1>2, <1>3, <1>4, <1>5, <1>6, <1>7 DEF ShellIndInv

LEMMA CopyByteStep ==
  ASSUME ShellIndInv, CopyByte
  PROVE  ShellIndInv'
<1> USE ShellConstants
<1>1. /\ pc = "copy" /\ k < MaxHistory * Cap /\ k' = k + 1
      /\ cmd_history' = [cmd_history EXCEPT ![Row][Column] =
                           IF Row = 0 THEN command_buffer[Column]
                           ELSE cmd_history[Row - 1][Column]]
      /\ UNCHANGED <<input, history_count, history_pos, gui, pc, stuck, ghosts>>
  BY DEF CopyByte, At
<1>2. /\ k \in Nat /\ k \in 0 .. (MaxHistory * Cap)
      /\ cmd_history \in [Lines -> [Index -> Cells]] /\ command_buffer \in [Index -> Cells]
      /\ history_count \in 0 .. MaxHistory
  <2>1. MaxHistory * Cap \in Nat
    OBVIOUS
  <2> QED
    BY <2>1 DEF ShellIndInv, ShellTypeOK
<1>3. PICK r \in Lines, c \in Index :
        /\ r = Row /\ c = Column
        /\ Row' = (IF c = Cap - 1 THEN r - 1 ELSE r)
        /\ Column' = (IF c = Cap - 1 THEN 0 ELSE c + 1)
  <2> DEFINE q == k \div Cap
             w == k % Cap
  <2>1. /\ q \in 0 .. MaxHistory /\ w \in 0 .. (Cap - 1) /\ q < MaxHistory
        /\ (k + 1) \div Cap = IF w = Cap - 1 THEN q + 1 ELSE q
        /\ (k + 1) % Cap = IF w = Cap - 1 THEN 0 ELSE w + 1
    <3>1. k \in Nat /\ Cap \in Nat /\ Cap >= 1 /\ MaxHistory \in Nat /\ k <= MaxHistory * Cap
          /\ k < MaxHistory * Cap
      <4>1. MaxHistory * Cap \in Nat
        OBVIOUS
      <4> QED
        BY <4>1, <1>1, <1>2
    <3> QED
      BY <3>1, Places
  <2>2. /\ Row = MaxHistory - 1 - q /\ Column = w
        /\ Row' = MaxHistory - 1 - ((k + 1) \div Cap) /\ Column' = (k + 1) % Cap
    BY <1>1 DEF Row, Column
  <2> HIDE DEF q, w
  <2>3. Row \in Lines /\ Column \in Index
    BY <2>1, <2>2 DEF Lines, Index
  <2> QED
    BY <2>1, <2>2, <2>3
<1>4. ASSUME NEW l \in Int, NEW i \in Index
      PROVE  Copied(l, i)' <=> Copied(l, i) \/ (l = r /\ i = c)
  BY <1>3 DEF Copied, Lines, Index
<1>5. PICK b \in Cells : b = IF r = 0 THEN command_buffer[c] ELSE cmd_history[r - 1][c]
  BY <1>2 DEF Lines
<1>6. cmd_history' = [cmd_history EXCEPT ![r][c] = b]
  BY <1>1, <1>3, <1>5
<1>7. /\ cmd_history' \in [Lines -> [Index -> Cells]] /\ cmd_history'[r][c] = b
      /\ \A l \in Lines, i \in Index :
           ~(l = r /\ i = c) => cmd_history'[l][i] = cmd_history[l][i]
  BY <1>2, <1>6
<1>8. ShellTypeOK'
  <2>1. k + 1 \in 0 .. (MaxHistory * Cap)
    <3>1. MaxHistory * Cap \in Nat
      OBVIOUS
    <3> QED
      BY <1>1, <1>2, <3>1
  <2> QED
    BY <1>1, <1>7, <2>1 DEF ShellIndInv, ShellTypeOK, input, gui
<1>9. GhostTypes' /\ InPlace'
  BY <1>1 DEF ShellIndInv, GhostTypes, InPlace, ghosts, gui, input
<1>10. GuiLineWhole'
  BY <1>1 DEF ShellIndInv, GuiLineWhole, StrLen, gui
<1>11. Ended'
  <2>1. /\ ~vga_active /\ command_buffer[Cap - 1] = Nul
        /\ \A l \in Lines : cmd_history[l][Cap - 1] = Nul
    BY <1>1 DEF ShellIndInv, InPlace, Ended
  <2>2. Cap - 1 \in Index /\ (r # 0 => r - 1 \in Lines)
    BY DEF Index, Lines
  <2>3. c = Cap - 1 => b = Nul
    BY <1>5, <2>1, <2>2
  <2>4. \A l \in Lines : cmd_history'[l][Cap - 1] = Nul
    BY <1>7, <2>1, <2>2, <2>3
  <2>5. ASSUME NEW l \in Lines
        PROVE  StrLen(cmd_history'[l]) < Cap
    <3>1. cmd_history'[l] \in [0 .. (Cap - 1) -> Cells] /\ cmd_history'[l][Cap - 1] = Nul
      BY <1>7, <2>4 DEF Index
    <3>2. StrLen(cmd_history'[l]) <= Cap - 1
      BY <3>1, <2>2, EndsAt DEF Index
    <3>3. StrLen(cmd_history'[l]) \in 0 .. Cap
      BY <3>1, StrLenIs
    <3> QED
      BY <3>2, <3>3
  <2> QED
    BY <1>1, <2>1, <2>4, <2>5 DEF Ended, StrLen, input, gui
<1>12. Shown'
  BY <1>1 DEF ShellIndInv, Shown, ghosts, input
<1>13. Remembered'
  <2>1. ASSUME NEW l \in 0 .. (history_count - 1), l < MaxHistory - 1
        PROVE  Before(l)' = Before(l)
    <3>1. l \in Lines /\ l + 1 \in Lines
      BY <2>1, <1>2 DEF Lines
    <3>2. ASSUME NEW i \in Index
          PROVE  (IF Copied(l + 1, i)' THEN cmd_history'[l + 1][i] ELSE cmd_history'[l][i])
                   = IF Copied(l + 1, i) THEN cmd_history[l + 1][i] ELSE cmd_history[l][i]
      <4>1. Copied(l + 1, i)' <=> Copied(l + 1, i) \/ (l + 1 = r /\ i = c)
        BY <3>1, <1>4 DEF Lines
      <4>2. CASE l + 1 = r /\ i = c
        <5>1. ~Copied(l + 1, i)
          BY <4>2, <1>3 DEF Copied, Lines, Index
        <5>2. b = cmd_history[l][i]
          BY <4>2, <1>5, <3>1 DEF Lines
        <5> QED
          BY <4>1, <4>2, <5>1, <5>2, <1>7
      <4>3. CASE l = r /\ i = c
        <5>1. Copied(l + 1, i)
          BY <4>3, <1>3 DEF Copied, Lines
        <5>2. cmd_history'[l + 1][i] = cmd_history[l + 1][i]
          BY <4>3, <3>1, <1>7 DEF Lines
        <5> QED
          BY <4>1, <5>1, <5>2
      <4>4. CASE ~(l + 1 = r /\ i = c) /\ ~(l = r /\ i = c)
        <5>1. cmd_history'[l + 1][i] = cmd_history[l + 1][i]
              /\ cmd_history'[l][i] = cmd_history[l][i]
          BY <4>4, <3>1, <1>7
        <5> QED
          BY <4>1, <4>4, <5>1
      <4> QED
        BY <4>2, <4>3, <4>4
    <3> QED
      BY <3>2 DEF Before
  <2>2. ASSUME NEW l \in 0 .. (history_count - 1), l < MaxHistory - 1
        PROVE  Text(Before(l))' = Text(Before(l))
    BY <2>1, <2>2 DEF Text, StrLen
  <2> QED
    BY <1>1, <2>2 DEF ShellIndInv, Remembered, ghosts
<1>14. CopiesCommand'
  <2> SUFFICES ASSUME ~raced, NEW i \in Index, Copied(0, i)'
               PROVE  cmd_history'[0][i] = command_buffer[i]
    BY <1>1 DEF CopiesCommand, ghosts, input
  <2>1. Copied(0, i) \/ (0 = r /\ i = c)
    BY <1>4
  <2>2. 0 \in Lines
    BY DEF Lines
  <2>3. CASE 0 = r /\ i = c
    BY <2>3, <1>5, <1>7
  <2>4. CASE ~(0 = r /\ i = c)
    <3>1. cmd_history[0][i] = command_buffer[i]
      BY <2>1, <2>4, <1>1 DEF ShellIndInv, CopiesCommand
    <3> QED
      BY <3>1, <2>2, <2>4, <1>7
  <2> QED
    BY <2>3, <2>4
<1> QED
  BY <1>8, <1>9, <1>10, <1>11, <1>12, <1>13, <1>14 DEF ShellIndInv

\* What Enter has ended is what the screen shows.
LEMMA EnteredText ==
  ASSUME ShellIndInv, command_ready, ~raced,
         pc \in {"idle", "sleep", "asleep", "copy", "rewind", "run"}
  PROVE  Text(command_buffer) = line
<1>1. /\ command_buffer \in [0 .. (Cap - 1) -> Cells] /\ command_length \in 0 .. (Cap - 1)
      /\ line = [i \in 1 .. command_length |-> command_buffer[i - 1]]
      /\ \A i \in 0 .. (command_length - 1) : command_buffer[i] # Nul
      /\ command_buffer[command_length] = Nul
  BY DEF ShellIndInv, Shown, ShellTypeOK, Index, Waiting
<1>2. StrLen(command_buffer) = command_length
  BY <1>1, EndsAt, ShellConstants
<1> QED
  BY <1>1, <1>2 DEF Text

LEMMA CountLineStep ==
  ASSUME ShellIndInv, CountLine
  PROVE  ShellIndInv'
<1> USE ShellConstants
<1>1. /\ pc = "copy" /\ k = MaxHistory * Cap /\ pc' = "rewind" /\ k' = 0
      /\ history_count' = Min({history_count + 1, MaxHistory})
      /\ torn' = (torn \/ raced) /\ recent' = Kept(line, torn')
      /\ UNCHANGED <<input, cmd_history, history_pos, gui, line, raced, stuck>>
  BY DEF CountLine, At, Go
<1>2. /\ history_count \in 0 .. MaxHistory /\ history_pos \in -1 .. (history_count - 1)
      /\ torn \in BOOLEAN /\ raced \in BOOLEAN
      /\ cmd_history \in [Lines -> [Index -> Cells]] /\ command_buffer \in [Index -> Cells]
  BY DEF ShellIndInv, ShellTypeOK, GhostTypes
<1>3. history_count' \in 0 .. MaxHistory /\ history_count' >= history_count
  BY <1>1, <1>2, MinOfTwo
<1>4. ShellTypeOK'
  <2>1. 0 \in 0 .. (MaxHistory * Cap)
    OBVIOUS
  <2>2. history_pos' \in -1 .. (history_count' - 1)
    BY <1>1, <1>2, <1>3
  <2> QED
    BY <1>1, <1>3, <2>1, <2>2 DEF ShellIndInv, ShellTypeOK, input, gui
<1>5. InPlace'
  BY <1>1 DEF ShellIndInv, InPlace, Waiting, gui, input
<1>6. Ended' /\ GuiLineWhole'
  BY <1>1 DEF ShellIndInv, Ended, GuiLineWhole, StrLen, input, gui
<1>7. Shown'
  BY <1>1 DEF ShellIndInv, Shown, input
<1>8. CopiesCommand'
  BY <1>1 DEF CopiesCommand
<1>9. \A l \in Lines, i \in Index : Copied(l, i)
  <2>1. k \in Nat /\ k <= MaxHistory * Cap
    BY <1>1
  <2>2. k \div Cap = MaxHistory
    BY <1>1, <2>1, Places
  <2>3. Row = -1
    BY <2>2 DEF Row
  <2> QED
    BY <2>3 DEF Copied, Lines
<1>10. ASSUME ~torn'
       PROVE  Remembered' /\ recent' \in Seq(Seq(Chars))
  <2>1. ~torn /\ ~raced
    BY <1>1, <1>2, <1>10
  <2>2. Text(command_buffer) = line
    BY <1>1, <2>1, EnteredText DEF ShellIndInv, InPlace, Waiting
  <2>3. line \in Seq(Chars)
    BY <2>2, <1>2, TextIs DEF Index
  <2>4. recent' = Newest(line)
    BY <1>1, <1>10 DEF Kept
  <2>5. cmd_history'[0] = command_buffer
    <3>1. 0 \in Lines
      BY DEF Lines
    <3>2. \A i \in Index : cmd_history[0][i] = command_buffer[i]
      BY <3>1, <1>1, <1>9, <2>1 DEF ShellIndInv, CopiesCommand
    <3>3. cmd_history[0] \in [Index -> Cells]
      BY <3>1, <1>2
    <3> QED
      BY <3>2, <3>3, <1>1, <1>2
  <2>6. ASSUME NEW l \in 0 .. (history_count - 1), l < MaxHistory - 1
        PROVE  Text(cmd_history'[l + 1]) = recent[l + 1]
    <3>1. l + 1 \in Lines
      BY <2>6, <1>2 DEF Lines
    <3>2. Before(l) = [i \in Index |-> cmd_history[l + 1][i]]
      BY <3>1, <1>9 DEF Before
    <3>3. cmd_history[l + 1] \in [Index -> Cells]
      BY <3>1, <1>2
    <3>4. Before(l) = cmd_history[l + 1]
      BY <3>2, <3>3
    <3>5. Text(Before(l)) = recent[l + 1]
      BY <2>1, <2>6, <1>1 DEF ShellIndInv, Remembered
    <3> QED
      BY <3>4, <3>5, <1>1
  <2>7. Text(cmd_history'[0]) = line
    BY <2>2, <2>5
  <2>8. pc' # "copy"
    BY <1>1
  <2> QED
    BY <1>1, <1>10, <2>1, <2>3, <2>4, <2>6, <2>7, <2>8, LineEntered
<1>11. ASSUME torn'
       PROVE  Remembered' /\ recent' \in Seq(Seq(Chars))
  <2>1. recent' = <<>>
    BY <1>1, <1>11 DEF Kept
  <2> QED
    BY <2>1, <1>11, EmptySeq DEF Remembered
<1>12. GhostTypes'
  BY <1>1, <1>2, <1>10, <1>11 DEF GhostTypes
<1> QED
  BY <1>4, <1>5, <1>6, <1>7, <1>8, <1>10, <1>11, <1>12 DEF ShellIndInv
-----------------------------------------------------------------------------
(* The theorems. *)

\* The command line stays as it is; the machine may stop.
LEMMA Stands ==
  ASSUME ShellIndInv, UNCHANGED <<input, history, gui, pc, k, ghosts>>, stuck' \in BOOLEAN
  PROVE  ShellIndInv'
<1>1. ShellTypeOK'
  BY DEF ShellIndInv, ShellTypeOK, input, history, gui
<1>2. GhostTypes' /\ InPlace'
  BY DEF ShellIndInv, GhostTypes, InPlace, input, gui, ghosts
<1>3. Ended' /\ GuiLineWhole'
  BY DEF ShellIndInv, Ended, GuiLineWhole, StrLen, input, history, gui
<1>4. Shown'
  BY DEF ShellIndInv, Shown, input, ghosts
<1>5. Remembered'
  BY HistoryFrame DEF history, ghosts
<1>6. CopiesCommand'
  BY DEF ShellIndInv, CopiesCommand, Copied, Row, Column, input, history, ghosts
<1> QED
  BY <1>1, <1>2, <1>3, <1>4, <1>5, <1>6 DEF ShellIndInv

LEMMA ShellStep == ShellIndInv /\ [ShellNext]_shellVars => ShellIndInv'
<1> SUFFICES ASSUME ShellIndInv, [ShellNext]_shellVars
             PROVE  ShellIndInv'
  OBVIOUS
<1>1. CASE UNCHANGED shellVars
  <2>1. UNCHANGED <<input, history, gui, pc, k, ghosts>> /\ stuck' \in BOOLEAN
    BY <1>1 DEF shellVars, ShellIndInv, ShellTypeOK
  <2> QED
    BY <2>1, Stands
<1>2. CASE Keyboard
  BY <1>2, TypeCharStep, GuiCharStep, BackspaceStep, EnterStep, GuiBackspaceStep,
     GuiEnterStep, LoadHistoryStep DEF Keyboard
<1>3. CASE Tick
  BY <1>3, TickStep
<1>4. CASE kernel_panic \/ ProgramFaults
  BY <1>4, Stands DEF kernel_panic, ProgramFaults, Stop
<1>5. CASE MainStep
  BY <1>4, <1>5, QuietStep, CopyByteStep, CountLineStep, ResetLengthStep, WipeByteStep,
     CommandDoneStep DEF MainStep
<1> QED
  BY <1>1, <1>2, <1>3, <1>4, <1>5 DEF ShellNext

\* The conjunction that the properties follow from holds in every state, wherever in the
\* main loop a key strikes.
THEOREM ShellIndInvInvariant == ShellSpec => []ShellIndInv
<1>1. ShellInit => ShellIndInv
  BY ShellInitInv
<1>2. ShellIndInv /\ [ShellNext]_shellVars => ShellIndInv'
  BY ShellStep
<1> QED
  BY <1>1, <1>2, PTL DEF ShellSpec

(* For buffers of any size: every index of the keyboard interrupt, of load_history and of *)
(* the main loop stays inside its array, and every string that is scanned ends inside its *)
(* own, also a history line that is half copied.                                          *)
THEOREM ShellInvInvariant == ShellSpec => []ShellInv
<1>1. ShellIndInv => ShellInv
  <2> SUFFICES ASSUME ShellIndInv PROVE ShellInv
    OBVIOUS
  <2>1. /\ command_buffer \in [0 .. (Cap - 1) -> Cells] /\ command_buffer[Cap - 1] = Nul
        /\ Cap - 1 \in 0 .. (Cap - 1)
    BY ShellConstants DEF ShellIndInv, ShellTypeOK, Ended, Index
  <2>2. StrLen(command_buffer) <= Cap - 1 /\ StrLen(command_buffer) \in 0 .. Cap
    BY <2>1, EndsAt, StrLenIs, ShellConstants
  <2>3. StrLen(command_buffer) < Cap
    BY <2>2, ShellConstants
  <2> QED
    BY <2>3 DEF ShellIndInv, ShellInv, Ended, Terminated
<1> QED
  BY <1>1, ShellIndInvInvariant, PTL

(* The command that the main loop runs is the line on the screen, if no key was pressed   *)
(* between Enter and the prompt, whatever was typed, erased and recalled before.          *)
THEOREM EnteredIsShownInvariant == ShellSpec => []EnteredIsShown
<1>1. ShellIndInv => EnteredIsShown
  BY EnteredText DEF EnteredIsShown
<1> QED
  BY <1>1, ShellIndInvInvariant, PTL

(* The history that add_to_history shifts byte by byte holds the lines entered last, the  *)
(* newest first, those of the GUI included: as long as no key came while a line was on    *)
(* its way into it, that is, between its Enter and the next prompt.                       *)
THEOREM HistoryIsRecentInvariant == ShellSpec => []HistoryIsRecent
<1>1. ShellIndInv => HistoryIsRecent
  BY DEF ShellIndInv, Remembered, HistoryIsRecent
<1> QED
  BY <1>1, ShellIndInvInvariant, PTL
=============================================================================
