-------------------------- MODULE Terminals_proofs --------------------------
(***************************************************************************)
(* Proofs about the two halves of a terminal.                              *)
(*                                                                         *)
(* IosTerminal, for any letters, line and history lengths, page lengths,   *)
(* outputs and row wide enough for a line: the row of the cursor is what   *)
(* a browser that attaches now is sent, and no more lines scroll by than   *)
(* a page has.                                                             *)
(*                                                                         *)
(* TerminalStream, for any connections and any number of chunks: what a    *)
(* browser got is the first part of what the console showed since its      *)
(* initial output, and while its sender runs, the rest is on its way, in   *)
(* order.                                                                  *)
(***************************************************************************)
EXTENDS IosTerminal, TerminalStream, TLAPS, SequenceTheorems, WellFoundedInduction

-----------------------------------------------------------------------------
(* The inductive invariant of IosTerminal.                                 *)

\* A row with the text, blank behind it, the cursor in column c.
Cell(text, i) == IF i <= Len(text) THEN text[i] ELSE " "
Screen(text, c) == [row |-> [i \in 1..Width |-> Cell(text, i)], col |-> c]

\* What is left of a command: a piece of a line is its last output, the page length is set before
\* anything is shown, and commands that add a mode find room.
Deepens(item) == item \in {Do("configure"), Do("submode")}
ItemFits(s, i) ==
  /\ s[i].kind = "out" /\ s[i].piece => i = Len(s)
  /\ s[i].kind = "length" => \A j \in 1..(i - 1) : s[j].kind = "do"
  /\ Deepens(s[i]) => i = 1 \/ (i = 2 /\ s[1] = Do("parent"))

Command ==
  /\ \A i \in 1..Len(gen) : ItemFits(gen, i)
  /\ \A i \in 1..Len(gen) : gen[i].kind = "length" => unseen = 0 /\ pending = Nothing
  /\ gen # <<>> /\ Deepens(gen[1]) => Len(stack) < MaxDepth
  /\ pending.piece => gen = <<>>
  /\ state \notin {"running", "more"} => pending = Nothing

\* Up and down stay in the history.
Navigable == state = "idle" => index <= Len(history)

\* At the prompt the row shows the prompt and the line, the cursor where keys
\* take effect.
AtPrompt == state = "idle" /\ ~torn => tty = Screen(Prompt \o line, 1 + cursor)

\* A line that runs is no longer in the editor.
NoLine == state # "idle" => line = <<>> /\ cursor = 0

\* Between two steps of the pump: a piece of a row was the last output, and a
\* row that nothing was written to is empty.
InCommand ==
  state = "running" =>
    /\ midline \/ torn => gen = <<>> /\ pending = Nothing
    /\ ~(midline /\ torn)
    /\ ~midline /\ ~torn => tty = NewLine

\* At the pager the row holds --More--, or nothing after a log message.
AtMore == state = "more" => ~midline /\ tty = (IF torn THEN NewLine ELSE Screen(MORE_PROMPT, 1))

\* The row shows a text, with the cursor behind it.
Shows(text) == tty = Screen(text, Len(text))
\* What an answer shows of its characters behind the first k.
Visible(k) == IF asked.echo THEN SubSeq(typed, k + 1, Len(typed)) ELSE <<>>
\* While a question waits, its row has the question and the answer so far; if it
\* was asked in an empty row, the answer alone, of which a log message may have cut
\* off the beginning.
Asking ==
  state \in {"prompt_line", "prompt_key"} =>
    /\ asked \in Questions
    /\ state = "prompt_key" => typed = <<>>
    /\ midline => ~torn /\ Shows(asked.text \o Visible(0))
    /\ ~midline => \E k \in 0..Len(typed) :
         /\ Shows(Visible(k))
         /\ ~torn => k = 0 /\ asked.text = <<>>

\* Lines that no key has separated are no more than the pager has counted, and
\* a started row leaves room for its end.
Counted ==
  /\ state \notin {"idle", "closed"} => unseen <= page
  /\ length > 0 => unseen <= length
  /\ state = "running" /\ midline /\ length > 0 => unseen < length

IInv == TypeOK /\ Command /\ Navigable /\ NoLine /\ AtPrompt /\ InCommand /\ AtMore /\ Asking /\ Counted

-----------------------------------------------------------------------------
(* Lines and rows.                                                         *)

LEMMA LinesAre == \A s : s \in Lines <=> s \in Seq(Chars) /\ Len(s) <= MaxLine
<1> TAKE s
<1>1. ASSUME s \in Lines PROVE s \in Seq(Chars) /\ Len(s) <= MaxLine
  <2>1. PICK n \in 0..MaxLine : s \in [1..n -> Chars]
    BY <1>1 DEF Lines
  <2>2. n \in Nat /\ n <= MaxLine
    BY <2>1, BoundsAssumption
  <2> QED BY <2>1, <2>2
<1>2. ASSUME s \in Seq(Chars), Len(s) <= MaxLine PROVE s \in Lines
  <2>1. Len(s) \in 0..MaxLine /\ s \in [1..Len(s) -> Chars]
    BY <1>2, BoundsAssumption
  <2> QED BY <2>1 DEF Lines
<1> QED BY <1>1, <1>2

\* A sequence cut in two.
LEMMA Cut ==
  ASSUME NEW S, NEW s \in Seq(S), NEW a \in 0..Len(s)
  PROVE  /\ SubSeq(s, 1, a) \in Seq(S) /\ Len(SubSeq(s, 1, a)) = a
         /\ \A i \in 1..a : SubSeq(s, 1, a)[i] = s[i]
         /\ SubSeq(s, a + 1, Len(s)) \in Seq(S) /\ Len(SubSeq(s, a + 1, Len(s))) = Len(s) - a
         /\ \A i \in 1..(Len(s) - a) : SubSeq(s, a + 1, Len(s))[i] = s[a + i]
  OBVIOUS

\* Writing u in column c of a row.
LEMMA PutIs ==
  ASSUME NEW text, NEW u, Len(u) \in Nat, NEW c \in Nat, c + Len(u) <= Width
  PROVE  Put(Screen(text, c), u)
           = [row |-> [i \in 1..Width |-> IF i > c /\ i <= c + Len(u) THEN u[i - c] ELSE Cell(text, i)],
              col |-> c + Len(u)]
<1>1. Least(c + Len(u), Width) = c + Len(u)
  BY WidthAssumption DEF Least
<1>2. ASSUME NEW i \in 1..Width
      PROVE  (IF i > c /\ i <= c + Len(u) THEN u[i - c] ELSE Screen(text, c).row[i])
               = IF i > c /\ i <= c + Len(u) THEN u[i - c] ELSE Cell(text, i)
  BY DEF Screen
<1>3. Screen(text, c).col = c
  BY DEF Screen
<1> HIDE DEF Screen
<1> QED BY <1>1, <1>2, <1>3 DEF Put

LEMMA BackIs ==
  ASSUME NEW text, NEW c \in Nat, NEW n \in 0..c
  PROVE  Back(Screen(text, c), n) = Screen(text, c - n)
<1>1. (IF n < c THEN c - n ELSE 0) = c - n
  OBVIOUS
<1> QED BY <1>1 DEF Back, Screen

LEMMA NewLineIs == NewLine = Screen(<<>>, 0)
<1>1. ASSUME NEW i \in 1..Width PROVE Cell(<<>>, i) = " "
  <2>1. Len(<<>>) = 0 /\ ~(i <= 0)
    BY WidthAssumption
  <2> QED BY <2>1 DEF Cell
<1>2. [i \in 1..Width |-> Cell(<<>>, i)] = [i \in 1..Width |-> " "]
  BY <1>1
<1> QED BY <1>2 DEF NewLine, Screen

LEMMA ReturnIs == \A text, c : Return(Screen(text, c)) = Screen(text, 0)
  BY DEF Return, Screen

\* Blanks at the end are not seen.
LEMMA SameScreen ==
  ASSUME NEW text, NEW new, \A i \in 1..Width : Cell(text, i) = Cell(new, i)
  PROVE  \A c : Screen(text, c) = Screen(new, c)
  BY DEF Screen

LEMMA BlanksAre == \A n \in Nat : Blanks(n) \in Seq({" "}) /\ Len(Blanks(n)) = n /\ \A i \in 1..n : Blanks(n)[i] = " "
  BY DEF Blanks

-----------------------------------------------------------------------------
(* Screens are typed.                                                      *)

Ttys == [row : [1..Width -> Cells], col : 0..Width]

LEMMA PutTyped == ASSUME NEW t \in Ttys, NEW s \in Seq(Cells) PROVE Put(t, s) \in Ttys
<1>1. t.row \in [1..Width -> Cells] /\ t.col \in 0..Width /\ Width \in Nat /\ Len(s) \in Nat
  BY WidthAssumption DEF Ttys
<1>2. Least(t.col + Len(s), Width) \in 0..Width
  BY <1>1 DEF Least
<1>3. ASSUME NEW i \in 1..Width
      PROVE  (IF i > t.col /\ i <= t.col + Len(s) THEN s[i - t.col] ELSE t.row[i]) \in Cells
  <2>1. CASE i > t.col /\ i <= t.col + Len(s)
    <3>1. i - t.col \in 1..Len(s)
      BY <1>1, <2>1
    <3> QED BY <2>1, <3>1
  <2>2. CASE ~(i > t.col /\ i <= t.col + Len(s))
    BY <1>1, <2>2
  <2> QED BY <2>1, <2>2
<1> QED BY <1>2, <1>3 DEF Put, Ttys

LEMMA BackTyped == ASSUME NEW t \in Ttys, NEW n \in Nat PROVE Back(t, n) \in Ttys
  BY WidthAssumption DEF Back, Ttys

LEMMA NewLineTyped == NewLine \in Ttys
  BY WidthAssumption DEF NewLine, Ttys, Cells, Chars

LEMMA ReturnTyped == ASSUME NEW t \in Ttys PROVE Return(t) \in Ttys
  BY WidthAssumption DEF Return, Ttys

LEMMA CharCells == ASSUME NEW s \in Seq(Chars) PROVE s \in Seq(Cells)
  BY DEF Cells

LEMMA BlankChars == ASSUME NEW n \in Nat PROVE Blanks(n) \in Seq(Chars) /\ Len(Blanks(n)) = n
  BY DEF Blanks, Chars

LEMMA PromptTyped == Prompt \in Seq(Cells) /\ Len(Prompt) = 1
<1>1. PromptOf(stack, privilege) \in Cells
  BY DEF PromptOf, Cells, PromptCells
<1> QED BY <1>1 DEF Prompt

-----------------------------------------------------------------------------
(* The line behind the prompt.                                             *)

LEMMA PromptLine ==
  ASSUME NEW l \in Lines
  PROVE  /\ Prompt \o l \in Seq(Cells) /\ Len(Prompt \o l) = 1 + Len(l)
         /\ Cell(Prompt \o l, 1) = Prompt[1]
         /\ \A i \in Nat : i > 1 => Cell(Prompt \o l, i) = Cell(l, i - 1)
<1>1. l \in Seq(Cells) /\ Len(l) \in Nat
  BY LinesAre, CharCells
<1>2. /\ Prompt \o l \in Seq(Cells) /\ Len(Prompt \o l) = 1 + Len(l)
      /\ (Prompt \o l)[1] = Prompt[1] /\ \A i \in 2..(1 + Len(l)) : (Prompt \o l)[i] = l[i - 1]
  <2> DEFINE p == Prompt
  <2>1. p \in Seq(Cells) /\ Len(p) = 1
    BY PromptTyped
  <2> HIDE DEF p
  <2> DEFINE s == p \o l
  <2>2. /\ s \in Seq(Cells) /\ Len(s) = Len(p) + Len(l)
        /\ \A i \in 1..(Len(p) + Len(l)) : s[i] = IF i <= Len(p) THEN p[i] ELSE l[i - Len(p)]
    BY <1>1, <2>1, ConcatProperties
  <2> HIDE DEF s
  <2>3. s[1] = p[1] /\ \A i \in 2..(1 + Len(l)) : s[i] = l[i - 1]
    BY <1>1, <2>1, <2>2
  <2>4. s \in Seq(Cells) /\ Len(s) = 1 + Len(l)
    BY <2>1, <2>2
  <2> QED BY <2>3, <2>4 DEF p, s
<1> DEFINE t == Prompt \o l
<1> HIDE DEF t
<1>3. Cell(t, 1) = Prompt[1]
  <2>1. Len(t) \in Nat /\ 1 <= Len(t) /\ t[1] = Prompt[1]
    BY <1>1, <1>2 DEF t
  <2> QED BY <2>1 DEF Cell
<1>4. ASSUME NEW i \in Nat, i > 1 PROVE Cell(t, i) = Cell(l, i - 1)
  <2>1. CASE i <= 1 + Len(l)
    <3>1. i <= Len(t) /\ i - 1 <= Len(l) /\ i \in 2..(1 + Len(l))
      BY <1>1, <1>2, <1>4, <2>1 DEF t
    <3>2. t[i] = l[i - 1]
      BY <1>2, <3>1 DEF t
    <3> QED BY <3>1, <3>2 DEF Cell
  <2>2. CASE i > 1 + Len(l)
    <3>1. ~(i <= Len(t)) /\ ~(i - 1 <= Len(l))
      BY <1>1, <1>2, <1>4, <2>2 DEF t
    <3> QED BY <3>1 DEF Cell
  <2> QED BY <1>1, <2>1, <2>2
<1> QED BY <1>2, <1>3, <1>4 DEF t

\* Places that sequences share.
LEMMA CharsJoined ==
  ASSUME NEW s \in Seq(Chars), NEW t \in Seq(Chars)
  PROVE  s \o t \in Seq(Chars) /\ Len(s \o t) = Len(s) + Len(t)
  BY ConcatProperties

LEMMA CellJoined ==
  ASSUME NEW s \in Seq(Chars), NEW t \in Seq(Chars), NEW i \in Nat \ {0}
  PROVE  Cell(s \o t, i) = IF i <= Len(s) THEN Cell(s, i) ELSE Cell(t, i - Len(s))
<1> DEFINE u == s \o t
<1>1. /\ Len(u) = Len(s) + Len(t)
      /\ \A j \in 1..(Len(s) + Len(t)) : u[j] = IF j <= Len(s) THEN s[j] ELSE t[j - Len(s)]
  BY ConcatProperties
<1> HIDE DEF u
<1>2. Len(s) \in Nat /\ Len(t) \in Nat
  OBVIOUS
<1>3. CASE i <= Len(s)
  <2>1. i <= Len(u) /\ u[i] = s[i]
    BY <1>1, <1>2, <1>3
  <2> QED BY <1>3, <2>1 DEF Cell, u
<1>4. CASE i > Len(s) /\ i <= Len(s) + Len(t)
  <2>1. i <= Len(u) /\ ~(i <= Len(s)) /\ i - Len(s) <= Len(t) /\ u[i] = t[i - Len(s)]
    BY <1>1, <1>2, <1>4
  <2> QED BY <2>1 DEF Cell, u
<1>5. CASE i > Len(s) + Len(t)
  <2>1. ~(i <= Len(u)) /\ ~(i <= Len(s)) /\ ~(i - Len(s) <= Len(t))
    BY <1>1, <1>2, <1>5
  <2> QED BY <2>1 DEF Cell, u
<1> QED BY <1>2, <1>3, <1>4, <1>5

LEMMA CellCut ==
  ASSUME NEW s \in Seq(Chars), NEW a \in 0..Len(s), NEW i \in Nat \ {0}
  PROVE  /\ Cell(SubSeq(s, 1, a), i) = IF i <= a THEN Cell(s, i) ELSE " "
         /\ Cell(SubSeq(s, a + 1, Len(s)), i) = Cell(s, a + i)
<1> DEFINE u == SubSeq(s, 1, a)
           v == SubSeq(s, a + 1, Len(s))
<1>1. /\ Len(u) = a /\ \A j \in 1..a : u[j] = s[j]
      /\ Len(v) = Len(s) - a /\ \A j \in 1..(Len(s) - a) : v[j] = s[a + j]
  BY Cut
<1>2. Len(s) \in Nat /\ a \in Nat /\ a <= Len(s)
  OBVIOUS
<1> HIDE DEF u, v
<1>3. Cell(u, i) = IF i <= a THEN Cell(s, i) ELSE " "
  <2>1. CASE i <= a
    <3>1. i <= Len(u) /\ i <= Len(s) /\ u[i] = s[i]
      BY <1>1, <1>2, <2>1
    <3> QED BY <2>1, <3>1 DEF Cell
  <2>2. CASE ~(i <= a)
    BY <1>1, <2>2 DEF Cell
  <2> QED BY <2>1, <2>2
<1>4. Cell(v, i) = Cell(s, a + i)
  <2>1. CASE i <= Len(s) - a
    <3>1. i <= Len(v) /\ a + i <= Len(s) /\ v[i] = s[a + i]
      BY <1>1, <1>2, <2>1
    <3> QED BY <3>1 DEF Cell
  <2>2. CASE ~(i <= Len(s) - a)
    <3>1. ~(i <= Len(v)) /\ ~(a + i <= Len(s))
      BY <1>1, <1>2, <2>2
    <3> QED BY <3>1 DEF Cell
  <2> QED BY <2>1, <2>2
<1> QED BY <1>3, <1>4 DEF u, v

LEMMA CellBlank ==
  ASSUME NEW s \in Seq(Chars), NEW i \in Nat \ {0}, i > Len(s)
  PROVE  Cell(s, i) = " "
<1>1. ~(i <= Len(s))
  OBVIOUS
<1> QED BY <1>1 DEF Cell

LEMMA CellBlanks == ASSUME NEW n \in Nat, NEW i \in Nat \ {0} PROVE Cell(Blanks(n), i) = " "
<1>1. Len(Blanks(n)) = n /\ \A j \in 1..n : Blanks(n)[j] = " "
  BY BlanksAre
<1>2. i <= n => i \in 1..n
  OBVIOUS
<1> QED BY <1>1, <1>2 DEF Cell

LEMMA OneChar == ASSUME NEW ch \in Chars PROVE <<ch>> \in Seq(Chars) /\ Len(<<ch>>) = 1
  OBVIOUS

LEMMA CellOne ==
  ASSUME NEW ch \in Chars, NEW i \in Nat \ {0}
  PROVE  Cell(<<ch>>, i) = IF i = 1 THEN ch ELSE " "
<1>1. <<ch>> \in Seq(Chars) /\ Len(<<ch>>) = 1 /\ <<ch>>[1] = ch
  OBVIOUS
<1>2. i <= 1 <=> i = 1
  OBVIOUS
<1> QED BY <1>1, <1>2 DEF Cell

LEMMA CellTail ==
  ASSUME NEW s \in Seq(Chars), s # <<>>, NEW i \in Nat \ {0}
  PROVE  /\ Tail(s) \in Seq(Chars) /\ Len(Tail(s)) = Len(s) - 1 /\ Len(s) > 0
         /\ Cell(Tail(s), i) = Cell(s, i + 1)
<1>1. /\ Tail(s) \in Seq(Chars) /\ Len(Tail(s)) = Len(s) - 1
      /\ \A j \in 1..Len(Tail(s)) : Tail(s)[j] = s[j + 1]
  BY HeadTailProperties
<1>2. Len(s) \in Nat /\ Len(s) > 0
  BY EmptySeq
<1>3. CASE i <= Len(Tail(s))
  <2>1. i + 1 <= Len(s) /\ Tail(s)[i] = s[i + 1]
    BY <1>1, <1>2, <1>3
  <2> QED BY <1>3, <2>1 DEF Cell
<1>4. CASE ~(i <= Len(Tail(s)))
  <2>1. ~(i + 1 <= Len(s))
    BY <1>1, <1>2, <1>4
  <2> QED BY <1>4, <2>1 DEF Cell
<1> QED BY <1>1, <1>2, <1>3, <1>4

\* Writing u over the line l from cursor position c on makes m of it.
Makes(l, c, u, m) ==
  \A i \in Nat \ {0} : Cell(m, i) = IF i > c /\ i <= c + Len(u) THEN Cell(u, i - c) ELSE Cell(l, i)

LEMMA Written ==
  ASSUME NEW l \in Lines, NEW m \in Lines, NEW c \in Nat, NEW u, Len(u) \in Nat, 1 + c + Len(u) <= Width,
         Makes(l, c, u, m)
  PROVE  Put(Screen(Prompt \o l, 1 + c), u) = Screen(Prompt \o m, 1 + c + Len(u))
<1>1. ASSUME NEW i \in 1..Width
      PROVE  Cell(Prompt \o m, i) = IF i > 1 + c /\ i <= 1 + c + Len(u) THEN u[i - (1 + c)] ELSE Cell(Prompt \o l, i)
  <2>1. CASE i = 1
    <3>1. ~(i > 1 + c)
      BY <2>1
    <3> QED BY <2>1, <3>1, PromptLine
  <2>2. CASE i > 1
    <3>1. i \in Nat /\ i - 1 \in Nat \ {0} /\ (i - 1) - c = i - (1 + c)
      BY <2>2
    <3>2. Cell(Prompt \o m, i) = Cell(m, i - 1) /\ Cell(Prompt \o l, i) = Cell(l, i - 1)
      BY <2>2, <3>1, PromptLine
    <3>3. Cell(m, i - 1) = IF i - 1 > c /\ i - 1 <= c + Len(u) THEN u[(i - 1) - c] ELSE Cell(l, i - 1)
      <4>1. Cell(m, i - 1) = IF i - 1 > c /\ i - 1 <= c + Len(u) THEN Cell(u, (i - 1) - c) ELSE Cell(l, i - 1)
        BY <3>1 DEF Makes
      <4>2. i - 1 <= c + Len(u) => (i - 1) - c <= Len(u)
        BY <3>1
      <4> QED BY <4>1, <4>2 DEF Cell
    <3>4. (i - 1 > c <=> i > 1 + c) /\ (i - 1 <= c + Len(u) <=> i <= 1 + c + Len(u))
      BY <3>1
    <3> QED BY <3>1, <3>2, <3>3, <3>4
  <2> QED BY <2>1, <2>2, WidthAssumption
<1>2. 1 + c \in Nat
  OBVIOUS
<1>3. Put(Screen(Prompt \o l, 1 + c), u)
        = [row |-> [i \in 1..Width |-> IF i > 1 + c /\ i <= 1 + c + Len(u) THEN u[i - (1 + c)]
                                                ELSE Cell(Prompt \o l, i)],
           col |-> 1 + c + Len(u)]
  BY <1>2, PutIs
<1>4. [i \in 1..Width |-> IF i > 1 + c /\ i <= 1 + c + Len(u) THEN u[i - (1 + c)] ELSE Cell(Prompt \o l, i)]
        = [i \in 1..Width |-> Cell(Prompt \o m, i)]
  BY <1>1
<1> QED BY <1>3, <1>4 DEF Screen

\* Writing in a new row.
LEMMA NewRow ==
  ASSUME NEW text, Len(text) \in Nat, Len(text) <= Width
  PROVE  Put(NewLine, text) = Screen(text, Len(text))
<1>1. ASSUME NEW i \in 1..Width
      PROVE  Cell(text, i) = IF i > 0 /\ i <= 0 + Len(text) THEN text[i - 0] ELSE Cell(<<>>, i)
  <2>1. i > 0 /\ i - 0 = i /\ 0 + Len(text) = Len(text)
    BY WidthAssumption
  <2>2. Len(<<>>) = 0 /\ ~(i <= 0)
    BY WidthAssumption
  <2> QED BY <2>1, <2>2 DEF Cell
<1>2. 0 \in Nat /\ 0 + Len(text) <= Width /\ 0 + Len(text) = Len(text)
  OBVIOUS
<1>3. Put(Screen(<<>>, 0), text)
        = [row |-> [i \in 1..Width |-> IF i > 0 /\ i <= 0 + Len(text) THEN text[i - 0] ELSE Cell(<<>>, i)],
           col |-> 0 + Len(text)]
  BY <1>2, PutIs
<1>4. [i \in 1..Width |-> IF i > 0 /\ i <= 0 + Len(text) THEN text[i - 0] ELSE Cell(<<>>, i)]
        = [i \in 1..Width |-> Cell(text, i)]
  BY <1>1
<1> QED BY <1>2, <1>3, <1>4, NewLineIs DEF Screen

\* The prompt and the line in a new row.
LEMMA Reprinted == ASSUME NEW l \in Lines PROVE Put(NewLine, Prompt \o l) = Screen(Prompt \o l, 1 + Len(l))
<1> DEFINE t == Prompt \o l
<1>1. Len(t) = 1 + Len(l) /\ Len(l) \in Nat /\ Len(l) <= MaxLine
  BY PromptLine, LinesAre
<1> HIDE DEF t
<1>2. Len(t) \in Nat /\ Len(t) <= Width
  BY <1>1, WidthAssumption, BoundsAssumption
<1>3. Put(NewLine, t) = Screen(t, Len(t))
  BY <1>2, NewRow
<1> QED BY <1>1, <1>3 DEF t

-----------------------------------------------------------------------------
(* The line editor.                                                        *)

\* The row of the cursor shows the line.
LineShown == tty = Screen(Prompt \o line, 1 + cursor)

LEMMA LineIs ==
  ASSUME TypeOK
  PROVE  /\ line \in Lines /\ line \in Seq(Chars) /\ Len(line) \in Nat /\ Len(line) <= MaxLine
         /\ cursor \in Nat /\ cursor <= Len(line)
         /\ Before \in Seq(Chars) /\ Len(Before) = cursor
         /\ After \in Seq(Chars) /\ Len(After) = Len(line) - cursor
         /\ MaxLine \in Nat /\ Width \in Nat /\ MaxLine + 2 <= Width
<1>1. line \in Lines /\ cursor \in 0..Len(line)
  BY DEF TypeOK
<1>2. line \in Seq(Chars) /\ Len(line) <= MaxLine
  BY <1>1, LinesAre
<1>3. MaxLine \in Nat /\ Width \in Nat /\ MaxLine + 2 <= Width
  BY BoundsAssumption, WidthAssumption
<1>4. Len(line) \in Nat /\ cursor \in Nat /\ cursor <= Len(line)
  BY <1>1, <1>2
<1>5. /\ Before \in Seq(Chars) /\ Len(Before) = cursor
      /\ After \in Seq(Chars) /\ Len(After) = Len(line) - cursor
  BY <1>1, <1>2, Cut DEF Before, After
<1> QED BY <1>1, <1>2, <1>3, <1>4, <1>5

LEMMA LineCells ==
  ASSUME TypeOK, NEW i \in Nat \ {0}
  PROVE  /\ Cell(Before, i) = IF i <= cursor THEN Cell(line, i) ELSE " "
         /\ Cell(After, i) = Cell(line, cursor + i)
         /\ i > Len(line) => Cell(line, i) = " "
<1>1. line \in Seq(Chars) /\ cursor \in 0..Len(line)
  BY LineIs
<1>2. /\ Cell(Before, i) = IF i <= cursor THEN Cell(line, i) ELSE " "
      /\ Cell(After, i) = Cell(line, cursor + i)
  BY <1>1, CellCut DEF Before, After
<1> QED BY <1>1, <1>2, CellBlank

\* Writing and going back.
LEMMA Edited ==
  ASSUME NEW l \in Lines, NEW m \in Lines, NEW c \in Nat, NEW u, Len(u) \in Nat, 1 + c + Len(u) <= Width,
         Makes(l, c, u, m), NEW k \in 0..Len(u)
  PROVE  Back(Put(Screen(Prompt \o l, 1 + c), u), k) = Screen(Prompt \o m, 1 + c + Len(u) - k)
<1>1. Put(Screen(Prompt \o l, 1 + c), u) = Screen(Prompt \o m, 1 + c + Len(u))
  BY Written
<1>2. 1 + c + Len(u) \in Nat /\ k \in 0..(1 + c + Len(u))
  OBVIOUS
<1> QED BY <1>1, <1>2, BackIs

LEMMA InsertShown ==
  ASSUME TypeOK, NEW ch \in Chars, Insert(ch)
  PROVE  line' \in Lines /\ cursor' \in 0..Len(line') /\ (LineShown => tty' = Screen(Prompt \o line', 1 + cursor'))
<1> DEFINE a == Before \o <<ch>>
           m == a \o After
           u == <<ch>> \o After
<1>1. line' = m /\ cursor' = cursor + 1 /\ tty' = Back(Put(tty, u), Len(After)) /\ Len(line) < MaxLine
  BY DEF Insert
<1>0. /\ Len(line) \in Nat /\ cursor \in Nat /\ cursor <= Len(line) /\ Len(After) = Len(line) - cursor
      /\ Len(Before) = cursor /\ Len(line) <= MaxLine /\ MaxLine \in Nat /\ Width \in Nat /\ MaxLine + 2 <= Width
  BY LineIs
<1>2. <<ch>> \in Seq(Chars) /\ Len(<<ch>>) = 1
  BY OneChar
<1>3. u \in Seq(Chars) /\ Len(u) = 1 + Len(After)
  BY <1>2, LineIs, CharsJoined
<1>4. a \in Seq(Chars) /\ Len(a) = cursor + 1
  BY <1>2, LineIs, CharsJoined
<1> HIDE DEF a
<1>5. m \in Seq(Chars) /\ Len(m) = Len(line) + 1
  <2>1. m \in Seq(Chars) /\ Len(m) = Len(a) + Len(After)
    BY <1>4, LineIs, CharsJoined
  <2> HIDE DEF m
  <2> QED BY <1>0, <1>4, <2>1
<1>6. ASSUME NEW i \in Nat \ {0}
      PROVE  Cell(m, i) = IF i > cursor /\ i <= cursor + Len(u) THEN Cell(u, i - cursor) ELSE Cell(line, i)
  <2>1. Cell(m, i) = IF i <= cursor + 1 THEN Cell(a, i) ELSE Cell(After, i - (cursor + 1))
    <3>1. Cell(m, i) = IF i <= Len(a) THEN Cell(a, i) ELSE Cell(After, i - Len(a))
      BY <1>4, LineIs, CellJoined
    <3> QED BY <1>4, <3>1
  <2>2. Cell(a, i) = IF i <= cursor THEN Cell(Before, i) ELSE Cell(<<ch>>, i - cursor)
    <3>1. Cell(a, i) = IF i <= Len(Before) THEN Cell(Before, i) ELSE Cell(<<ch>>, i - Len(Before))
      BY <1>2, LineIs, CellJoined DEF a
    <3> QED BY <1>0, <3>1
  <2>3. i > cursor => Cell(u, i - cursor) = IF i - cursor <= 1 THEN Cell(<<ch>>, i - cursor) ELSE Cell(After, (i - cursor) - 1)
    <3>1. i > cursor => i - cursor \in Nat \ {0}
      BY LineIs
    <3> QED BY <1>2, <3>1, LineIs, CellJoined
  <2> HIDE DEF m, u
  <2>4. CASE i <= cursor
    <3>1. Cell(Before, i) = Cell(line, i)
      BY <2>4, LineCells
    <3>2. i <= cursor + 1 /\ ~(i > cursor)
      BY <1>0, <2>4
    <3> QED BY <2>1, <2>2, <2>4, <3>1, <3>2
  <2>5. CASE i = cursor + 1
    BY <1>3, <2>1, <2>2, <2>3, <2>5, <1>0
  <2>6. CASE i > cursor + 1
    <3>1. (i - cursor) - 1 = i - (cursor + 1) /\ ~(i - cursor <= 1) /\ ~(i <= cursor + 1) /\ i > cursor
      BY <1>0, <2>6
    <3>2. CASE i <= cursor + Len(u)
      BY <2>1, <2>3, <3>1, <3>2
    <3>3. CASE ~(i <= cursor + Len(u))
      <4>1. i - (cursor + 1) \in Nat \ {0} /\ cursor + (i - (cursor + 1)) = i - 1
        BY <1>0, <2>6
      <4>2. Cell(m, i) = Cell(line, i - 1)
        BY <2>1, <3>1, <4>1, LineCells
      <4>3. i - 1 \in Nat \ {0} /\ i - 1 > Len(line) /\ i > Len(line)
        BY <1>3, <2>6, <1>0, <3>3
      <4>4. Cell(line, i - 1) = " " /\ Cell(line, i) = " "
        BY <4>3, LineCells
      <4> QED BY <3>3, <4>2, <4>4
    <3> QED BY <3>2, <3>3
  <2> QED BY <2>4, <2>5, <2>6, <1>0
<1> HIDE DEF m, u
<1>7. m \in Lines
  BY <1>1, <1>5, LinesAre, LineIs
<1>8. Makes(line, cursor, u, m)
  BY <1>6 DEF Makes
<1>9. Len(u) \in Nat /\ 1 + cursor + Len(u) <= Width /\ Len(After) \in 0..Len(u)
      /\ 1 + cursor + Len(u) - Len(After) = 1 + (cursor + 1)
  BY <1>1, <1>3, LineIs
<1>10. Back(Put(Screen(Prompt \o line, 1 + cursor), u), Len(After)) = Screen(Prompt \o m, 1 + cursor + Len(u) - Len(After))
  <2>1. line \in Lines
    BY LineIs
  <2> DEFINE k == Len(After)
  <2>2. k \in 0..Len(u)
    BY <1>9
  <2> HIDE DEF k
  <2>3. Back(Put(Screen(Prompt \o line, 1 + cursor), u), k) = Screen(Prompt \o m, 1 + cursor + Len(u) - k)
    BY <1>0, <1>7, <1>8, <1>9, <2>1, <2>2, Edited
  <2> QED BY <2>3 DEF k
<1>11. LineShown => tty' = Screen(Prompt \o m, 1 + (cursor + 1))
  BY <1>1, <1>9, <1>10 DEF LineShown
<1> QED BY <1>1, <1>5, <1>7, <1>11, LineIs

LEMMA EraseShown ==
  ASSUME TypeOK, NEW count \in Nat, EraseLeft(count)
  PROVE  line' \in Lines /\ cursor' \in 0..Len(line') /\ (LineShown => tty' = Screen(Prompt \o line', 1 + cursor'))
<1> DEFINE n == Least(count, cursor)
           c == cursor - n
           a == SubSeq(line, 1, c)
           m == a \o After
           u == After \o Blanks(n)
<1>0. /\ Len(line) \in Nat /\ cursor \in Nat /\ cursor <= Len(line) /\ Len(After) = Len(line) - cursor
      /\ Len(line) <= MaxLine /\ MaxLine \in Nat /\ Width \in Nat /\ MaxLine + 2 <= Width
  BY LineIs
<1>1. line' = m /\ cursor' = c /\ tty' = Back(Put(Back(tty, n), u), Len(After) + n)
  BY DEF EraseLeft
<1>2. n \in 0..cursor
  BY <1>0 DEF Least
<1> HIDE DEF n
<1>3. c \in 0..Len(line) /\ c \in Nat /\ c + n = cursor /\ n \in Nat
  BY <1>0, <1>2
<1>4. Blanks(n) \in Seq(Chars) /\ Len(Blanks(n)) = n
  BY <1>3, BlankChars
<1> HIDE DEF c
<1>5. a \in Seq(Chars) /\ Len(a) = c
  BY <1>3, LineIs, Cut
<1>6. u \in Seq(Chars) /\ Len(u) = Len(line) - c
  <2>1. u \in Seq(Chars) /\ Len(u) = Len(After) + Len(Blanks(n))
    BY <1>4, LineIs, CharsJoined
  <2> HIDE DEF u
  <2> QED BY <1>0, <1>3, <1>4, <2>1
<1> HIDE DEF a
<1>7. m \in Seq(Chars) /\ Len(m) = c + Len(After)
  <2>1. m \in Seq(Chars) /\ Len(m) = Len(a) + Len(After)
    BY <1>5, LineIs, CharsJoined
  <2> HIDE DEF m
  <2> QED BY <1>5, <2>1
<1>8. ASSUME NEW i \in Nat \ {0}
      PROVE  Cell(m, i) = IF i > c /\ i <= c + Len(u) THEN Cell(u, i - c) ELSE Cell(line, i)
  <2>1. Cell(m, i) = IF i <= c THEN Cell(a, i) ELSE Cell(After, i - c)
    <3>1. Cell(m, i) = IF i <= Len(a) THEN Cell(a, i) ELSE Cell(After, i - Len(a))
      BY <1>5, LineIs, CellJoined
    <3> QED BY <1>5, <3>1
  <2>2. i <= c => Cell(a, i) = Cell(line, i)
    BY <1>3, LineIs, CellCut DEF a
  <2>3. i > c => i - c \in Nat \ {0}
    BY <1>3
  <2>4. i > c => Cell(u, i - c) = IF i - c <= Len(After) THEN Cell(After, i - c) ELSE Cell(Blanks(n), (i - c) - Len(After))
    BY <1>4, <2>3, LineIs, CellJoined
  <2>5. CASE i <= c
    <3>1. ~(i > c)
      BY <1>3, <2>5
    <3> QED BY <2>1, <2>2, <2>5, <3>1
  <2>6. CASE i > c
    <3>0. ~(i <= c)
      BY <1>3, <2>6
    <3>1. Cell(m, i) = Cell(After, i - c)
      BY <2>1, <3>0
    <3>2. CASE i - c <= Len(After)
      <4>1. i <= c + Len(u)
        BY <1>0, <1>3, <1>6, <3>2
      <4> QED BY <2>4, <2>6, <3>1, <3>2, <4>1
    <3>3. CASE ~(i - c <= Len(After))
      <4>1. cursor + (i - c) \in Nat \ {0} /\ cursor + (i - c) > Len(line) /\ (i - c) - Len(After) \in Nat \ {0}
        BY <1>0, <1>3, <2>6, <3>3
      <4>2. Cell(m, i) = " "
        BY <2>3, <2>6, <3>1, <4>1, LineCells
      <4>3. Cell(Blanks(n), (i - c) - Len(After)) = " "
        BY <1>3, <4>1, CellBlanks
      <4>4. ~(i <= c + Len(u)) => i > Len(line)
        BY <1>0, <1>3, <1>6
      <4>5. ~(i <= c + Len(u)) => Cell(line, i) = " "
        BY <4>4, LineCells
      <4> QED BY <2>4, <2>6, <3>3, <4>2, <4>3, <4>5
    <3> QED BY <3>2, <3>3
  <2> QED BY <1>3, <2>5, <2>6
<1> HIDE DEF m, u
<1>9. m \in Lines
  BY <1>0, <1>3, <1>7, LinesAre
<1>10. Makes(line, c, u, m)
  BY <1>8 DEF Makes
<1>11. /\ Len(u) \in Nat /\ 1 + c + Len(u) <= Width /\ Len(After) + n \in 0..Len(u)
       /\ 1 + c + Len(u) - (Len(After) + n) = 1 + c
  BY <1>0, <1>3, <1>6
<1>12. Back(Put(Screen(Prompt \o line, 1 + c), u), Len(After) + n) = Screen(Prompt \o m, 1 + c + Len(u) - (Len(After) + n))
  <2>1. line \in Lines
    BY LineIs
  <2> DEFINE k == Len(After) + n
  <2>2. k \in 0..Len(u)
    BY <1>11
  <2> HIDE DEF k
  <2>3. Back(Put(Screen(Prompt \o line, 1 + c), u), k) = Screen(Prompt \o m, 1 + c + Len(u) - k)
    BY <1>3, <1>9, <1>10, <1>11, <2>1, <2>2, Edited
  <2> QED BY <2>3 DEF k
<1>13. Back(Screen(Prompt \o line, 1 + cursor), n) = Screen(Prompt \o line, 1 + c)
  <2> DEFINE k == 1 + cursor
  <2>1. k \in Nat /\ n \in 0..k /\ k - n = 1 + c
    BY <1>0, <1>2, <1>3
  <2> HIDE DEF k
  <2>2. Back(Screen(Prompt \o line, k), n) = Screen(Prompt \o line, k - n)
    BY <2>1, BackIs
  <2> QED BY <2>1, <2>2 DEF k
<1>14. LineShown => tty' = Screen(Prompt \o m, 1 + c)
  BY <1>1, <1>11, <1>12, <1>13 DEF LineShown
<1>15. c \in 0..Len(m)
  BY <1>0, <1>3, <1>7
<1> QED BY <1>1, <1>9, <1>14, <1>15

LEMMA DeleteShown ==
  ASSUME TypeOK, DeleteAt
  PROVE  line' \in Lines /\ cursor' \in 0..Len(line') /\ (LineShown => tty' = Screen(Prompt \o line', 1 + cursor'))
<1> DEFINE t == Tail(After)
           b == <<" ">>
           m == Before \o t
           u == t \o b
<1>0. /\ Len(line) \in Nat /\ cursor \in Nat /\ cursor <= Len(line) /\ Len(After) = Len(line) - cursor /\ Len(Before) = cursor
      /\ Len(line) <= MaxLine /\ MaxLine \in Nat /\ Width \in Nat /\ MaxLine + 2 <= Width
  BY LineIs
<1>1. line' = m /\ cursor' = cursor /\ tty' = Back(Put(tty, u), Len(After)) 
  BY DEF DeleteAt
<1>2. b \in Seq(Chars) /\ Len(b) = 1 /\ \A i \in Nat \ {0} : Cell(b, i) = " "
  <2>1. " " \in Chars
    BY DEF Chars
  <2> QED BY <2>1, OneChar, CellOne
<1> HIDE DEF b
<1>3. After # <<>> /\ cursor < Len(line)
  <2>1. cursor < Len(line)
    BY DEF DeleteAt
  <2>2. Len(After) # 0
    BY <1>0, <2>1
  <2> QED BY <2>1, <2>2, EmptySeq
<1>4. t \in Seq(Chars) /\ Len(t) = Len(line) - cursor - 1
  <2>1. t \in Seq(Chars) /\ Len(t) = Len(After) - 1
    BY <1>3, LineIs, CellTail
  <2> QED BY <1>0, <2>1
<1>5. ASSUME NEW i \in Nat \ {0} PROVE Cell(t, i) = Cell(line, cursor + (i + 1))
  <2>1. Cell(t, i) = Cell(After, i + 1)
    BY <1>3, LineIs, CellTail
  <2>2. i + 1 \in Nat \ {0}
    OBVIOUS
  <2> QED BY <2>1, <2>2, LineCells
<1> HIDE DEF t
<1>6. u \in Seq(Chars) /\ Len(u) = Len(line) - cursor
  <2>1. u \in Seq(Chars) /\ Len(u) = Len(t) + Len(b)
    BY <1>2, <1>4, CharsJoined
  <2> HIDE DEF u
  <2>2. Len(b) = 1 /\ Len(t) = Len(line) - cursor - 1
    BY <1>2, <1>4
  <2> QED BY <1>0, <2>1, <2>2
<1>7. m \in Seq(Chars) /\ Len(m) = Len(line) - 1
  <2>1. m \in Seq(Chars) /\ Len(m) = Len(Before) + Len(t)
    BY <1>4, LineIs, CharsJoined
  <2> HIDE DEF m
  <2> QED BY <1>0, <1>4, <2>1
<1> HIDE DEF m, u
<1>8. ASSUME NEW i \in Nat \ {0}
      PROVE  Cell(m, i) = IF i > cursor /\ i <= cursor + Len(u) THEN Cell(u, i - cursor) ELSE Cell(line, i)
  <2>1. Cell(m, i) = IF i <= cursor THEN Cell(Before, i) ELSE Cell(t, i - cursor)
    <3>1. Cell(m, i) = IF i <= Len(Before) THEN Cell(Before, i) ELSE Cell(t, i - Len(Before))
      BY <1>4, LineIs, CellJoined DEF m
    <3> QED BY <1>0, <3>1
  <2>2. i <= cursor => Cell(Before, i) = Cell(line, i)
    BY LineCells
  <2>3. i > cursor => i - cursor \in Nat \ {0} /\ cursor + ((i - cursor) + 1) = i + 1
    BY <1>0
  <2>4. i > cursor => Cell(u, i - cursor) = IF i - cursor <= Len(t) THEN Cell(t, i - cursor) ELSE Cell(b, (i - cursor) - Len(t))
    BY <1>2, <1>4, <2>3, CellJoined DEF u
  <2>5. CASE i <= cursor
    <3>1. ~(i > cursor)
      BY <1>0, <2>5
    <3> QED BY <2>1, <2>2, <2>5, <3>1
  <2>6. CASE i > cursor
    <3>0. ~(i <= cursor)
      BY <1>0, <2>6
    <3>1. Cell(m, i) = Cell(t, i - cursor) /\ Cell(t, i - cursor) = Cell(line, i + 1)
      BY <1>5, <2>1, <2>3, <2>6, <3>0
    <3>2. CASE i - cursor <= Len(t)
      <4>1. i <= cursor + Len(u)
        BY <1>0, <1>4, <1>6, <3>2
      <4> QED BY <2>4, <2>6, <3>1, <3>2, <4>1
    <3>3. CASE ~(i - cursor <= Len(t))
      <4>1. i + 1 \in Nat \ {0} /\ i + 1 > Len(line) /\ (i - cursor) - Len(t) \in Nat \ {0}
        BY <1>0, <1>4, <2>6, <3>3
      <4>2. Cell(m, i) = " "
        BY <3>1, <4>1, LineCells
      <4>3. Cell(b, (i - cursor) - Len(t)) = " "
        BY <1>2, <4>1
      <4>4. ~(i <= cursor + Len(u)) => i > Len(line)
        BY <1>0, <1>6
      <4>5. ~(i <= cursor + Len(u)) => Cell(line, i) = " "
        BY <4>4, LineCells
      <4> QED BY <2>4, <2>6, <3>3, <4>2, <4>3, <4>5
    <3> QED BY <3>2, <3>3
  <2> QED BY <1>0, <2>5, <2>6
<1>9. m \in Lines
  BY <1>0, <1>7, LinesAre
<1>10. Makes(line, cursor, u, m)
  BY <1>8 DEF Makes
<1>11. /\ Len(u) \in Nat /\ 1 + cursor + Len(u) <= Width /\ Len(After) \in 0..Len(u)
       /\ 1 + cursor + Len(u) - Len(After) = 1 + cursor
  BY <1>0, <1>6
<1>12. Back(Put(Screen(Prompt \o line, 1 + cursor), u), Len(After)) = Screen(Prompt \o m, 1 + cursor + Len(u) - Len(After))
  <2>1. line \in Lines
    BY LineIs
  <2> QED BY <1>0, <1>9, <1>10, <1>11, <2>1, Edited
<1>13. LineShown => tty' = Screen(Prompt \o m, 1 + cursor)
  BY <1>1, <1>11, <1>12 DEF LineShown
<1>14. cursor \in 0..Len(m)
  BY <1>0, <1>3, <1>7
<1> QED BY <1>1, <1>9, <1>13, <1>14

LEMMA KillShown ==
  ASSUME TypeOK, KillToEnd
  PROVE  line' \in Lines /\ cursor' \in 0..Len(line') /\ (LineShown => tty' = Screen(Prompt \o line', 1 + cursor'))
<1> DEFINE m == Before
           u == Blanks(Len(After))
<1>0. /\ Len(line) \in Nat /\ cursor \in Nat /\ cursor <= Len(line) /\ Len(After) = Len(line) - cursor /\ Len(Before) = cursor
      /\ Len(line) <= MaxLine /\ MaxLine \in Nat /\ Width \in Nat /\ MaxLine + 2 <= Width
  BY LineIs
<1>1. line' = m /\ cursor' = cursor /\ tty' = Back(Put(tty, u), Len(After))
  BY DEF KillToEnd
<1>2. Len(After) \in Nat
  BY <1>0
<1>3. u \in Seq(Chars) /\ Len(u) = Len(After)
  BY <1>2, BlankChars
<1>4. ASSUME NEW i \in Nat \ {0}
      PROVE  Cell(m, i) = IF i > cursor /\ i <= cursor + Len(u) THEN Cell(u, i - cursor) ELSE Cell(line, i)
  <2>1. Cell(m, i) = IF i <= cursor THEN Cell(line, i) ELSE " "
    BY LineCells
  <2>2. i > cursor => i - cursor \in Nat \ {0} /\ ~(i <= cursor)
    BY <1>0
  <2>3. i > cursor => Cell(u, i - cursor) = " "
    BY <1>2, <2>2, CellBlanks
  <2>4. ~(i <= cursor + Len(u)) => i > Len(line)
    BY <1>0, <1>3
  <2>5. ~(i <= cursor + Len(u)) => Cell(line, i) = " "
    BY <2>4, LineCells
  <2>6. ~(i > cursor) => i <= cursor
    BY <1>0
  <2> HIDE DEF m, u
  <2> QED BY <2>1, <2>2, <2>3, <2>5, <2>6
<1>5. m \in Lines
  BY <1>0, LineIs, LinesAre
<1> HIDE DEF m, u
<1>6. Makes(line, cursor, u, m)
  BY <1>4 DEF Makes
<1>7. /\ Len(u) \in Nat /\ 1 + cursor + Len(u) <= Width /\ Len(After) \in 0..Len(u)
       /\ 1 + cursor + Len(u) - Len(After) = 1 + cursor
  BY <1>0, <1>3
<1>8. Back(Put(Screen(Prompt \o line, 1 + cursor), u), Len(After)) = Screen(Prompt \o m, 1 + cursor + Len(u) - Len(After))
  <2>1. line \in Lines
    BY LineIs
  <2> QED BY <1>0, <1>5, <1>6, <1>7, <2>1, Edited
<1>9. LineShown => tty' = Screen(Prompt \o m, 1 + cursor)
  BY <1>1, <1>7, <1>8 DEF LineShown
<1>10. cursor \in 0..Len(m)
  BY <1>0 DEF m
<1> QED BY <1>1, <1>5, <1>9, <1>10

LEMMA LeastNumber ==
  ASSUME NEW T, T \subseteq Nat, T # {}
  PROVE  \E x \in T : \A y \in T : x <= y
<1>1. PICK x \in T : \A y \in T : ~ (<<y, x>> \in OpToRel(<, Nat))
  BY WFMin, NatLessThanWellFounded
<1>2. \A y \in T : ~ (y < x)
  BY <1>1 DEF OpToRel
<1>3. ASSUME NEW y \in T PROVE x <= y
  <2>1. x \in Nat /\ y \in Nat /\ ~(y < x)
    BY <1>2
  <2> QED BY <2>1
<1> QED BY <1>3

LEMMA WordStartIs == ASSUME TypeOK PROVE cursor - WordStart \in 0..cursor
<1>1. cursor \in Nat
  BY LineIs
<1> DEFINE Starts(i) == \E j \in i..cursor : /\ \A k \in i+1..j : line[k] # " "
                                            /\ \A k \in j+1..cursor : line[k] = " "
<1>0. Starts(cursor)
  <2>1. cursor \in cursor..cursor /\ cursor+1..cursor = {}
    BY <1>1
  <2> QED BY <2>1
<1>5. WordStarts = {i \in 0..cursor : Starts(i)}
  BY DEF WordStarts
<1> HIDE DEF Starts
<1>2. WordStarts \subseteq Nat /\ WordStarts \subseteq 0..cursor
  BY <1>1, <1>5
<1>3. cursor \in WordStarts
  <2>1. cursor \in 0..cursor
    BY <1>1
  <2> QED BY <1>0, <1>5, <2>1
<1>4. \E i \in WordStarts : \A k \in WordStarts : i <= k
  BY <1>2, <1>3, LeastNumber
<1>6. WordStart \in WordStarts
  BY <1>4 DEF WordStart
<1>7. WordStart \in 0..cursor
  BY <1>2, <1>6
<1> QED BY <1>1, <1>7

LEMMA LineNumbers ==
  ASSUME TypeOK
  PROVE  /\ Len(line) \in Nat /\ cursor \in Nat /\ cursor <= Len(line) /\ Len(line) <= MaxLine
         /\ MaxLine \in Nat /\ Width \in Nat /\ MaxLine + 2 <= Width
  BY LineIs

\* The empty line.
LEMMA EmptyLine == <<>> \in Lines /\ <<>> \in Seq(Chars) /\ Len(<<>>) = 0 /\ \A i \in Nat \ {0} : Cell(<<>>, i) = " "
<1> DEFINE none == <<>>
<1>1. none \in Seq(Chars)
  OBVIOUS
<1>2. Len(none) = 0
  OBVIOUS
<1>3. MaxLine \in Nat
  BY BoundsAssumption
<1> HIDE DEF none
<1>4. Len(none) <= MaxLine
  BY <1>2, <1>3
<1>5. none \in Lines
  BY <1>1, <1>4, LinesAre
<1>6. ASSUME NEW i \in Nat \ {0} PROVE Cell(none, i) = " "
  <2>1. i > Len(none)
    BY <1>2
  <2> QED BY <1>1, <2>1, CellBlank
<1> QED BY <1>1, <1>2, <1>5, <1>6 DEF none

LEMMA MovesShown ==
  ASSUME TypeOK, MoveLeft \/ MoveRight \/ MoveHome \/ MoveEnd
  PROVE  line' \in Lines /\ cursor' \in 0..Len(line') /\ (LineShown => tty' = Screen(Prompt \o line', 1 + cursor'))
<1>0. /\ Len(line) \in Nat /\ cursor \in Nat /\ cursor <= Len(line) /\ line \in Lines /\ line \in Seq(Chars)
      /\ Len(line) <= MaxLine /\ MaxLine \in Nat /\ Width \in Nat /\ MaxLine + 2 <= Width
  BY LineIs
<1>1. line' = line
  BY DEF MoveLeft, MoveRight, MoveHome, MoveEnd, Moves
<1> DEFINE k == 1 + cursor
<1>2. k \in Nat /\ 1 \in 0..k /\ cursor \in 0..k
  BY <1>0
<1> HIDE DEF k
<1>3. CASE MoveLeft
  <2>1. cursor > 0 /\ cursor' = cursor - 1 /\ tty' = Back(tty, 1)
    BY <1>3 DEF MoveLeft
  <2>2. Back(Screen(Prompt \o line, k), 1) = Screen(Prompt \o line, k - 1)
    BY <1>2, BackIs
  <2>3. k - 1 = 1 + (cursor - 1) /\ cursor - 1 \in 0..Len(line)
    BY <1>0, <2>1 DEF k
  <2> QED BY <1>0, <1>1, <2>1, <2>2, <2>3 DEF LineShown, k
<1>4. CASE MoveHome
  <2>1. cursor' = 0 /\ tty' = Back(tty, cursor)
    BY <1>4 DEF MoveHome
  <2>2. Back(Screen(Prompt \o line, k), cursor) = Screen(Prompt \o line, k - cursor)
    BY <1>2, BackIs
  <2>3. k - cursor = 1 + 0 /\ 0 \in 0..Len(line)
    BY <1>0 DEF k
  <2> QED BY <1>0, <1>1, <2>1, <2>2, <2>3 DEF LineShown, k
<1>5. CASE MoveEnd
  <2>1. cursor' = Len(line) /\ tty' = Put(tty, After)
    BY <1>5 DEF MoveEnd
  <2>2. Len(After) \in Nat /\ Len(After) = Len(line) - cursor
    BY LineIs
  <2>3. ASSUME NEW i \in Nat \ {0}
        PROVE  Cell(line, i) = IF i > cursor /\ i <= cursor + Len(After) THEN Cell(After, i - cursor) ELSE Cell(line, i)
    <3>1. i > cursor => i - cursor \in Nat \ {0} /\ cursor + (i - cursor) = i
      BY <1>0
    <3> QED BY <3>1, LineCells
  <2>4. Makes(line, cursor, After, line)
    BY <2>3 DEF Makes
  <2>5. 1 + cursor + Len(After) <= Width /\ 1 + cursor + Len(After) = 1 + Len(line)
    BY <1>0, <2>2
  <2>6. Put(Screen(Prompt \o line, 1 + cursor), After) = Screen(Prompt \o line, 1 + cursor + Len(After))
    BY <1>0, <2>2, <2>4, <2>5, Written
  <2>7. Len(line) \in 0..Len(line)
    BY <1>0
  <2> QED BY <1>0, <1>1, <2>1, <2>5, <2>6, <2>7 DEF LineShown
<1>6. CASE MoveRight
  <2> DEFINE u == <<line[cursor + 1]>>
  <2>1. cursor' = cursor + 1 /\ tty' = Put(tty, u) /\ cursor < Len(line)
    BY <1>6 DEF MoveRight
  <2>2. cursor + 1 \in 1..Len(line)
    BY <1>0, <2>1
  <2>3. line[cursor + 1] \in Chars /\ Cell(line, cursor + 1) = line[cursor + 1]
    <3>1. cursor + 1 <= Len(line)
      BY <2>2
    <3>2. line[cursor + 1] \in Chars
      BY <1>0, <2>2, ElementOfSeq
    <3> QED BY <3>1, <3>2 DEF Cell
  <2>10. Len(u) = 1
    BY <2>3, OneChar
  <2>4. \A i \in Nat \ {0} : Cell(u, i) = IF i = 1 THEN Cell(line, cursor + 1) ELSE " "
    BY <2>3, CellOne
  <2> HIDE DEF u
  <2>5. ASSUME NEW i \in Nat \ {0}
        PROVE  Cell(line, i) = IF i > cursor /\ i <= cursor + Len(u) THEN Cell(u, i - cursor) ELSE Cell(line, i)
    <3>1. i > cursor /\ i <= cursor + Len(u) => i - cursor = 1 /\ i = cursor + 1 /\ 1 \in Nat \ {0}
      BY <2>10, LineNumbers
    <3> QED BY <2>4, <3>1
  <2>6. Makes(line, cursor, u, line)
    BY <2>5 DEF Makes
  <2>7. Len(u) \in Nat /\ 1 + cursor + Len(u) <= Width /\ 1 + cursor + Len(u) = 1 + (cursor + 1)
    BY <2>2, <2>10, LineNumbers
  <2>8. Put(Screen(Prompt \o line, 1 + cursor), u) = Screen(Prompt \o line, 1 + cursor + Len(u))
    BY <1>0, <2>6, <2>7, Written
  <2>9. cursor + 1 \in 0..Len(line)
    BY <2>2
  <2>11. 1 + cursor + Len(u) = 1 + (cursor + 1)
    BY <2>7
  <2>12. LineShown => tty' = Screen(Prompt \o line, 1 + cursor')
    BY <2>1, <2>8, <2>11 DEF LineShown
  <2> QED BY <1>0, <1>1, <2>1, <2>9, <2>12
<1> QED BY <1>3, <1>4, <1>5, <1>6

LEMMA ReplaceShown ==
  ASSUME TypeOK, NEW new \in Lines, ReplaceLine(new)
  PROVE  line' \in Lines /\ cursor' \in 0..Len(line') /\ (LineShown => tty' = Screen(Prompt \o line', 1 + cursor'))
<1> DEFINE n == Len(line)
           u == Blanks(n)
<1>0. /\ n \in Nat /\ cursor \in Nat /\ cursor <= n /\ line \in Lines
      /\ n <= MaxLine /\ MaxLine \in Nat /\ Width \in Nat /\ MaxLine + 2 <= Width
      /\ Len(After) \in Nat /\ Len(After) = n - cursor
      /\ new \in Seq(Chars) /\ Len(new) \in Nat /\ Len(new) <= MaxLine
  BY LineIs, LinesAre
<1>1. line' = new /\ cursor' = Len(new)
      /\ tty' = Put(Back(Put(Back(Put(tty, After), n), u), n), new)
  BY DEF ReplaceLine
<1>2. Len(u) = n /\ \A i \in Nat \ {0} : Cell(u, i) = " "
  BY <1>0, BlankChars, CellBlanks
<1> DEFINE none == <<>>
<1>4. none \in Lines /\ \A i \in Nat \ {0} : Cell(none, i) = " "
  BY EmptyLine
<1>11. Len(u) = n
  BY <1>2
<1>12. Len(new) \in Nat /\ Len(new) <= MaxLine
  BY LinesAre
<1>13. n \in Nat /\ n <= MaxLine /\ MaxLine \in Nat /\ Width \in Nat /\ MaxLine + 2 <= Width
  BY LineNumbers
<1> HIDE DEF n, u, none
<1>5. Put(Screen(Prompt \o line, 1 + cursor), After) = Screen(Prompt \o line, 1 + n)
  <2>1. ASSUME NEW i \in Nat \ {0}
        PROVE  Cell(line, i) = IF i > cursor /\ i <= cursor + Len(After) THEN Cell(After, i - cursor) ELSE Cell(line, i)
    <3>1. i > cursor => i - cursor \in Nat \ {0} /\ cursor + (i - cursor) = i
      BY <1>0
    <3> QED BY <3>1, LineCells
  <2>2. Makes(line, cursor, After, line)
    BY <2>1 DEF Makes
  <2>3. 1 + cursor + Len(After) <= Width /\ 1 + cursor + Len(After) = 1 + n
    BY <1>0
  <2>4. Put(Screen(Prompt \o line, 1 + cursor), After) = Screen(Prompt \o line, 1 + cursor + Len(After))
    BY <1>0, <2>2, <2>3, Written
  <2> QED BY <2>3, <2>4
<1>6. Back(Screen(Prompt \o line, 1 + n), n) = Screen(Prompt \o line, 1 + 0)
  <2> DEFINE k == 1 + n
  <2>1. k \in Nat /\ n \in 0..k /\ k - n = 1 + 0
    BY <1>0
  <2> HIDE DEF k
  <2>2. Back(Screen(Prompt \o line, k), n) = Screen(Prompt \o line, k - n)
    BY <2>1, BackIs
  <2> QED BY <2>1, <2>2 DEF k
<1>7. Back(Put(Screen(Prompt \o line, 1 + 0), u), n) = Screen(Prompt \o none, 1 + 0)
  <2>1. ASSUME NEW i \in Nat \ {0}
        PROVE  Cell(none, i) = IF i > 0 /\ i <= 0 + Len(u) THEN Cell(u, i - 0) ELSE Cell(line, i)
    <3>1. i - 0 = i /\ 0 + Len(u) = n
      BY <1>11, <1>13
    <3>2. ~(i <= n) => i > Len(line)
      BY <1>0 DEF n
    <3>3. ~(i <= n) => Cell(line, i) = " "
      BY <3>2, LineCells
    <3>4. Cell(u, i) = " " /\ Cell(none, i) = " "
      BY <1>2, <1>4
    <3>5. i > 0
      OBVIOUS
    <3> QED BY <3>1, <3>3, <3>4, <3>5
  <2>2. Makes(line, 0, u, none)
    BY <2>1 DEF Makes
  <2>3. Len(u) \in Nat /\ 1 + 0 + Len(u) <= Width /\ 0 \in Nat /\ n \in 0..Len(u) /\ 1 + 0 + Len(u) - n = 1 + 0
    BY <1>11, <1>13
  <2>4. none \in Lines
    BY <1>4
  <2>5. Back(Put(Screen(Prompt \o line, 1 + 0), u), n) = Screen(Prompt \o none, 1 + 0 + Len(u) - n)
    BY <1>0, <2>2, <2>3, <2>4, Edited
  <2> QED BY <2>3, <2>5
<1>8. Put(Screen(Prompt \o none, 1 + 0), new) = Screen(Prompt \o new, 1 + Len(new))
  <2>1. ASSUME NEW i \in Nat \ {0}
        PROVE  Cell(new, i) = IF i > 0 /\ i <= 0 + Len(new) THEN Cell(new, i - 0) ELSE Cell(none, i)
    <3>1. i - 0 = i /\ 0 + Len(new) = Len(new)
      BY <1>0
    <3>2. ~(i <= Len(new)) => i > Len(new)
      BY <1>12
    <3>3. ~(i <= Len(new)) => Cell(new, i) = " "
      BY <1>0, <3>2, CellBlank
    <3>4. Cell(none, i) = " "
      BY <1>4
    <3>5. i > 0
      OBVIOUS
    <3> QED BY <3>1, <3>3, <3>4, <3>5
  <2>2. Makes(none, 0, new, new)
    BY <2>1 DEF Makes
  <2>3. 1 + 0 + Len(new) <= Width /\ 0 \in Nat /\ 1 + 0 + Len(new) = 1 + Len(new)
    BY <1>0
  <2>4. none \in Lines
    BY <1>4
  <2>5. Put(Screen(Prompt \o none, 1 + 0), new) = Screen(Prompt \o new, 1 + 0 + Len(new))
    BY <1>0, <2>2, <2>3, <2>4, Written
  <2> QED BY <2>3, <2>5
<1>9. LineShown => tty' = Screen(Prompt \o new, 1 + Len(new))
  BY <1>1, <1>5, <1>6, <1>7, <1>8 DEF LineShown
<1>10. Len(new) \in 0..Len(new)
  BY <1>0
<1> QED BY <1>1, <1>9, <1>10

LEMMA ReprintShown ==
  ASSUME TypeOK, Reprint
  PROVE  line' \in Lines /\ cursor' \in 0..Len(line') /\ tty' = Screen(Prompt \o line', 1 + cursor')
<1>1. line' = line /\ cursor' = Len(line) /\ tty' = Put(NewLine, Prompt \o line)
  BY DEF Reprint
<1>2. line \in Lines /\ Len(line) \in 0..Len(line)
  BY LineIs
<1> QED BY <1>1, <1>2, Reprinted

LEMMA CompletesShown ==
  ASSUME TypeOK, NEW new \in Lines, Completes(new)
  PROVE  LineShown => Put(tty, SubSeq(new, Len(line) + 1, Len(new))) = Screen(Prompt \o new, 1 + Len(new))
<1> DEFINE n == Len(line)
           u == SubSeq(new, n + 1, Len(new))
<1>0. /\ n \in Nat /\ line \in Lines /\ MaxLine \in Nat /\ Width \in Nat /\ MaxLine + 2 <= Width
      /\ new \in Seq(Chars) /\ Len(new) \in Nat /\ Len(new) <= MaxLine
  BY LineIs, LinesAre
<1>1. cursor = n /\ n \in 0..Len(new) /\ SubSeq(new, 1, n) = line
  BY <1>0 DEF Completes
<1>2. Len(u) = Len(new) - n
  BY <1>0, <1>1, Cut
<1>3. \A i \in Nat \ {0} : Cell(u, i) = Cell(new, n + i) /\ (i <= n => Cell(line, i) = Cell(new, i))
  <2> SUFFICES ASSUME NEW i \in Nat \ {0} PROVE Cell(u, i) = Cell(new, n + i) /\ (i <= n => Cell(line, i) = Cell(new, i))
    OBVIOUS
  <2>1. Cell(SubSeq(new, 1, n), i) = (IF i <= n THEN Cell(new, i) ELSE " ") /\ Cell(u, i) = Cell(new, n + i)
    BY <1>0, <1>1, CellCut
  <2> QED BY <1>1, <2>1
<1> HIDE DEF n, u
<1>4. ASSUME NEW i \in Nat \ {0}
      PROVE  Cell(new, i) = IF i > n /\ i <= n + Len(u) THEN Cell(u, i - n) ELSE Cell(line, i)
  <2>1. CASE i <= n
    <3>1. ~(i > n)
      BY <1>0, <2>1
    <3> QED BY <1>3, <2>1, <3>1
  <2>2. CASE i > n
    <3>1. i - n \in Nat \ {0} /\ n + (i - n) = i
      BY <1>0, <2>2
    <3>2. Cell(u, i - n) = Cell(new, i)
      BY <1>3, <3>1
    <3>3. ~(i <= n + Len(u)) => i > Len(new) /\ i > Len(line)
      BY <1>0, <1>1, <1>2, <2>2 DEF n
    <3>4. ~(i <= n + Len(u)) => Cell(new, i) = " " /\ Cell(line, i) = " "
      BY <1>0, <3>3, CellBlank, LineCells
    <3> QED BY <2>2, <3>2, <3>4
  <2> QED BY <1>0, <2>1, <2>2
<1>5. Makes(line, n, u, new)
  BY <1>4 DEF Makes
<1>6. Len(u) \in Nat /\ 1 + n + Len(u) <= Width /\ 1 + n + Len(u) = 1 + Len(new)
  BY <1>0, <1>1, <1>2
<1>7. Put(Screen(Prompt \o line, 1 + n), u) = Screen(Prompt \o new, 1 + n + Len(u))
  BY <1>0, <1>5, <1>6, Written
<1> QED BY <1>1, <1>6, <1>7 DEF LineShown, n, u

-----------------------------------------------------------------------------
(* The parts of the type invariant.                                        *)

EditTyped == /\ tty \in Ttys /\ line \in Lines /\ cursor \in 0..Len(line)
             /\ ignoreLf \in BOOLEAN /\ afterCr \in BOOLEAN
RunTyped == /\ state \in {"idle", "running", "more", "prompt_line", "prompt_key", "closed"}
            /\ gen \in Seq(Items) /\ pending \in [lines : 0..(MaxOutput + 1), piece : BOOLEAN]
            /\ page \in Nat /\ unseen \in Nat /\ midline \in BOOLEAN
AskTyped == asked \in Questions \cup {NoQuestion} /\ typed \in Lines
HistTyped == history \in Seq(Lines) /\ Len(history) <= histMax /\ histMax \in 0..MaxHistory
NavTyped == index \in 0..MaxHistory /\ stash \in {<<>>} \cup {<<l>> : l \in Lines}
ShellTyped == /\ stack \in Seq(Modes) /\ Len(stack) \in 1..MaxDepth
              /\ privilege \in {1, 15} /\ length \in PageLengths
              /\ syslog \in Nat /\ closed \in BOOLEAN
MarksTyped == torn \in BOOLEAN /\ mixed \in BOOLEAN

LEMMA Types ==
  TypeOK <=> EditTyped /\ RunTyped /\ AskTyped /\ HistTyped /\ NavTyped /\ ShellTyped /\ MarksTyped
  BY Zenon DEF TypeOK, Ttys, EditTyped, RunTyped, AskTyped, HistTyped, NavTyped, ShellTyped, MarksTyped

LEMMA TypesNext ==
  EditTyped' /\ RunTyped' /\ AskTyped' /\ HistTyped' /\ NavTyped' /\ ShellTyped' /\ MarksTyped' => TypeOK'
  BY Zenon DEF TypeOK, Ttys, EditTyped, RunTyped, AskTyped, HistTyped, NavTyped, ShellTyped, MarksTyped

LEMMA TypesKept ==
  /\ UNCHANGED <<tty, edit, ignoreLf, afterCr>> /\ EditTyped => EditTyped'
  /\ UNCHANGED <<state, run, unseen>> /\ RunTyped => RunTyped'
  /\ UNCHANGED ask /\ AskTyped => AskTyped'
  /\ UNCHANGED hist /\ HistTyped => HistTyped'
  /\ UNCHANGED nav /\ NavTyped => NavTyped'
  /\ UNCHANGED shell /\ ShellTyped => ShellTyped'
  /\ UNCHANGED <<torn, mixed>> /\ MarksTyped => MarksTyped'
  BY Zenon DEF EditTyped, RunTyped, AskTyped, HistTyped, NavTyped, ShellTyped, MarksTyped,
     edit, run, ask, hist, nav, shell

-----------------------------------------------------------------------------
(* What a command has still to yield.                                      *)

LEMMA CommandSame ==
  ASSUME Command, UNCHANGED <<gen, pending, stack>>, unseen' \in {unseen, 0},
         state' \in {"running", "more"} \/ pending = Nothing
  PROVE  Command'
  BY DEF Command, ItemFits, Deepens

LEMMA CommandOver ==
  ASSUME gen' = <<>>, pending' = Nothing
  PROVE  Command'
<1>1. 1..Len(gen') = {}
  BY Len(<<>>) = 0
<1>2. ~pending'.piece
  BY DEF Nothing
<1> QED BY <1>1, <1>2 DEF Command, ItemFits, Deepens

LEMMA CommandNext ==
  ASSUME gen \in Seq(Items), gen # <<>>, Command, gen' = Tail(gen), unseen' = unseen,
         gen[1].kind = "do" => pending' = Nothing,
         gen[1] = Do("parent") => Len(stack') < MaxDepth,
         pending'.piece => Len(gen) = 1,
         state' \in {"running", "more"} \/ pending' = Nothing
  PROVE  Command'
<1>1. /\ Len(gen) \in Nat /\ Len(gen) >= 1 /\ Len(gen') = Len(gen) - 1
      /\ \A i \in 1..Len(gen') : gen'[i] = gen[i + 1]
  BY HeadTailProperties
<1>2. ASSUME NEW i \in 1..Len(gen') PROVE i + 1 \in 1..Len(gen) /\ ItemFits(gen, i + 1) /\ gen'[i] = gen[i + 1]
  <2>1. i + 1 \in 1..Len(gen)
    BY <1>1
  <2> QED BY <1>1, <2>1 DEF Command
<1>3. ASSUME NEW i \in 1..Len(gen') PROVE ItemFits(gen', i)
  <2>1. (gen'[i].kind = "out" /\ gen'[i].piece) => i = Len(gen')
    <3>1. (gen'[i].kind = "out" /\ gen'[i].piece) => i + 1 = Len(gen)
      BY <1>2 DEF ItemFits
    <3> QED BY <1>1, <3>1
  <2>2. gen'[i].kind = "length" => \A j \in 1..(i - 1) : gen'[j].kind = "do"
    <3> SUFFICES ASSUME gen'[i].kind = "length", NEW j \in 1..(i - 1) PROVE gen'[j].kind = "do"
      OBVIOUS
    <3>1. j + 1 \in 1..((i + 1) - 1) /\ j \in 1..Len(gen')
      BY <1>1
    <3>2. gen[j + 1].kind = "do"
      BY <1>2, <3>1 DEF ItemFits
    <3> QED BY <1>2, <3>1, <3>2
  <2>3. Deepens(gen'[i]) => i = 1
    <3>1. Deepens(gen[i + 1]) => i + 1 = 1 \/ i + 1 = 2
      BY <1>2 DEF ItemFits
    <3> QED BY <1>2, <3>1
  <2> QED BY <2>1, <2>2, <2>3 DEF ItemFits
<1>4. ASSUME NEW i \in 1..Len(gen'), gen'[i].kind = "length" PROVE unseen' = 0 /\ pending' = Nothing
  <2>1. unseen = 0
    BY <1>2, <1>4 DEF Command
  <2>2. 1 \in 1..((i + 1) - 1)
    OBVIOUS
  <2>3. gen[1].kind = "do"
    BY <1>2, <1>4, <2>2 DEF ItemFits
  <2> QED BY <2>1, <2>3
<1>5. gen' # <<>> /\ Deepens(gen'[1]) => Len(stack') < MaxDepth
  <2> SUFFICES ASSUME gen' # <<>>, Deepens(gen'[1]) PROVE gen[1] = Do("parent")
    OBVIOUS
  <2>1. gen' \in Seq(Items)
    BY HeadTailProperties
  <2>2. 1 \in 1..Len(gen')
    BY <2>1, EmptySeq, SeqDef
  <2>3. Deepens(gen[1 + 1]) /\ ItemFits(gen, 1 + 1)
    BY <1>2, <2>2
  <2> QED BY <2>3 DEF ItemFits
<1>6. pending'.piece => gen' = <<>>
  <2>1. Len(gen) = 1 => Len(gen') = 0
    BY <1>1
  <2>2. gen' \in Seq(Items)
    BY HeadTailProperties
  <2> QED BY <2>1, <2>2, EmptySeq
<1> QED BY <1>3, <1>4, <1>5, <1>6 DEF Command, ItemFits

-----------------------------------------------------------------------------
(* The scripts of a line.                                                  *)

LastItem(item) == item.kind = "out" /\ item.piece

\* A script that does not leave the submode first.
Plain(s) ==
  /\ s \in Seq(Items)
  /\ \A i \in 1..Len(s) :
       /\ LastItem(s[i]) => i = Len(s)
       /\ s[i].kind = "length" => \A j \in 1..(i - 1) : s[j].kind = "do"
       /\ Deepens(s[i]) => i = 1

Fine(s) == s \in Seq(Items) /\ \A i \in 1..Len(s) : ItemFits(s, i)

LEMMA PlainFine == ASSUME NEW s, Plain(s) PROVE Fine(s)
  BY DEF Plain, Fine, ItemFits, LastItem

LEMMA ParentFine == ASSUME NEW s, Plain(s) PROVE Fine(<<Do("parent")>> \o s)
<1> DEFINE u == <<Do("parent")>>
           t == u \o s
<1>1. Do("parent") \in Items /\ Do("parent").kind = "do"
  BY DEF Do, Items
<1>2. u \in Seq(Items) /\ Len(u) = 1 /\ u[1] = Do("parent")
  BY <1>1
<1>3. s \in Seq(Items) /\ Len(s) \in Nat
  BY DEF Plain
<1> HIDE DEF u
<1>9. u \in Seq(Items) /\ Len(u) = 1
  BY <1>2
<1>10. /\ t \in Seq(Items) /\ Len(t) = Len(u) + Len(s)
       /\ \A i \in 1..(Len(u) + Len(s)) : t[i] = IF i <= Len(u) THEN u[i] ELSE s[i - Len(u)]
  BY <1>3, <1>9, ConcatProperties
<1>4. /\ t \in Seq(Items) /\ Len(t) = 1 + Len(s)
      /\ \A i \in 1..(1 + Len(s)) : t[i] = IF i <= 1 THEN u[i] ELSE s[i - 1]
  BY <1>9, <1>10
<1> HIDE DEF t
<1>5. t[1] = Do("parent")
  <2>1. 1 \in 1..(1 + Len(s)) /\ 1 <= 1
    BY <1>3
  <2> QED BY <1>2, <1>4, <2>1
<1>6. ASSUME NEW i \in 1..Len(t), i # 1
      PROVE  i - 1 \in 1..Len(s) /\ t[i] = s[i - 1]
  <2>1. i \in 1..(1 + Len(s)) /\ ~(i <= 1) /\ i - 1 \in 1..Len(s)
    BY <1>3, <1>4, <1>6
  <2> QED BY <1>4, <2>1
<1>7. ~LastItem(Do("parent")) /\ Do("parent").kind # "length" /\ ~Deepens(Do("parent"))
  BY DEF LastItem, Do, Deepens
<1>8. ASSUME NEW i \in 1..Len(t) PROVE ItemFits(t, i)
  <2>1. CASE i = 1
    BY <1>5, <1>7, <2>1 DEF ItemFits, LastItem
  <2>2. CASE i # 1
    <3>1. i - 1 \in 1..Len(s) /\ t[i] = s[i - 1]
      BY <1>6, <2>2
    <3>2. LastItem(t[i]) => i = Len(t)
      <4>1. LastItem(s[i - 1]) => i - 1 = Len(s)
        BY <3>1 DEF Plain
      <4> QED BY <1>3, <1>4, <3>1, <4>1
    <3>3. t[i].kind = "length" => \A j \in 1..(i - 1) : t[j].kind = "do"
      <4> SUFFICES ASSUME t[i].kind = "length", NEW j \in 1..(i - 1) PROVE t[j].kind = "do"
        OBVIOUS
      <4>1. CASE j = 1
        BY <1>1, <1>5, <4>1
      <4>2. CASE j # 1
        <5>1. j \in 1..Len(t) /\ j - 1 \in 1..((i - 1) - 1)
          BY <4>2
        <5>2. t[j] = s[j - 1]
          BY <1>6, <4>2, <5>1
        <5>3. s[j - 1].kind = "do"
          BY <3>1, <5>1 DEF Plain
        <5> QED BY <5>2, <5>3
      <4> QED BY <4>1, <4>2
    <3>4. Deepens(t[i]) => i = 2
      <4>1. Deepens(s[i - 1]) => i - 1 = 1
        BY <3>1 DEF Plain
      <4> QED BY <3>1, <4>1
    <3> QED BY <1>5, <3>2, <3>3, <3>4 DEF ItemFits, LastItem
  <2> QED BY <2>1, <2>2
<1> QED BY <1>4, <1>8 DEF Fine, t, u

LEMMA PlainNone == Plain(<<>>)
  BY DEF Plain

LEMMA PlainOne == ASSUME NEW x \in Items PROVE Plain(<<x>>)
<1> DEFINE s == <<x>>
<1>1. s \in Seq(Items) /\ Len(s) = 1
  OBVIOUS
<1> HIDE DEF s
<1>2. \A i \in 1..Len(s) : i = 1 /\ i = Len(s) /\ 1..(i - 1) = {}
  BY <1>1
<1>3. Plain(s)
  BY <1>1, <1>2 DEF Plain
<1> QED BY <1>3 DEF s

LEMMA PlainTwo ==
  ASSUME NEW x \in Items, NEW y \in Items, ~LastItem(x), y.kind # "length", ~Deepens(y)
  PROVE  Plain(<<x, y>>)
<1> DEFINE s == <<x, y>>
<1>1. s \in Seq(Items) /\ Len(s) = 2 /\ s[1] = x /\ s[2] = y
  OBVIOUS
<1> HIDE DEF s
<1>2. \A i \in 1..Len(s) : (i = 1 /\ 1..(i - 1) = {}) \/ (i = 2 /\ i = Len(s))
  BY <1>1
<1>3. Plain(s)
  BY <1>1, <1>2 DEF Plain
<1> QED BY <1>3 DEF s

LEMMA ItemsAre ==
  /\ \A n \in 0..(MaxOutput + 1), piece \in BOOLEAN : Out(n, piece) \in Items
  /\ \A q \in Questions : Ask(q) \in Items /\ ~LastItem(Ask(q)) /\ ~Deepens(Ask(q)) /\ Ask(q).kind # "length"
  /\ \A w \in {"enable", "disable", "exit", "logout", "configure", "submode", "parent", "end"} :
        Do(w) \in Items /\ ~LastItem(Do(w)) /\ Do(w).kind # "length"
  /\ ~Deepens(Do("enable"))
  /\ \A n \in PageLengths : SetLength(n) \in Items
  /\ \A n \in 0..MaxHistory : SetHistory(n) \in Items
<1>1. \A n \in 0..(MaxOutput + 1), piece \in BOOLEAN : Out(n, piece) \in Items
  BY DEF Out, Items
<1>2. ASSUME NEW q \in Questions PROVE Ask(q) \in Items /\ ~LastItem(Ask(q)) /\ ~Deepens(Ask(q)) /\ Ask(q).kind # "length"
  <2>1. Ask(q).kind = "ask" /\ Ask(q) \in Items
    BY DEF Ask, Items
  <2>2. Do("configure").kind = "do" /\ Do("submode").kind = "do"
    BY DEF Do
  <2> HIDE DEF Do, Ask
  <2> QED BY <2>1, <2>2 DEF LastItem, Deepens
<1>3. ASSUME NEW w \in {"enable", "disable", "exit", "logout", "configure", "submode", "parent", "end"}
      PROVE  Do(w) \in Items /\ ~LastItem(Do(w)) /\ Do(w).kind # "length"
  BY DEF Do, Items, LastItem
<1>4. ~Deepens(Do("enable"))
  BY DEF Do, Deepens
<1>5. \A n \in PageLengths : SetLength(n) \in Items
  BY DEF SetLength, Items
<1>6. \A n \in 0..MaxHistory : SetHistory(n) \in Items
  BY DEF SetHistory, Items
<1> QED BY <1>1, <1>2, <1>3, <1>4, <1>5, <1>6

LEMMA OutIs ==
  /\ \A n, piece : Out(n, piece).kind = "out" /\ Out(n, piece).piece = piece
  /\ \A n, piece : ~Deepens(Out(n, piece)) /\ Out(n, piece).kind # "length"
  /\ \A n : ~LastItem(Out(n, FALSE))
<1>1. ASSUME NEW n, NEW piece PROVE Out(n, piece).kind = "out" /\ Out(n, piece).piece = piece
  BY DEF Out
<1>2. Do("configure").kind = "do" /\ Do("submode").kind = "do"
  BY DEF Do
<1> HIDE DEF Do, Out
<1> QED BY <1>1, <1>2 DEF LastItem, Deepens

LEMMA PlainShown == ASSUME NEW s \in Shown PROVE Plain(s)
<1>1. MaxOutput \in Nat
  BY BoundsAssumption
<1> DEFINE single == {<<Out(n, piece)>> : n \in 0..MaxOutput, piece \in BOOLEAN}
           double == {<<Out(n, FALSE), Out(MaxOutput, TRUE)>> : n \in 0..MaxOutput}
<1>2. Shown = single \cup double
  BY DEF Shown
<1> HIDE DEF single, double
<1>3. CASE s \in single
  <2>1. PICK n \in 0..MaxOutput, piece \in BOOLEAN : s = <<Out(n, piece)>>
    BY <1>3 DEF single
  <2>2. n \in 0..(MaxOutput + 1)
    BY <1>1
  <2>3. Out(n, piece) \in Items
    BY <2>2, ItemsAre
  <2> QED BY <2>1, <2>3, PlainOne
<1>4. CASE s \in double
  <2>1. PICK n \in 0..MaxOutput : s = <<Out(n, FALSE), Out(MaxOutput, TRUE)>>
    BY <1>4 DEF double
  <2>2. n \in 0..(MaxOutput + 1) /\ MaxOutput \in 0..(MaxOutput + 1)
    BY <1>1
  <2>3. Out(n, FALSE) \in Items /\ Out(MaxOutput, TRUE) \in Items
    BY <2>2, ItemsAre
  <2> QED BY <2>1, <2>3, OutIs, PlainTwo
<1> QED BY <1>2, <1>3, <1>4

LEMMA PlainExec == ASSUME NEW p, NEW s \in Exec(p) PROVE Plain(s)
<1>1. Error \in Items /\ Out(1, TRUE) \in Items
  <2>1. 0 \in 0..(MaxOutput + 1) /\ 1 \in 0..(MaxOutput + 1)
    BY BoundsAssumption
  <2> QED BY <2>1, ItemsAre DEF Error
<1>2. ~Deepens(Error) /\ Error.kind # "length"
  BY OutIs DEF Error
<1>3. Password \in Questions /\ Filename \in Questions /\ Confirm \in Questions
  BY DEF Questions
<1>4. CASE s \in Shown
  BY <1>4, PlainShown
<1>5. CASE s \in {<<>>, <<Do("disable")>>, <<Do("exit")>>, <<Do("logout")>>}
  BY <1>5, PlainNone, PlainOne, ItemsAre
<1>6. CASE s \in {<<SetLength(n)>> : n \in PageLengths} \cup {<<SetHistory(n)>> : n \in 0..MaxHistory}
  BY <1>6, PlainOne, ItemsAre
<1>7. CASE s \in {<<Do("configure"), Error>>, <<Ask(Filename), Out(1, TRUE)>>, <<Ask(Confirm), Out(1, TRUE)>>}
  <2>1. Do("configure") \in Items /\ ~LastItem(Do("configure"))
    BY ItemsAre
  <2>2. Ask(Filename) \in Items /\ ~LastItem(Ask(Filename)) /\ Ask(Confirm) \in Items /\ ~LastItem(Ask(Confirm))
    BY <1>3, ItemsAre
  <2>3. ~Deepens(Out(1, TRUE)) /\ Out(1, TRUE).kind # "length"
    BY OutIs
  <2> QED BY <1>1, <1>2, <1>7, <2>1, <2>2, <2>3, PlainTwo
<1>8. CASE s \in {<<Do("enable")>>, <<Ask(Password), Do("enable")>>, <<Ask(Password), Error>>}
  <2>1. Do("enable") \in Items /\ Do("enable").kind # "length" /\ ~Deepens(Do("enable"))
    BY ItemsAre
  <2>2. Ask(Password) \in Items /\ ~LastItem(Ask(Password))
    BY <1>3, ItemsAre
  <2> QED BY <1>1, <1>2, <1>8, <2>1, <2>2, PlainOne, PlainTwo
<1> QED BY <1>4, <1>5, <1>6, <1>7, <1>8 DEF Exec

LEMMA PlainConfigure == ASSUME NEW s \in Configure PROVE Plain(s)
<1>1. BannerText \in Questions /\ BannerMore \in Questions
  BY DEF Questions
<1>2. /\ Ask(BannerText) \in Items /\ ~LastItem(Ask(BannerText))
      /\ Ask(BannerMore) \in Items /\ ~Deepens(Ask(BannerMore)) /\ Ask(BannerMore).kind # "length"
  BY <1>1, ItemsAre
<1>3. Do("submode") \in Items
  BY ItemsAre
<1> QED BY <1>2, <1>3, PlainOne, PlainTwo DEF Configure

LEMMA PlainLeave == ASSUME NEW s \in Leave PROVE Plain(s)
<1>1. Error \in Items
  <2>1. 0 \in 0..(MaxOutput + 1)
    BY BoundsAssumption
  <2> QED BY <2>1, ItemsAre DEF Error
<1>2. Do("exit") \in Items /\ Do("end") \in Items
  BY ItemsAre
<1> QED BY <1>1, <1>2, PlainNone, PlainOne DEF Leave

LEMMA ScriptsFine == ASSUME NEW mode \in Modes, NEW p, NEW s \in Scripts(mode, p) PROVE Fine(s)
<1>1. CASE mode = "exec"
  BY <1>1, PlainExec, PlainFine DEF Scripts
<1>2. CASE mode = "config"
  <2>1. s \in Leave \cup Configure \cup Exec(15)
    BY <1>2 DEF Scripts
  <2> QED BY <2>1, PlainLeave, PlainConfigure, PlainExec, PlainFine
<1>3. CASE mode = "submode"
  <2>1. s \in Leave \/ s \in Exec(15) \/ \E t \in Configure \cup Exec(15) : s = <<Do("parent")>> \o t
    BY <1>3 DEF Scripts
  <2> QED BY <2>1, PlainLeave, PlainConfigure, PlainExec, PlainFine, ParentFine
<1> QED BY <1>1, <1>2, <1>3 DEF Modes

-----------------------------------------------------------------------------
(* The keys of the line editor.                                            *)

EditTtys ==
  /\ tty' \in Ttys
  /\ line' \in Lines /\ cursor' \in 0..Len(line')
  /\ LineShown => tty' = Screen(Prompt \o line', 1 + cursor')

LEMMA LineCharacters ==
  ASSUME TypeOK
  PROVE  /\ tty \in Ttys /\ After \in Seq(Chars) /\ After \in Seq(Cells)
         /\ cursor \in Nat /\ Len(line) \in Nat /\ Len(After) \in Nat
         /\ \A n \in Nat : Blanks(n) \in Seq(Chars) /\ Blanks(n) \in Seq(Cells)
<1>1. tty \in Ttys
  BY Types DEF EditTyped
<1>2. After \in Seq(Chars) /\ Len(After) \in Nat /\ cursor \in Nat /\ Len(line) \in Nat
  BY LineIs
<1>3. \A n \in Nat : Blanks(n) \in Seq(Chars)
  BY BlankChars
<1> QED BY <1>1, <1>2, <1>3, CharCells

LEMMA InsertEdits == ASSUME TypeOK, NEW ch \in Chars, Insert(ch) PROVE EditTtys
<1>1. <<ch>> \in Seq(Chars)
  OBVIOUS
<1>2. <<ch>> \o After \in Seq(Chars)
  BY <1>1, LineCharacters, CharsJoined
<1>3. Put(tty, <<ch>> \o After) \in Ttys
  BY <1>2, CharCells, LineCharacters, PutTyped
<1>4. tty' = Back(Put(tty, <<ch>> \o After), Len(After))
  BY DEF Insert
<1>5. tty' \in Ttys
  BY <1>3, <1>4, LineCharacters, BackTyped
<1> QED BY <1>5, InsertShown DEF EditTtys

LEMMA EraseEdits == ASSUME TypeOK, NEW count \in Nat, EraseLeft(count) PROVE EditTtys
<1> DEFINE n == Least(count, cursor)
<1>1. n \in Nat
  BY LineCharacters DEF Least
<1>2. tty' = Back(Put(Back(tty, n), After \o Blanks(n)), Len(After) + n)
  BY DEF EraseLeft
<1> HIDE DEF n
<1>3. After \o Blanks(n) \in Seq(Chars)
  BY <1>1, LineCharacters, CharsJoined
<1>4. Back(tty, n) \in Ttys
  BY <1>1, LineCharacters, BackTyped
<1>5. Put(Back(tty, n), After \o Blanks(n)) \in Ttys
  BY <1>3, <1>4, CharCells, PutTyped
<1>6. Len(After) + n \in Nat
  BY <1>1, LineCharacters
<1>7. tty' \in Ttys
  BY <1>2, <1>5, <1>6, BackTyped
<1> QED BY <1>7, EraseShown DEF EditTtys

LEMMA DeleteEdits == ASSUME TypeOK, DeleteAt PROVE EditTtys
<1>1. After # <<>>
  <2>1. cursor < Len(line) /\ Len(After) = Len(line) - cursor /\ cursor \in Nat /\ Len(line) \in Nat
    BY LineIs DEF DeleteAt
  <2>2. Len(After) # 0
    BY <2>1
  <2> QED BY <2>2, EmptySeq
<1>2. Tail(After) \in Seq(Chars)
  BY <1>1, LineCharacters, HeadTailProperties
<1>3. <<" ">> \in Seq(Chars)
  BY DEF Chars
<1>4. Tail(After) \o <<" ">> \in Seq(Chars)
  BY <1>2, <1>3, CharsJoined
<1>5. Put(tty, Tail(After) \o <<" ">>) \in Ttys
  BY <1>4, CharCells, LineCharacters, PutTyped
<1>6. tty' = Back(Put(tty, Tail(After) \o <<" ">>), Len(After))
  BY DEF DeleteAt
<1>7. tty' \in Ttys
  BY <1>5, <1>6, LineCharacters, BackTyped
<1> QED BY <1>7, DeleteShown DEF EditTtys

LEMMA KillEdits == ASSUME TypeOK, KillToEnd PROVE EditTtys
<1>1. tty' = Back(Put(tty, Blanks(Len(After))), Len(After))
  BY DEF KillToEnd
<1>2. tty' \in Ttys
  BY <1>1, LineCharacters, PutTyped, BackTyped
<1> QED BY <1>2, KillShown DEF EditTtys

LEMMA MovesEdits == ASSUME TypeOK, MoveLeft \/ MoveRight \/ MoveHome \/ MoveEnd PROVE EditTtys
<1>1. CASE MoveLeft
  <2>1. tty' = Back(tty, 1)
    BY <1>1 DEF MoveLeft
  <2> QED BY <2>1, LineCharacters, BackTyped, MovesShown DEF EditTtys
<1>2. CASE MoveRight
  <2>1. tty' = Put(tty, <<line[cursor + 1]>>) /\ cursor < Len(line)
    BY <1>2 DEF MoveRight
  <2>2. cursor + 1 \in 1..Len(line)
    BY <2>1, LineNumbers
  <2>3. line[cursor + 1] \in Chars
    BY <2>2, LineIs, ElementOfSeq
  <2>4. <<line[cursor + 1]>> \in Seq(Chars)
    BY <2>3
  <2>5. tty' \in Ttys
    BY <2>1, <2>4, CharCells, LineCharacters, PutTyped
  <2> QED BY <2>5, MovesShown DEF EditTtys
<1>3. CASE MoveHome
  <2>1. tty' = Back(tty, cursor)
    BY <1>3 DEF MoveHome
  <2> QED BY <2>1, LineCharacters, BackTyped, MovesShown DEF EditTtys
<1>4. CASE MoveEnd
  <2>1. tty' = Put(tty, After)
    BY <1>4 DEF MoveEnd
  <2> QED BY <2>1, LineCharacters, PutTyped, MovesShown DEF EditTtys
<1> QED BY <1>1, <1>2, <1>3, <1>4

LEMMA ReplaceEdits == ASSUME TypeOK, NEW new \in Lines, ReplaceLine(new) PROVE EditTtys
<1> DEFINE n == Len(line)
           u == Blanks(n)
<1>1. tty' = Put(Back(Put(Back(Put(tty, After), n), u), n), new)
  BY DEF ReplaceLine
<1>2. n \in Nat /\ u \in Seq(Cells) /\ new \in Seq(Cells)
  BY LineCharacters, LinesAre, CharCells
<1> HIDE DEF n, u
<1>3. Back(Put(tty, After), n) \in Ttys
  BY <1>2, LineCharacters, PutTyped, BackTyped
<1>4. Back(Put(Back(Put(tty, After), n), u), n) \in Ttys
  BY <1>2, <1>3, PutTyped, BackTyped
<1>5. tty' \in Ttys
  BY <1>1, <1>2, <1>4, PutTyped
<1> QED BY <1>5, ReplaceShown DEF EditTtys

\* The prompt and a line fit in a row of cells.
LEMMA PromptCellsTyped == ASSUME NEW l \in Lines PROVE Prompt \o l \in Seq(Cells)
  BY PromptLine

LEMMA ReprintEdits ==
  ASSUME TypeOK, Reprint
  PROVE  EditTtys /\ tty' = Screen(Prompt \o line', 1 + cursor') /\ torn' = FALSE
<1>1. tty' = Put(NewLine, Prompt \o line) /\ torn' = FALSE
  BY DEF Reprint
<1>2. tty' \in Ttys
  BY <1>1, LineIs, PromptCellsTyped, NewLineTyped, PutTyped
<1> QED BY <1>1, <1>2, ReprintShown DEF EditTtys

LEMMA CompletesEdits ==
  ASSUME TypeOK, NEW new \in Lines, Completes(new), line' = new, cursor' = Len(new),
         tty' = Put(tty, SubSeq(new, Len(line) + 1, Len(new)))
  PROVE  EditTtys
<1>1. Len(line) \in 0..Len(new) /\ new \in Seq(Chars) /\ Len(new) \in Nat
  BY LineCharacters, LinesAre DEF Completes
<1>2. SubSeq(new, Len(line) + 1, Len(new)) \in Seq(Cells)
  BY <1>1, Cut, CharCells
<1>3. tty' \in Ttys
  BY <1>2, LineCharacters, PutTyped
<1>4. cursor' \in 0..Len(line')
  BY <1>1
<1> QED BY <1>3, <1>4, CompletesShown DEF EditTtys

-----------------------------------------------------------------------------
(* A key that leaves the console idle.                                     *)

LEMMA StaysIdle ==
  ASSUME IInv, Idle, UNCHANGED <<state, run, ask, hist, shell, unseen, mixed>>,
         EditTtys, ignoreLf' \in BOOLEAN, afterCr' \in BOOLEAN,
         NavTyped', index' <= Len(history), torn' \in BOOLEAN,
         ~torn' => LineShown \/ tty' = Screen(Prompt \o line', 1 + cursor')
  PROVE  IInv'
<1>1. state' = "idle"
  BY DEF Idle
<1>2. TypeOK'
  <2>1. EditTyped'
    BY DEF EditTtys, EditTyped
  <2>2. RunTyped' /\ AskTyped' /\ HistTyped' /\ ShellTyped'
    BY Types, TypesKept DEF IInv
  <2>3. MarksTyped'
    BY Types DEF IInv, MarksTyped
  <2> QED BY <2>1, <2>2, <2>3, TypesNext
<1>3. Command'
  <2>1. UNCHANGED <<gen, pending, stack>> /\ unseen' = unseen /\ pending = Nothing /\ Command
    BY DEF IInv, Idle, Command, run, shell
  <2> QED BY <2>1, CommandSame
<1>4. Navigable'
  BY DEF Navigable, hist
<1>5. AtPrompt'
  <2>1. Prompt' = Prompt
    BY DEF Prompt, shell
  <2>2. ~torn' => tty' = Screen(Prompt \o line', 1 + cursor')
    BY DEF EditTtys
  <2> QED BY <2>1, <2>2 DEF AtPrompt
<1>6. NoLine' /\ InCommand' /\ AtMore' /\ Asking'
  BY <1>1 DEF NoLine, InCommand, AtMore, Asking
<1>7. Counted'
  BY <1>1 DEF IInv, Counted, shell
<1> QED BY <1>2, <1>3, <1>4, <1>5, <1>6, <1>7 DEF IInv

LEMMA IdleIs == ASSUME IInv, Idle PROVE /\ TypeOK /\ NavTyped /\ index <= Len(history)
                                        /\ ignoreLf \in BOOLEAN /\ afterCr \in BOOLEAN /\ torn \in BOOLEAN
                                        /\ ~torn => LineShown
<1>1. TypeOK
  BY DEF IInv
<1>2. NavTyped /\ ignoreLf \in BOOLEAN /\ afterCr \in BOOLEAN /\ torn \in BOOLEAN
  BY <1>1, Types DEF EditTyped, MarksTyped
<1>3. index <= Len(history)
  BY DEF IInv, Idle, Navigable
<1>4. ~torn => LineShown
  BY DEF IInv, Idle, AtPrompt, LineShown
<1> QED BY <1>1, <1>2, <1>3, <1>4

LEMMA CharacterTyped ==
  ASSUME ignoreLf \in BOOLEAN, afterCr \in BOOLEAN
  PROVE  Control \/ KeyOrControl \/ Enter => ignoreLf' \in BOOLEAN /\ afterCr' \in BOOLEAN
  BY DEF Control, KeyOrControl, Enter, CarriageReturn, LineFeed

\* A key that edits the line.
LEMMA EditKeeps ==
  ASSUME IInv, Edits, EditTtys, Control \/ KeyOrControl
  PROVE  IInv'
<1>1. Idle /\ UNCHANGED <<state, run, ask, hist, shell, unseen, mixed>> /\ UNCHANGED nav /\ torn' = torn
  BY DEF Edits
<1>2. TypeOK /\ NavTyped /\ index <= Len(history) /\ ignoreLf \in BOOLEAN /\ afterCr \in BOOLEAN
      /\ torn \in BOOLEAN /\ (~torn => LineShown)
  BY <1>1, IdleIs
<1>3. ignoreLf' \in BOOLEAN /\ afterCr' \in BOOLEAN
  BY <1>2, CharacterTyped
<1>4. NavTyped'
  BY <1>1, <1>2, TypesKept
<1>5. index' <= Len(history)
  BY <1>1, <1>2 DEF nav
<1>6. torn' \in BOOLEAN /\ (~torn' => LineShown)
  BY <1>1, <1>2
<1> QED BY <1>1, <1>3, <1>4, <1>5, <1>6, StaysIdle

LEMMA EditorKeeps ==
  ASSUME IInv,
         \/ OtherKey \/ \E ch \in Chars : Insert(ch)
         \/ Backspace \/ EraseLine \/ KillWord \/ DeleteAt \/ KillToEnd
         \/ MoveLeft \/ MoveRight \/ MoveHome \/ MoveEnd
  PROVE  IInv'
<1>0. TypeOK
  BY DEF IInv
<1>1. CASE OtherKey
  <2>1. Edits /\ Control /\ tty' = tty /\ line' = line /\ cursor' = cursor
    BY <1>1 DEF OtherKey, edit
  <2>2. tty' \in Ttys /\ line' \in Lines /\ cursor' \in 0..Len(line')
    BY <1>0, <2>1, Types DEF EditTyped
  <2>3. LineShown => tty' = Screen(Prompt \o line', 1 + cursor')
    BY <2>1 DEF LineShown
  <2> QED BY <2>1, <2>2, <2>3, EditKeeps DEF EditTtys
<1>2. CASE \E ch \in Chars : Insert(ch)
  <2>1. PICK ch \in Chars : Insert(ch)
    BY <1>2
  <2>2. Edits /\ Control
    BY <2>1 DEF Insert
  <2> QED BY <1>0, <2>1, <2>2, InsertEdits, EditKeeps
<1>3. CASE Backspace \/ EraseLine \/ KillWord
  <2>1. Edits /\ Control /\ \E count \in Nat : EraseLeft(count)
    <3>1. 1 \in Nat /\ cursor \in Nat /\ cursor - WordStart \in Nat
      BY <1>0, LineNumbers, WordStartIs
    <3> QED BY <1>3, <3>1 DEF Backspace, EraseLine, KillWord
  <2> QED BY <1>0, <2>1, EraseEdits, EditKeeps
<1>4. CASE DeleteAt
  <2>1. Edits /\ KeyOrControl
    BY <1>4 DEF DeleteAt
  <2> QED BY <1>0, <1>4, <2>1, DeleteEdits, EditKeeps
<1>5. CASE KillToEnd
  <2>1. Edits /\ Control
    BY <1>5 DEF KillToEnd
  <2> QED BY <1>0, <1>5, <2>1, KillEdits, EditKeeps
<1>6. CASE MoveLeft \/ MoveRight \/ MoveHome \/ MoveEnd
  <2>1. Edits /\ KeyOrControl
    BY <1>6 DEF MoveLeft, MoveRight, MoveHome, MoveEnd, Moves
  <2> QED BY <1>0, <1>6, <2>1, MovesEdits, EditKeeps
<1> QED BY <1>1, <1>2, <1>3, <1>4, <1>5, <1>6

\* A key that prints the prompt and the line again.
LEMMA ReprintKeeps ==
  ASSUME IInv, Idle, Reprint, UNCHANGED <<state, run, ask, hist, shell, unseen, mixed>>,
         UNCHANGED nav, ignoreLf' \in BOOLEAN, afterCr' \in BOOLEAN
  PROVE  IInv'
<1>1. TypeOK /\ NavTyped /\ index <= Len(history)
  BY IdleIs
<1>2. EditTtys /\ tty' = Screen(Prompt \o line', 1 + cursor') /\ torn' \in BOOLEAN
  BY <1>1, ReprintEdits
<1>3. NavTyped' /\ index' <= Len(history)
  BY <1>1, TypesKept DEF nav
<1> QED BY <1>2, <1>3, StaysIdle

LEMMA TabHelpKeep == ASSUME IInv, TabKey \/ Help PROVE IInv'
<1>1. Idle /\ Control /\ UNCHANGED <<state, run, ask, hist, shell, unseen, mixed>> /\ UNCHANGED nav
  BY DEF TabKey, Help
<1>2. TypeOK /\ NavTyped /\ index <= Len(history) /\ ignoreLf \in BOOLEAN /\ afterCr \in BOOLEAN
      /\ torn \in BOOLEAN /\ (~torn => LineShown)
  BY <1>1, IdleIs
<1>3. ignoreLf' \in BOOLEAN /\ afterCr' \in BOOLEAN
  BY <1>1, <1>2, CharacterTyped
<1>4. CASE Reprint
  BY <1>1, <1>3, <1>4, ReprintKeeps
<1>5. CASE ~Reprint
  <2>1. PICK new \in Lines :
          /\ IF Completes(new)
             THEN /\ line' = new /\ cursor' = Len(new)
                  /\ tty' = Put(tty, SubSeq(new, Len(line) + 1, Len(new)))
             ELSE ReplaceLine(new)
          /\ UNCHANGED torn
    BY <1>5 DEF TabKey, Help
  <2>2. EditTtys
    BY <1>2, <2>1, CompletesEdits, ReplaceEdits
  <2>3. NavTyped' /\ index' <= Len(history)
    BY <1>1, <1>2, TypesKept DEF nav
  <2>4. torn' \in BOOLEAN /\ (~torn' => LineShown)
    BY <1>2, <2>1
  <2> QED BY <1>1, <1>3, <2>2, <2>3, <2>4, StaysIdle
<1> QED BY <1>4, <1>5

LEMMA HistoryKeeps == ASSUME IInv, HistoryPrev \/ HistoryNext PROVE IInv'
<1>1. Idle /\ KeyOrControl /\ UNCHANGED <<state, run, ask, hist, shell, unseen, mixed>> /\ torn' = torn
  BY DEF HistoryPrev, HistoryNext
<1>2. TypeOK /\ NavTyped /\ index <= Len(history) /\ ignoreLf \in BOOLEAN /\ afterCr \in BOOLEAN
      /\ torn \in BOOLEAN /\ (~torn => LineShown)
  BY <1>1, IdleIs
<1>3. ignoreLf' \in BOOLEAN /\ afterCr' \in BOOLEAN
  BY <1>1, <1>2, CharacterTyped
<1>4. /\ history \in Seq(Lines) /\ Len(history) \in Nat /\ Len(history) <= MaxHistory
      /\ index \in Nat /\ line \in Lines /\ tty \in Ttys /\ cursor \in 0..Len(line)
  <2>1. HistTyped /\ EditTyped
    BY <1>2, Types
  <2> QED BY <1>2, <2>1, BoundsAssumption DEF HistTyped, NavTyped, EditTyped
<1>5. stash \in {<<>>} \cup {<<l>> : l \in Lines}
  BY <1>2 DEF NavTyped
<1>6. EditTtys /\ index' \in 0..MaxHistory /\ index' <= Len(history)
      /\ stash' \in {<<>>} \cup {<<l>> : l \in Lines}
  <2>1. CASE HistoryPrev
    <3>1. stash' \in {<<>>} \cup {<<l>> : l \in Lines}
      <4>1. <<line>> \in {<<l>> : l \in Lines}
        BY <1>4
      <4> QED BY <1>5, <2>1, <4>1 DEF HistoryPrev
    <3>2. CASE index > 0 /\ index' = index - 1 /\ ReplaceLine(history[index])
      <4>3. index > 0 /\ index' = index - 1 /\ index \in Nat /\ Len(history) \in Nat
            /\ Len(history) <= MaxHistory /\ index <= Len(history) /\ MaxHistory \in Nat
        BY <1>2, <1>4, <3>2, BoundsAssumption
      <4>1. index \in 1..Len(history) /\ index' \in 0..MaxHistory /\ index' <= Len(history)
        BY <4>3
      <4>2. history[index] \in Lines
        BY <1>4, <4>1, ElementOfSeq
      <4> QED BY <1>2, <3>1, <3>2, <4>1, <4>2, ReplaceEdits
    <3>3. CASE index = 0 /\ UNCHANGED <<index, edit, tty>>
      <4>1. tty' = tty /\ line' = line /\ cursor' = cursor /\ index' = index
        BY <3>3 DEF edit
      <4>2. EditTtys
        BY <1>4, <4>1 DEF EditTtys, LineShown
      <4> QED BY <1>2, <3>1, <4>1, <4>2 DEF NavTyped
    <3> QED BY <2>1, <3>2, <3>3 DEF HistoryPrev
  <2>2. CASE HistoryNext
    <3>1. index < Len(history) /\ index' = index + 1
      BY <2>2 DEF HistoryNext
    <3>2. index' \in 0..MaxHistory /\ index' <= Len(history)
      BY <1>4, <3>1, BoundsAssumption
    <3>3. CASE ReplaceLine(IF stash = <<>> THEN <<>> ELSE stash[1]) /\ stash' = <<>>
      <4>1. (IF stash = <<>> THEN <<>> ELSE stash[1]) \in Lines
        <5>1. CASE stash = <<>>
          BY <5>1, EmptyLine
        <5>2. CASE stash # <<>>
          <6>1. PICK l \in Lines : stash = <<l>>
            BY <1>5, <5>2
          <6> QED BY <5>2, <6>1
        <5> QED BY <5>1, <5>2
      <4> QED BY <1>2, <3>2, <3>3, <4>1, ReplaceEdits
    <3>4. CASE index + 1 < Len(history) /\ ReplaceLine(history[index + 2]) /\ UNCHANGED stash
      <4>1. index + 2 \in 1..Len(history)
        BY <1>4, <3>4
      <4>2. history[index + 2] \in Lines
        BY <1>4, <4>1, ElementOfSeq
      <4> QED BY <1>2, <1>5, <3>2, <3>4, <4>2, ReplaceEdits
    <3> QED BY <2>2, <3>3, <3>4 DEF HistoryNext
  <2> QED BY <2>1, <2>2
<1>7. torn' \in BOOLEAN /\ (~torn' => LineShown)
  BY <1>1, <1>2
<1>8. NavTyped'
  BY <1>6 DEF NavTyped
<1> QED BY <1>1, <1>3, <1>6, <1>7, <1>8, StaysIdle

-----------------------------------------------------------------------------
(* A line is entered.                                                      *)

LEMMA KeepLastTyped ==
  ASSUME NEW h \in Seq(Lines), NEW n \in Nat
  PROVE  KeepLast(h, n) \in Seq(Lines) /\ Len(KeepLast(h, n)) <= n
<1>1. Len(h) \in Nat
  OBVIOUS
<1>2. CASE Len(h) > n
  <2>1. Len(h) - n \in 0..Len(h) /\ Len(h) - (Len(h) - n) = n
    BY <1>1, <1>2
  <2>2. SubSeq(h, (Len(h) - n) + 1, Len(h)) \in Seq(Lines) /\ Len(SubSeq(h, (Len(h) - n) + 1, Len(h))) = n
    BY <2>1, Cut
  <2> QED BY <1>2, <2>2 DEF KeepLast
<1>3. CASE ~(Len(h) > n)
  BY <1>1, <1>3 DEF KeepLast
<1> QED BY <1>2, <1>3

\* What a line does can be run: the bound on the mode stack is kept.
Runs(script) ==
  Fine(script) /\ (script # <<>> /\ Deepens(script[1]) => Len(stack) < MaxDepth)

LEMMA ScriptRuns ==
  ASSUME TypeOK, NEW s \in Scripts(Top(stack), privilege), Fits(s)
  PROVE  Runs(s)
<1>1. Top(stack) \in Modes
  <2>1. stack \in Seq(Modes) /\ Len(stack) \in 1..Len(stack)
    BY Types DEF ShellTyped
  <2> QED BY <2>1, ElementOfSeq DEF Top
<1>2. Fine(s)
  BY <1>1, ScriptsFine
<1>3. s # <<>> => Head(s) = s[1]
  BY <1>2 DEF Fine
<1> QED BY <1>2, <1>3 DEF Runs, Fits, Deepens

LEMMA ShortRuns == Runs(<<>>) /\ Runs(<<Do("end")>>)
<1>1. Runs(<<>>)
  BY PlainNone, PlainFine DEF Runs
<1>2. Do("end") \in Items
  BY ItemsAre
<1>3. Fine(<<Do("end")>>)
  BY <1>2, PlainOne, PlainFine
<1>4. ~Deepens(<<Do("end")>>[1])
  BY DEF Deepens, Do
<1> QED BY <1>1, <1>3, <1>4 DEF Runs

LEMMA BeginKeeps ==
  ASSUME IInv, Idle, NEW script, Begin(script), Runs(script),
         HistTyped', ResetNav(history'), ignoreLf' \in BOOLEAN, afterCr' \in BOOLEAN
  PROVE  IInv'
<1>1. TypeOK /\ Command
  BY DEF IInv
<1>2. /\ gen' = script /\ tty' = NewLine /\ midline' = FALSE /\ page' = 1 /\ torn' = FALSE
      /\ line' = <<>> /\ cursor' = 0 /\ state' = "running" /\ unseen' = 0 /\ pending' = pending
      /\ mixed' = mixed /\ UNCHANGED ask /\ UNCHANGED shell
  BY DEF Begin
<1>3. pending = Nothing
  BY <1>1 DEF Idle, Command
<1>4. EditTyped'
  <2>1. NewLine \in Ttys /\ <<>> \in Lines /\ 0 \in 0..Len(<<>>)
    <3>1. 0 \in 0..Len(<<>>)
      OBVIOUS
    <3>2. NewLine \in Ttys /\ <<>> \in Lines
      BY NewLineTyped, EmptyLine
    <3> QED BY <3>1, <3>2
  <2> QED BY <1>2, <2>1 DEF EditTyped
<1>5. RunTyped'
  <2>1. script \in Seq(Items)
    BY DEF Runs, Fine
  <2>2. pending \in [lines : 0..(MaxOutput + 1), piece : BOOLEAN]
    BY <1>1, Types DEF RunTyped
  <2> QED BY <1>2, <2>1, <2>2 DEF RunTyped
<1>6. AskTyped' /\ ShellTyped'
  BY <1>1, <1>2, Types, TypesKept
<1>7. NavTyped'
  <2>1. Len(history') \in 0..MaxHistory
    BY BoundsAssumption DEF HistTyped
  <2> QED BY <2>1 DEF ResetNav, NavTyped
<1>8. MarksTyped'
  BY <1>1, <1>2, Types DEF MarksTyped
<1>9. TypeOK'
  BY <1>4, <1>5, <1>6, <1>7, <1>8, TypesNext
<1>10. Command'
  <2>1. stack' = stack /\ ~pending'.piece /\ pending' = Nothing
    BY <1>2, <1>3 DEF shell, Nothing
  <2> QED BY <1>2, <2>1 DEF Command, Runs, Fine
<1>11. Navigable' /\ NoLine' /\ AtPrompt' /\ InCommand' /\ AtMore' /\ Asking'
  BY <1>2 DEF Navigable, NoLine, AtPrompt, InCommand, AtMore, Asking
<1>12. Counted'
  <2>1. length' \in Nat
    BY <1>6, BoundsAssumption DEF ShellTyped
  <2> QED BY <1>2, <2>1 DEF Counted
<1> QED BY <1>9, <1>10, <1>11, <1>12 DEF IInv

LEMMA SubmitKeeps == ASSUME IInv, SubmitLine \/ InterruptLine PROVE IInv'
<1>1. Idle
  BY DEF SubmitLine, InterruptLine
<1>2. TypeOK /\ ignoreLf \in BOOLEAN /\ afterCr \in BOOLEAN
  BY <1>1, IdleIs
<1>3. ignoreLf' \in BOOLEAN /\ afterCr' \in BOOLEAN
  BY <1>2, CharacterTyped DEF SubmitLine, InterruptLine
<1>4. history \in Seq(Lines) /\ Len(history) <= histMax /\ histMax \in 0..MaxHistory /\ histMax \in Nat /\ line \in Lines
  BY <1>2, Types, BoundsAssumption DEF HistTyped, EditTyped
<1>5. CASE SubmitLine
  <2> DEFINE h == IF Blank THEN history ELSE KeepLast(Append(history, line), histMax)
  <2>1. history' = h /\ histMax' = histMax /\ ResetNav(history')
    BY <1>5 DEF SubmitLine
  <2>2. h \in Seq(Lines) /\ Len(h) <= histMax
    <3>1. Append(history, line) \in Seq(Lines)
      BY <1>4
    <3> QED BY <1>4, <3>1, KeepLastTyped
  <2>3. HistTyped'
    BY <1>4, <2>1, <2>2 DEF HistTyped
  <2>4. \E s : Begin(s) /\ Runs(s)
    BY <1>2, <1>5, ScriptRuns, ShortRuns DEF SubmitLine
  <2> QED BY <1>1, <1>3, <2>1, <2>3, <2>4, BeginKeeps
<1>6. CASE InterruptLine
  <2>1. ResetNav(history) /\ UNCHANGED hist
    BY <1>6 DEF InterruptLine
  <2>2. HistTyped' /\ ResetNav(history')
    BY <1>2, <2>1, Types, TypesKept DEF hist
  <2>3. \E s : Begin(s) /\ Runs(s)
    BY <1>6, ShortRuns DEF InterruptLine
  <2> QED BY <1>1, <1>3, <2>2, <2>3, BeginKeeps
<1> QED BY <1>5, <1>6

-----------------------------------------------------------------------------
(* The pump.                                                               *)

\* What holds while a command runs.
LEMMA RunningIs ==
  ASSUME IInv, state = "running"
  PROVE  /\ TypeOK /\ Command /\ EditTyped /\ RunTyped /\ AskTyped /\ HistTyped /\ NavTyped /\ ShellTyped /\ MarksTyped
         /\ line = <<>> /\ cursor = 0
         /\ gen # <<>> \/ pending # Nothing => ~midline /\ ~torn /\ tty = NewLine
         /\ ~midline /\ ~torn => tty = NewLine
         /\ ~(midline /\ torn)
         /\ page \in Nat /\ unseen \in Nat /\ unseen <= page
         /\ length \in Nat /\ (length > 0 => unseen <= length)
         /\ (midline /\ length > 0 => unseen < length)
<1>1. TypeOK /\ Command
  BY DEF IInv
<1>2. EditTyped /\ RunTyped /\ AskTyped /\ HistTyped /\ NavTyped /\ ShellTyped /\ MarksTyped
  BY <1>1, Types
<1>3. line = <<>> /\ cursor = 0
  BY DEF IInv, NoLine
<1>4. /\ gen # <<>> \/ pending # Nothing => ~midline /\ ~torn /\ tty = NewLine
      /\ ~midline /\ ~torn => tty = NewLine
      /\ ~(midline /\ torn)
  BY <1>2 DEF IInv, InCommand, RunTyped, MarksTyped
<1>5. page \in Nat /\ unseen \in Nat /\ length \in Nat
  BY <1>2, BoundsAssumption DEF RunTyped, ShellTyped
<1>6. unseen <= page /\ (length > 0 => unseen <= length) /\ (midline /\ length > 0 => unseen < length)
  BY DEF IInv, Counted
<1> QED BY <1>1, <1>2, <1>3, <1>4, <1>5, <1>6

\* What is the same in every step of the pump.
LEMMA PumpingIs ==
  ASSUME IInv, Pumping
  PROVE  /\ state = "running" /\ line' = <<>> /\ cursor' = 0
         /\ tty' \in Ttys => EditTyped'
         /\ torn' = torn => MarksTyped'
         /\ mixed' = mixed
<1>1. state = "running" /\ line' = line /\ cursor' = cursor /\ ignoreLf' = ignoreLf /\ afterCr' = afterCr /\ mixed' = mixed
  BY DEF Pumping, edit
<1>2. line = <<>> /\ cursor = 0 /\ EditTyped /\ MarksTyped
  BY <1>1, RunningIs
<1> QED BY <1>1, <1>2 DEF EditTyped, MarksTyped

\* The invariant in a step to "running".
LEMMA ToRunning ==
  ASSUME TypeOK', Command', state' = "running", line' = <<>>, cursor' = 0,
         midline' \/ torn' => gen' = <<>> /\ pending' = Nothing,
         ~(midline' /\ torn'),
         ~midline' /\ ~torn' => tty' = NewLine,
         unseen' <= page', length' > 0 => unseen' <= length',
         midline' /\ length' > 0 => unseen' < length'
  PROVE  IInv'
  BY DEF IInv, Navigable, NoLine, AtPrompt, InCommand, AtMore, Asking, Counted

LEMMA DrainLineKeeps == ASSUME IInv, DrainLine PROVE IInv'
<1>1. /\ Pumping /\ pending.lines > 0 /\ ~PageFull
      /\ tty' = NewLine /\ midline' = FALSE /\ torn' = FALSE
      /\ page' = page + 1 /\ unseen' = unseen + 1
      /\ pending' = [pending EXCEPT !.lines = @ - 1]
      /\ state' = state /\ gen' = gen /\ UNCHANGED ask /\ UNCHANGED hist /\ UNCHANGED nav /\ UNCHANGED shell
  BY DEF DrainLine
<1>2. state = "running" /\ line' = <<>> /\ cursor' = 0 /\ (tty' \in Ttys => EditTyped') /\ mixed' = mixed
  BY <1>1, PumpingIs
<1>3. /\ Command /\ RunTyped /\ AskTyped /\ HistTyped /\ NavTyped /\ ShellTyped /\ MarksTyped
      /\ page \in Nat /\ unseen \in Nat /\ unseen <= page /\ length \in Nat
  BY <1>2, RunningIs
<1>4. EditTyped'
  BY <1>1, <1>2, NewLineTyped
<1>5. pending' \in [lines : 0..(MaxOutput + 1), piece : BOOLEAN] /\ pending'.piece = pending.piece /\ pending # Nothing
  <2>1. pending \in [lines : 0..(MaxOutput + 1), piece : BOOLEAN] /\ MaxOutput \in Nat
    BY <1>3, BoundsAssumption DEF RunTyped
  <2>2. pending.lines - 1 \in 0..(MaxOutput + 1)
    BY <1>1, <2>1
  <2>3. pending # Nothing
    BY <1>1 DEF Nothing
  <2> QED BY <1>1, <2>1, <2>2, <2>3
<1>6. page' \in Nat /\ unseen' \in Nat /\ unseen' <= page'
  BY <1>1, <1>3
<1>7. RunTyped'
  BY <1>1, <1>3, <1>5, <1>6 DEF RunTyped
<1>8. AskTyped' /\ HistTyped' /\ NavTyped' /\ ShellTyped'
  BY <1>1, <1>3, TypesKept
<1>9. MarksTyped'
  BY <1>1, <1>2, <1>3 DEF MarksTyped
<1>10. TypeOK'
  BY <1>4, <1>7, <1>8, <1>9, TypesNext
<1>11. Command'
  <2>1. gen' = gen /\ stack' = stack /\ state' = "running"
    BY <1>1, <1>2 DEF shell
  <2>2. \A i \in 1..Len(gen) : gen[i].kind # "length"
    BY <1>3, <1>5 DEF Command
  <2> QED BY <1>3, <1>5, <2>1, <2>2 DEF Command, ItemFits, Deepens
<1>12. length' > 0 => unseen' <= length'
  <2>1. length' = length
    BY <1>1 DEF shell
  <2>2. length > 0 => page < length
    BY <1>1, <1>3 DEF PageFull
  <2> QED BY <1>1, <1>3, <2>1, <2>2
<1> QED BY <1>1, <1>2, <1>6, <1>10, <1>11, <1>12, ToRunning

LEMMA DrainPieceKeeps == ASSUME IInv, DrainPiece PROVE IInv'
<1>1. /\ Pumping /\ pending.lines = 0 /\ pending.piece /\ ~PageFull
      /\ tty' = Put(tty, <<"output">>) /\ midline' = TRUE
      /\ pending' = Nothing
      /\ state' = state /\ gen' = gen /\ page' = page /\ unseen' = unseen /\ torn' = torn
      /\ UNCHANGED ask /\ UNCHANGED hist /\ UNCHANGED nav /\ UNCHANGED shell
  BY DEF DrainPiece
<1>2. state = "running" /\ line' = <<>> /\ cursor' = 0 /\ (tty' \in Ttys => EditTyped') /\ MarksTyped'
  BY <1>1, PumpingIs
<1>3. /\ Command /\ EditTyped /\ RunTyped /\ AskTyped /\ HistTyped /\ NavTyped /\ ShellTyped
      /\ page \in Nat /\ unseen \in Nat /\ unseen <= page /\ length \in Nat
      /\ (gen # <<>> \/ pending # Nothing => ~midline /\ ~torn /\ tty = NewLine)
  BY <1>2, RunningIs
<1>4. gen = <<>> /\ pending # Nothing
  BY <1>1, <1>3 DEF Command, Nothing
<1>5. EditTyped'
  <2>1. <<"output">> \in Seq(Cells)
    BY DEF Cells
  <2>2. tty \in Ttys
    BY <1>3 DEF EditTyped
  <2> QED BY <1>1, <1>2, <2>1, <2>2, PutTyped
<1>6. RunTyped'
  <2>1. Nothing \in [lines : 0..(MaxOutput + 1), piece : BOOLEAN]
    BY BoundsAssumption DEF Nothing
  <2> QED BY <1>1, <1>3, <2>1 DEF RunTyped
<1>7. AskTyped' /\ HistTyped' /\ NavTyped' /\ ShellTyped'
  BY <1>1, <1>3, TypesKept
<1>8. TypeOK'
  BY <1>2, <1>5, <1>6, <1>7, TypesNext
<1>9. Command'
  BY <1>1, <1>4, CommandOver
<1>10. length' > 0 => unseen' < length' /\ unseen' <= length'
  <2>1. length' = length
    BY <1>1 DEF shell
  <2>2. length > 0 => page < length
    BY <1>1, <1>3 DEF PageFull
  <2> QED BY <1>1, <1>3, <2>1, <2>2
<1> QED BY <1>1, <1>2, <1>3, <1>4, <1>8, <1>9, <1>10, ToRunning

LEMMA PauseKeeps == ASSUME IInv, PauseAtMore PROVE IInv'
<1>1. /\ Pumping /\ pending # Nothing
      /\ tty' = Put(tty, MORE_PROMPT) /\ state' = "more"
      /\ gen' = gen /\ pending' = pending /\ page' = page /\ midline' = midline /\ unseen' = unseen /\ torn' = torn
      /\ UNCHANGED ask /\ UNCHANGED hist /\ UNCHANGED nav /\ UNCHANGED shell
  BY DEF PauseAtMore, run
<1>2. state = "running" /\ line' = <<>> /\ cursor' = 0 /\ (tty' \in Ttys => EditTyped') /\ MarksTyped'
  BY <1>1, PumpingIs
<1>3. /\ Command /\ EditTyped /\ RunTyped /\ AskTyped /\ HistTyped /\ NavTyped /\ ShellTyped
      /\ page \in Nat /\ unseen \in Nat /\ unseen <= page /\ length \in Nat /\ (length > 0 => unseen <= length)
      /\ (gen # <<>> \/ pending # Nothing => ~midline /\ ~torn /\ tty = NewLine)
  BY <1>2, RunningIs
<1>4. ~midline /\ ~torn /\ tty = NewLine
  BY <1>1, <1>3
<1>5. EditTyped'
  <2>1. MORE_PROMPT \in Seq(Cells)
    BY DEF Cells, MORE_PROMPT
  <2>2. tty \in Ttys
    BY <1>3 DEF EditTyped
  <2> QED BY <1>1, <1>2, <2>1, <2>2, PutTyped
<1>6. RunTyped'
  BY <1>1, <1>3 DEF RunTyped
<1>7. AskTyped' /\ HistTyped' /\ NavTyped' /\ ShellTyped'
  BY <1>1, <1>3, TypesKept
<1>8. TypeOK'
  BY <1>2, <1>5, <1>6, <1>7, TypesNext
<1>9. Command'
  <2>1. stack' = stack
    BY <1>1 DEF shell
  <2> QED BY <1>1, <1>3, <2>1, CommandSame
<1>10. AtMore'
  <2>1. Len(MORE_PROMPT) = 1
    BY DEF MORE_PROMPT
  <2>2. Len(MORE_PROMPT) \in Nat /\ Len(MORE_PROMPT) <= Width
    BY <2>1, WidthAssumption, BoundsAssumption
  <2>3. Put(NewLine, MORE_PROMPT) = Screen(MORE_PROMPT, Len(MORE_PROMPT))
    BY <2>2, NewRow
  <2> QED BY <1>1, <1>4, <2>1, <2>3 DEF AtMore
<1>11. Navigable' /\ NoLine' /\ AtPrompt' /\ InCommand' /\ Asking'
  BY <1>1, <1>2 DEF Navigable, NoLine, AtPrompt, InCommand, Asking
<1>12. Counted'
  <2>1. length' = length
    BY <1>1 DEF shell
  <2> QED BY <1>1, <1>3, <2>1 DEF Counted
<1> QED BY <1>8, <1>9, <1>10, <1>11, <1>12 DEF IInv

\* What holds when the command yields its next item.
LEMMA YieldsIs ==
  ASSUME IInv, NEW kind, Yields(kind)
  PROVE  /\ TypeOK /\ Command /\ Pumping /\ state = "running" /\ pending = Nothing
         /\ gen \in Seq(Items) /\ gen # <<>> /\ 1 \in 1..Len(gen)
         /\ gen[1] \in Items /\ Head(gen) = gen[1] /\ gen[1].kind = kind
         /\ gen' = Tail(gen) /\ Tail(gen) \in Seq(Items)
         /\ page' = page /\ unseen' = unseen /\ torn' = torn /\ UNCHANGED nav
         /\ ~midline /\ ~torn /\ tty = NewLine
         /\ NavTyped' /\ MarksTyped'
<1>1. /\ Pumping /\ state = "running" /\ pending = Nothing /\ gen # <<>> /\ Head(gen).kind = kind
      /\ gen' = Tail(gen) /\ page' = page /\ unseen' = unseen /\ torn' = torn /\ UNCHANGED nav
  BY DEF Yields, Pumping
<1>2. TypeOK /\ Command /\ RunTyped /\ NavTyped /\ ~midline /\ ~torn /\ tty = NewLine
  BY <1>1, RunningIs
<1>3. gen \in Seq(Items)
  BY <1>2 DEF RunTyped
<1>4. Tail(gen) \in Seq(Items)
  BY <1>1, <1>3, HeadTailProperties
<1>5. 1 \in 1..Len(gen)
  BY <1>1, <1>3, EmptySeq
<1>6. gen[1] \in Items
  BY <1>3, <1>5, ElementOfSeq
<1>7. Head(gen) = gen[1]
  BY <1>1, <1>3
<1>8. NavTyped'
  BY <1>1, <1>2, TypesKept
<1>9. MarksTyped'
  BY <1>1, PumpingIs
<1> QED BY <1>1, <1>2, <1>3, <1>4, <1>5, <1>6, <1>7, <1>8, <1>9

LEMMA YieldOutputKeeps == ASSUME IInv, YieldOutput PROVE IInv'
<1>1. /\ Yields("out")
      /\ pending' = [lines |-> gen[1].lines, piece |-> gen[1].piece]
      /\ tty' = tty /\ state' = state /\ midline' = midline
      /\ UNCHANGED ask /\ UNCHANGED hist /\ UNCHANGED shell
  BY YieldsIs DEF YieldOutput
<1>2. /\ TypeOK /\ Command /\ Pumping /\ state = "running"
      /\ gen \in Seq(Items) /\ gen # <<>> /\ 1 \in 1..Len(gen)
      /\ gen[1] \in Items /\ gen[1].kind = "out"
      /\ gen' = Tail(gen) /\ Tail(gen) \in Seq(Items)
      /\ page' = page /\ unseen' = unseen /\ torn' = torn
      /\ ~midline /\ ~torn /\ tty = NewLine
      /\ NavTyped' /\ MarksTyped'
  BY <1>1, YieldsIs
<1>3. /\ EditTyped /\ RunTyped /\ AskTyped /\ HistTyped /\ ShellTyped
      /\ unseen <= page /\ (length > 0 => unseen <= length)
  BY <1>2, RunningIs
<1>4. line' = <<>> /\ cursor' = 0 /\ EditTyped'
  BY <1>1, <1>2, <1>3, PumpingIs DEF EditTyped
<1>5. pending' \in [lines : 0..(MaxOutput + 1), piece : BOOLEAN] /\ pending'.piece = gen[1].piece
  <2>1. gen[1] \in [kind : {"out"}, lines : 0..(MaxOutput + 1), piece : BOOLEAN]
    BY <1>2 DEF Items
  <2> QED BY <1>1, <2>1
<1>6. RunTyped'
  BY <1>1, <1>2, <1>3, <1>5 DEF RunTyped
<1>7. AskTyped' /\ HistTyped' /\ ShellTyped'
  BY <1>1, <1>3, TypesKept
<1>8. TypeOK'
  BY <1>2, <1>4, <1>6, <1>7, TypesNext
<1>9. Command'
  <2>1. pending'.piece => Len(gen) = 1
    BY <1>2, <1>5 DEF Command, ItemFits
  <2>2. gen[1].kind # "do" /\ gen[1] # Do("parent")
    BY <1>2 DEF Do
  <2> QED BY <1>1, <1>2, <2>1, <2>2, CommandNext
<1>10. length' = length
  BY <1>1 DEF shell
<1> QED BY <1>1, <1>2, <1>3, <1>4, <1>8, <1>9, <1>10, ToRunning

LEMMA RunTerminalKeeps == ASSUME IInv, RunTerminal PROVE IInv'
<1>1. /\ tty' = tty /\ state' = state /\ pending' = pending /\ midline' = midline /\ UNCHANGED ask
      /\ stack' = stack /\ privilege' = privilege /\ syslog' = syslog /\ closed' = closed
  BY DEF RunTerminal
<1>2. \E kind \in {"length", "history"} :
        /\ Yields(kind)
        /\ kind = "length" => length' = gen[1].n /\ UNCHANGED hist
        /\ kind = "history" => histMax' = gen[1].n /\ history' = KeepLast(history, gen[1].n) /\ length' = length
  <2>1. CASE Yields("length") /\ length' = Head(gen).n /\ UNCHANGED hist
    BY <2>1, YieldsIs
  <2>2. CASE Yields("history") /\ histMax' = Head(gen).n /\ history' = KeepLast(history, Head(gen).n) /\ length' = length
    BY <2>2, YieldsIs
  <2> QED BY <2>1, <2>2 DEF RunTerminal
<1>3. PICK kind \in {"length", "history"} :
        /\ Yields(kind)
        /\ kind = "length" => length' = gen[1].n /\ UNCHANGED hist
        /\ kind = "history" => histMax' = gen[1].n /\ history' = KeepLast(history, gen[1].n) /\ length' = length
  BY <1>2
<1>4. /\ TypeOK /\ Command /\ Pumping /\ state = "running" /\ pending = Nothing
      /\ gen \in Seq(Items) /\ gen # <<>> /\ 1 \in 1..Len(gen)
      /\ gen[1] \in Items /\ gen[1].kind = kind
      /\ gen' = Tail(gen) /\ Tail(gen) \in Seq(Items)
      /\ page' = page /\ unseen' = unseen /\ torn' = torn
      /\ ~midline /\ ~torn /\ tty = NewLine
      /\ NavTyped' /\ MarksTyped'
  BY <1>3, YieldsIs
<1>5. /\ EditTyped /\ RunTyped /\ AskTyped /\ HistTyped /\ ShellTyped
      /\ unseen <= page /\ (length > 0 => unseen <= length) /\ length \in Nat
  BY <1>4, RunningIs
<1>6. line' = <<>> /\ cursor' = 0 /\ EditTyped'
  BY <1>1, <1>4, <1>5, PumpingIs DEF EditTyped
<1>7. RunTyped'
  BY <1>1, <1>4, <1>5 DEF RunTyped
<1>8. AskTyped'
  BY <1>1, <1>5, TypesKept
<1>9. /\ kind = "length" => gen[1].n \in PageLengths
      /\ kind = "history" => gen[1].n \in 0..MaxHistory
  <2>1. kind = "length" => gen[1] \in [kind : {"length"}, n : PageLengths]
    BY <1>4 DEF Items
  <2>2. kind = "history" => gen[1] \in [kind : {"history"}, n : 0..MaxHistory]
    BY <1>4 DEF Items
  <2> QED BY <2>1, <2>2
<1>10. ShellTyped'
  <2>1. length' \in PageLengths
    BY <1>3, <1>5, <1>9 DEF ShellTyped
  <2> QED BY <1>1, <1>5, <2>1 DEF ShellTyped
<1>11. HistTyped'
  <2>1. CASE kind = "length"
    BY <1>3, <1>5, <2>1, TypesKept
  <2>2. CASE kind = "history"
    <3>1. gen[1].n \in 0..MaxHistory /\ gen[1].n \in Nat /\ history \in Seq(Lines)
      BY <1>5, <1>9, <2>2, BoundsAssumption DEF HistTyped
    <3>2. histMax' = gen[1].n /\ history' = KeepLast(history, gen[1].n)
      BY <1>3, <2>2
    <3>3. history' \in Seq(Lines) /\ Len(history') <= histMax' /\ histMax' \in 0..MaxHistory
      BY <3>1, <3>2, KeepLastTyped
    <3> QED BY <3>3 DEF HistTyped
  <2> QED BY <2>1, <2>2
<1>12. TypeOK'
  BY <1>4, <1>6, <1>7, <1>8, <1>10, <1>11, TypesNext
<1>13. Command'
  <2>1. gen[1].kind # "do" /\ gen[1] # Do("parent") /\ ~pending'.piece
    BY <1>1, <1>4 DEF Do, Nothing
  <2> QED BY <1>1, <1>4, <2>1, CommandNext
<1>14. length' > 0 => unseen' <= length'
  <2>1. CASE kind = "length"
    <3>1. unseen = 0
      BY <1>4, <2>1 DEF Command
    <3>2. length' \in Nat
      BY <1>10, BoundsAssumption DEF ShellTyped
    <3> QED BY <1>4, <3>1, <3>2
  <2>2. CASE kind = "history"
    <3>1. length' = length
      BY <1>3, <2>2
    <3> QED BY <1>4, <1>5, <3>1
  <2> QED BY <2>1, <2>2
<1> QED BY <1>1, <1>4, <1>5, <1>6, <1>12, <1>13, <1>14, ToRunning

-----------------------------------------------------------------------------
(* The mode stack.                                                         *)

LEMMA MovedTyped ==
  ASSUME ShellTyped, NEW what, what \in {"configure", "submode"} => Len(stack) < MaxDepth
  PROVE  /\ Moved(what) \in Seq(Modes) /\ Len(Moved(what)) \in 1..MaxDepth
         /\ what = "parent" => Len(Moved(what)) < MaxDepth
<1>1. stack \in Seq(Modes) /\ Len(stack) \in Nat /\ Len(stack) >= 1 /\ Len(stack) <= MaxDepth
      /\ MaxDepth \in Nat /\ MaxDepth >= 3
  BY BoundsAssumption DEF ShellTyped
<1>2. CASE what \in {"configure", "submode"}
  <2>1. \E m \in Modes : Moved(what) = Append(stack, m)
    BY <1>2 DEF Moved, Modes
  <2>2. PICK m \in Modes : Moved(what) = Append(stack, m)
    BY <2>1
  <2>3. Append(stack, m) \in Seq(Modes) /\ Len(Append(stack, m)) = Len(stack) + 1
    BY <1>1
  <2>4. Len(stack) + 1 \in 1..MaxDepth
    BY <1>1, <1>2
  <2> QED BY <1>2, <2>2, <2>3, <2>4
<1>3. ASSUME NEW m \in 1..Len(stack)
      PROVE  SubSeq(stack, 1, m) \in Seq(Modes) /\ Len(SubSeq(stack, 1, m)) = m /\ m \in 1..MaxDepth
  <2>1. m \in 0..Len(stack) /\ m \in 1..MaxDepth
    BY <1>1
  <2> QED BY <1>1, <2>1, Cut
<1>4. CASE what = "parent"
  <2>1. Moved(what) = EndToConfig
    BY <1>4 DEF Moved
  <2>2. CASE Len(stack) > 2
    <3>1. 2 \in 1..Len(stack) /\ 2 < MaxDepth
      BY <1>1, <2>2
    <3> QED BY <1>3, <1>4, <2>1, <2>2, <3>1 DEF EndToConfig
  <2>3. CASE ~(Len(stack) > 2)
    <3>1. Len(stack) \in 1..MaxDepth /\ Len(stack) < MaxDepth
      BY <1>1, <2>3
    <3> QED BY <1>1, <1>4, <2>1, <2>3, <3>1 DEF EndToConfig
  <2> QED BY <2>2, <2>3
<1>5. CASE what = "end"
  <2>1. 1 \in 1..Len(stack)
    BY <1>1
  <2>2. Moved(what) = SubSeq(stack, 1, 1)
    BY <1>5 DEF Moved
  <2> QED BY <1>3, <1>5, <2>1, <2>2
<1>6. CASE what = "exit" /\ InConfig
  <2>1. Len(stack) - 1 \in 1..Len(stack)
    BY <1>1, <1>6 DEF InConfig
  <2>2. Moved(what) = SubSeq(stack, 1, Len(stack) - 1)
    BY <1>6 DEF Moved
  <2> QED BY <1>3, <1>6, <2>1, <2>2
<1>7. CASE what \notin {"configure", "submode", "parent", "end"} /\ ~(what = "exit" /\ InConfig)
  <2>1. Moved(what) = stack
    BY <1>7 DEF Moved
  <2>2. Len(stack) \in 1..MaxDepth
    BY <1>1
  <2> QED BY <1>1, <1>7, <2>1, <2>2
<1> QED BY <1>2, <1>4, <1>5, <1>6, <1>7

LEMMA RunEffectKeeps == ASSUME IInv, RunEffect PROVE IInv'
<1> DEFINE what == gen[1].what
<1>1. /\ Yields("do")
      /\ stack' = Moved(what)
      /\ closed' \in BOOLEAN
      /\ privilege' \in {1, 15, privilege}
      /\ syslog' \in {syslog, syslog + 1}
      /\ tty' = tty /\ state' = state /\ pending' = pending /\ midline' = midline /\ length' = length
      /\ UNCHANGED ask /\ UNCHANGED hist
  <2>1. Yields("do")
    BY DEF RunEffect
  <2>2. Head(gen) = gen[1]
    BY <2>1, YieldsIs
  <2> QED BY <2>1, <2>2 DEF RunEffect
<1>2. /\ TypeOK /\ Command /\ Pumping /\ state = "running" /\ pending = Nothing
      /\ gen \in Seq(Items) /\ gen # <<>> /\ 1 \in 1..Len(gen)
      /\ gen[1] \in Items /\ gen[1].kind = "do"
      /\ gen' = Tail(gen) /\ Tail(gen) \in Seq(Items)
      /\ page' = page /\ unseen' = unseen /\ torn' = torn
      /\ ~midline /\ ~torn /\ tty = NewLine
      /\ NavTyped' /\ MarksTyped'
  BY <1>1, YieldsIs
<1>3. /\ EditTyped /\ RunTyped /\ AskTyped /\ HistTyped /\ ShellTyped
      /\ unseen <= page /\ (length > 0 => unseen <= length) /\ length \in Nat
  BY <1>2, RunningIs
<1>4. line' = <<>> /\ cursor' = 0 /\ EditTyped'
  BY <1>1, <1>2, <1>3, PumpingIs DEF EditTyped
<1>5. RunTyped'
  BY <1>1, <1>2, <1>3 DEF RunTyped
<1>6. AskTyped' /\ HistTyped'
  BY <1>1, <1>3, TypesKept
<1>7. gen[1] = Do(what)
  <2>1. gen[1] \in [kind : {"do"}, what : {"enable", "disable", "exit", "logout", "configure",
                                          "submode", "parent", "end"}]
    BY <1>2 DEF Items
  <2> QED BY <2>1 DEF Do
<1>8. what \in {"configure", "submode"} => Len(stack) < MaxDepth
  BY <1>2, <1>7 DEF Command, Deepens
<1>9. gen[1] = Do("parent") => what = "parent"
  BY DEF Do
<1> HIDE DEF what
<1>10. /\ Moved(what) \in Seq(Modes) /\ Len(Moved(what)) \in 1..MaxDepth
       /\ what = "parent" => Len(Moved(what)) < MaxDepth
  BY <1>3, <1>8, MovedTyped
<1>11. ShellTyped'
  <2>1. syslog' \in Nat /\ privilege' \in {1, 15}
    BY <1>1, <1>3 DEF ShellTyped
  <2>2. length' \in PageLengths
    BY <1>1, <1>3 DEF ShellTyped
  <2> QED BY <1>1, <1>10, <2>1, <2>2 DEF ShellTyped
<1>12. TypeOK'
  BY <1>2, <1>4, <1>5, <1>6, <1>11, TypesNext
<1>13. Command'
  <2>1. pending' = Nothing /\ ~pending'.piece
    BY <1>1, <1>2 DEF Nothing
  <2>2. gen[1] = Do("parent") => Len(stack') < MaxDepth
    BY <1>1, <1>9, <1>10
  <2> QED BY <1>2, <2>1, <2>2, CommandNext
<1> QED BY <1>1, <1>2, <1>3, <1>4, <1>12, <1>13, ToRunning

-----------------------------------------------------------------------------
(* Questions and the end of a command.                                     *)

LEMMA QuestionsAre ==
  ASSUME NEW q \in Questions
  PROVE  /\ q.text \in Seq(Cells) /\ Len(q.text) \in Nat /\ Len(q.text) <= 1
         /\ q.ends => q.text = <<>>
         /\ q.ends \in BOOLEAN /\ q.echo \in BOOLEAN /\ q.single \in BOOLEAN
<1> DEFINE Short(t) == t \in Seq(Cells) /\ Len(t) \in Nat /\ Len(t) <= 1
<1>1. ASSUME NEW t \in {"Password:", "Filename?", "[confirm]"} PROVE Short(<<t>>)
  <2>1. t \in Cells
    BY DEF Cells, QuestionCells
  <2>2. <<t>> \in Seq(Cells) /\ Len(<<t>>) = 1
    BY <2>1
  <2> QED BY <2>2
<1>2. Short(<<>>)
  <2>1. <<>> \in Seq(Cells) /\ Len(<<>>) = 0
    BY EmptySeq
  <2> QED BY <2>1
<1>3. ASSUME NEW text, NEW ends, NEW echo, NEW single, q = Question(text, ends, echo, single)
      PROVE  q.text = text /\ q.ends = ends /\ q.echo = echo /\ q.single = single
  BY <1>3 DEF Question
<1> SUFFICES /\ Short(q.text) /\ (q.ends => q.text = <<>>)
             /\ q.ends \in BOOLEAN /\ q.echo \in BOOLEAN /\ q.single \in BOOLEAN
  BY DEF Short
<1> HIDE DEF Short
<1>4. CASE q = Password
  <2>1. q.text = <<"Password:">> /\ q.ends = FALSE /\ q.echo = FALSE /\ q.single = FALSE
    BY <1>3, <1>4 DEF Password
  <2> QED BY <1>1, <2>1
<1>5. CASE q = Filename
  <2>1. q.text = <<"Filename?">> /\ q.ends = FALSE /\ q.echo = TRUE /\ q.single = FALSE
    BY <1>3, <1>5 DEF Filename
  <2> QED BY <1>1, <2>1
<1>6. CASE q = Confirm
  <2>1. q.text = <<"[confirm]">> /\ q.ends = FALSE /\ q.echo = TRUE /\ q.single = TRUE
    BY <1>3, <1>6 DEF Confirm
  <2> QED BY <1>1, <2>1
<1>7. CASE q = BannerText
  <2>1. q.text = <<>> /\ q.ends = TRUE /\ q.echo = TRUE /\ q.single = FALSE
    BY <1>3, <1>7 DEF BannerText
  <2> QED BY <1>2, <2>1
<1>8. CASE q = BannerMore
  <2>1. q.text = <<>> /\ q.ends = FALSE /\ q.echo = TRUE /\ q.single = FALSE
    BY <1>3, <1>8 DEF BannerMore
  <2> QED BY <1>2, <2>1
<1> QED BY <1>4, <1>5, <1>6, <1>7, <1>8 DEF Questions

LEMMA NoneVisible == ASSUME typed = <<>> PROVE \A k \in Nat : k = 0 => Visible(k) = <<>>
<1>1. SubSeq(<<>>, 0 + 1, Len(<<>>)) = <<>>
  OBVIOUS
<1> QED BY <1>1 DEF Visible

LEMMA BeginPromptKeeps == ASSUME IInv, BeginPrompt PROVE IInv'
<1> DEFINE q == gen[1].question
<1>1. /\ Yields("ask")
      /\ tty' = IF q.ends THEN NewLine ELSE Put(tty, q.text)
      /\ midline' = ~q.ends
      /\ asked' = q /\ typed' = <<>>
      /\ state' = IF q.single THEN "prompt_key" ELSE "prompt_line"
      /\ pending' = pending /\ UNCHANGED hist /\ UNCHANGED shell
  <2>1. Yields("ask")
    BY DEF BeginPrompt
  <2>2. Head(gen) = gen[1]
    BY <2>1, YieldsIs
  <2> QED BY <2>1, <2>2 DEF BeginPrompt
<1>2. /\ TypeOK /\ Command /\ Pumping /\ state = "running" /\ pending = Nothing
      /\ gen \in Seq(Items) /\ gen # <<>> /\ 1 \in 1..Len(gen)
      /\ gen[1] \in Items /\ gen[1].kind = "ask"
      /\ gen' = Tail(gen) /\ Tail(gen) \in Seq(Items)
      /\ page' = page /\ unseen' = unseen /\ torn' = torn
      /\ ~midline /\ ~torn /\ tty = NewLine
      /\ NavTyped' /\ MarksTyped'
  BY <1>1, YieldsIs
<1>3. /\ EditTyped /\ RunTyped /\ AskTyped /\ HistTyped /\ ShellTyped
      /\ unseen <= page /\ (length > 0 => unseen <= length)
  BY <1>2, RunningIs
<1>4. q \in Questions
  <2>1. gen[1] \in [kind : {"ask"}, question : Questions]
    BY <1>2 DEF Items
  <2> QED BY <2>1
<1> HIDE DEF q
<1>5. /\ q.text \in Seq(Cells) /\ Len(q.text) \in Nat /\ Len(q.text) <= 1
      /\ q.ends => q.text = <<>>
      /\ q.ends \in BOOLEAN /\ q.echo \in BOOLEAN /\ q.single \in BOOLEAN
  BY <1>4, QuestionsAre
<1>6. line' = <<>> /\ cursor' = 0 /\ EditTyped'
  <2>1. tty \in Ttys
    BY <1>3 DEF EditTyped
  <2>2. tty' \in Ttys
    BY <1>1, <1>5, <2>1, PutTyped, NewLineTyped
  <2> QED BY <1>2, <2>2, PumpingIs
<1>7. RunTyped'
  BY <1>1, <1>2, <1>3, <1>5 DEF RunTyped
<1>8. AskTyped'
  <2>1. <<>> \in Lines
    BY EmptyLine
  <2> QED BY <1>1, <1>4, <2>1 DEF AskTyped
<1>9. HistTyped' /\ ShellTyped'
  BY <1>1, <1>3, TypesKept
<1>10. TypeOK'
  BY <1>2, <1>6, <1>7, <1>8, <1>9, TypesNext
<1>11. Command'
  <2>1. gen[1].kind # "do" /\ gen[1] # Do("parent") /\ ~pending'.piece /\ pending' = Nothing
    BY <1>1, <1>2 DEF Do, Nothing
  <2> QED BY <1>2, <2>1, CommandNext
<1>12. Navigable' /\ NoLine' /\ AtPrompt' /\ InCommand' /\ AtMore'
  BY <1>1, <1>6 DEF Navigable, NoLine, AtPrompt, InCommand, AtMore
<1>13. Visible(0)' = <<>>
  <2>1. SubSeq(<<>>, 0 + 1, Len(<<>>)) = <<>>
    OBVIOUS
  <2> QED BY <1>1, <2>1 DEF Visible
<1>14. Asking'
  <2>1. CASE q.ends
    <3>1. tty' = Screen(<<>>, 0) /\ midline' = FALSE /\ asked'.text = <<>> /\ asked' \in Questions
      BY <1>1, <1>4, <1>5, <2>1, NewLineIs
    <3>2. Len(<<>>) = 0 /\ 0 \in 0..Len(typed')
      BY <1>1
    <3>3. Shows(Visible(0))'
      BY <1>13, <3>1, <3>2 DEF Shows
    <3> QED BY <1>1, <3>1, <3>2, <3>3 DEF Asking
  <2>2. CASE ~q.ends
    <3>1. Len(q.text) <= Width
      BY <1>5, WidthAssumption, BoundsAssumption
    <3>2. tty' = Screen(q.text, Len(q.text))
      BY <1>1, <1>2, <1>5, <2>2, <3>1, NewRow
    <3>3. asked'.text \o Visible(0)' = q.text
      BY <1>1, <1>5, <1>13, ConcatEmptySeq
    <3>4. Shows(asked.text \o Visible(0))'
      BY <3>2, <3>3 DEF Shows
    <3> QED BY <1>1, <1>2, <1>4, <1>5, <2>2, <3>4 DEF Asking
  <2> QED BY <2>1, <2>2
<1>15. Counted'
  <2>1. length' = length
    BY <1>1 DEF shell
  <2> QED BY <1>1, <1>2, <1>3, <2>1 DEF Counted
<1> QED BY <1>10, <1>11, <1>12, <1>14, <1>15 DEF IInv

LEMMA FinishCommandKeeps == ASSUME IInv, FinishCommand PROVE IInv'
<1> DEFINE below == IF midline THEN NewLine ELSE tty
<1>1. /\ Pumping /\ gen = <<>> /\ pending = Nothing
      /\ tty' = IF closed THEN below ELSE Put(below, Prompt)
      /\ unseen' = IF midline THEN unseen + 1 ELSE unseen
      /\ midline' = FALSE
      /\ state' = IF closed THEN "closed" ELSE "idle"
      /\ index' = Len(history) /\ stash' = <<>>
      /\ syslog' = 0
      /\ gen' = gen /\ pending' = pending /\ page' = page /\ torn' = torn
      /\ UNCHANGED ask /\ UNCHANGED hist
      /\ stack' = stack /\ privilege' = privilege /\ length' = length /\ closed' = closed
  BY DEF FinishCommand, ResetNav
<1>2. state = "running" /\ line' = <<>> /\ cursor' = 0 /\ (tty' \in Ttys => EditTyped') /\ MarksTyped'
  BY <1>1, PumpingIs
<1>3. /\ Command /\ EditTyped /\ RunTyped /\ AskTyped /\ HistTyped /\ NavTyped /\ ShellTyped /\ MarksTyped
      /\ ~midline /\ ~torn => tty = NewLine
      /\ page \in Nat /\ unseen \in Nat /\ length \in Nat
      /\ (length > 0 => unseen <= length)
      /\ (midline /\ length > 0 => unseen < length)
  BY <1>2, RunningIs
<1>4. midline \in BOOLEAN /\ torn \in BOOLEAN /\ closed \in BOOLEAN /\ tty \in Ttys
  BY <1>3 DEF RunTyped, MarksTyped, ShellTyped, EditTyped
<1>5. EditTyped'
  <2>1. below \in Ttys
    BY <1>4, NewLineTyped
  <2> HIDE DEF below
  <2>2. Put(below, Prompt) \in Ttys
    BY <2>1, PromptTyped, PutTyped
  <2> QED BY <1>1, <1>2, <2>1, <2>2
<1>6. RunTyped'
  <2>1. unseen' \in Nat
    BY <1>1, <1>3
  <2>2. state' \in {"idle", "closed"}
    BY <1>1
  <2> QED BY <1>1, <1>3, <2>1, <2>2 DEF RunTyped
<1>7. AskTyped' /\ HistTyped'
  BY <1>1, <1>3, TypesKept
<1>8. index' \in 0..MaxHistory /\ Navigable'
  <2>1. Len(history) \in Nat /\ Len(history) <= MaxHistory
    BY <1>3, BoundsAssumption DEF HistTyped
  <2>2. history' = history
    BY <1>1 DEF hist
  <2> QED BY <1>1, <2>1, <2>2, BoundsAssumption DEF Navigable
<1>9. NavTyped'
  BY <1>1, <1>8 DEF NavTyped
<1>10. ShellTyped'
  BY <1>1, <1>3 DEF ShellTyped
<1>11. TypeOK'
  BY <1>2, <1>5, <1>6, <1>7, <1>9, <1>10, TypesNext
<1>12. Command'
  BY <1>1, CommandOver
<1>13. NoLine' /\ InCommand' /\ AtMore' /\ Asking'
  BY <1>1, <1>2 DEF NoLine, InCommand, AtMore, Asking
<1>14. AtPrompt'
  <2> SUFFICES ASSUME state' = "idle", ~torn' PROVE tty' = Screen(Prompt' \o line', 1 + cursor')
    BY DEF AtPrompt
  <2>1. ~closed /\ ~torn
    BY <1>1
  <2>2. below = NewLine
    BY <1>3, <1>4, <2>1
  <2>3. tty' = Put(NewLine, Prompt)
    BY <1>1, <2>1, <2>2
  <2>4. Prompt' = Prompt
    BY <1>1 DEF Prompt
  <2>5. Prompt \o <<>> = Prompt
    BY PromptTyped, ConcatEmptySeq
  <2>6. <<>> \in Lines /\ Len(<<>>) = 0
    BY EmptyLine
  <2>7. Put(NewLine, Prompt \o <<>>) = Screen(Prompt \o <<>>, 1 + Len(<<>>))
    BY <2>6, Reprinted
  <2>8. 1 + Len(<<>>) = 1 + 0
    OBVIOUS
  <2> QED BY <1>2, <2>3, <2>4, <2>5, <2>7, <2>8
<1>15. Counted'
  <2>1. length > 0 => unseen' <= length
    BY <1>1, <1>3, <1>4
  <2> QED BY <1>1, <2>1 DEF Counted
<1> QED BY <1>8, <1>11, <1>12, <1>13, <1>14, <1>15 DEF IInv

-----------------------------------------------------------------------------
(* The pager.                                                              *)

LEMMA MoreErased ==
  ASSUME tty = NewLine \/ tty = Screen(MORE_PROMPT, 1)
  PROVE  Return(Put(Return(tty), Blanks(Len(MORE_PROMPT)))) = NewLine
<1> DEFINE b == Blanks(1)
<1>1. Len(MORE_PROMPT) = 1
  BY DEF MORE_PROMPT
<1>11. 1 \in Nat /\ 1 \in 1..1
  OBVIOUS
<1>2. Len(b) = 1
  BY <1>11, BlanksAre
<1>10. b[1] = " "
  <2> HIDE DEF b
  <2>1. \A i \in 1..1 : Blanks(1)[i] = " "
    BY <1>11, BlanksAre
  <2> QED BY <1>11, <2>1 DEF b
<1> HIDE DEF b
<1>3. Len(b) \in Nat /\ 0 + Len(b) <= Width
  BY <1>2, WidthAssumption, BoundsAssumption
<1>4. \E text : Return(tty) = Screen(text, 0) /\ \A i \in 1..Width : i > 1 => Cell(text, i) = " "
  <2>1. CASE tty = NewLine
    <3>1. Return(tty) = Screen(<<>>, 0)
      BY <2>1, NewLineIs, ReturnIs
    <3>2. \A i \in 1..Width : Cell(<<>>, i) = " "
      <4>1. \A i \in 1..Width : i \in Nat \ {0}
        BY WidthAssumption
      <4> QED BY <4>1, EmptyLine
    <3> QED BY <3>1, <3>2
  <2>2. CASE tty = Screen(MORE_PROMPT, 1)
    <3>1. Return(tty) = Screen(MORE_PROMPT, 0)
      BY <2>2, ReturnIs
    <3>2. ASSUME NEW i \in 1..Width, i > 1 PROVE Cell(MORE_PROMPT, i) = " "
      <4>1. ~(i <= Len(MORE_PROMPT))
        BY <1>1, <3>2
      <4> QED BY <4>1 DEF Cell
    <3> QED BY <3>1, <3>2
  <2> QED BY <2>1, <2>2
<1>5. PICK text : Return(tty) = Screen(text, 0) /\ \A i \in 1..Width : i > 1 => Cell(text, i) = " "
  BY <1>4
<1>6. Put(Screen(text, 0), b)
        = [row |-> [i \in 1..Width |-> IF i > 0 /\ i <= 0 + Len(b) THEN b[i - 0] ELSE Cell(text, i)],
           col |-> 0 + Len(b)]
  BY <1>3, PutIs
<1>7. ASSUME NEW i \in 1..Width
      PROVE  (IF i > 0 /\ i <= 0 + Len(b) THEN b[i - 0] ELSE Cell(text, i)) = " "
  <2>1. CASE i = 1
    <3>1. i > 0 /\ i <= 0 + Len(b) /\ i - 0 = 1
      BY <1>2, <2>1
    <3>2. b[1] = " "
      BY <1>10
    <3> QED BY <3>1, <3>2
  <2>2. CASE i # 1
    <3>1. ~(i <= 0 + Len(b)) /\ i > 1
      BY <1>2, <2>2, WidthAssumption
    <3>2. Cell(text, i) = " "
      BY <1>5, <3>1
    <3> QED BY <3>1, <3>2
  <2> QED BY <2>1, <2>2
<1>8. [i \in 1..Width |-> IF i > 0 /\ i <= 0 + Len(b) THEN b[i - 0] ELSE Cell(text, i)]
        = [i \in 1..Width |-> " "]
  BY <1>7
<1> DEFINE row == [i \in 1..Width |-> " "]
<1>12. Put(Return(tty), b) = [row |-> row, col |-> 0 + Len(b)]
  BY Zenon, <1>5, <1>6, <1>8
<1>13. NewLine = [row |-> row, col |-> 0]
  BY DEF NewLine
<1> HIDE DEF row
<1>14. Return(Put(Return(tty), b)) = NewLine
  <2>1. \A t, c : t = [row |-> row, col |-> c] => Return(t) = [row |-> row, col |-> 0]
    BY DEF Return
  <2> QED BY <1>12, <1>13, <2>1
<1> QED BY <1>1, <1>14 DEF b

LEMMA MoreIs ==
  ASSUME IInv, state = "more"
  PROVE  /\ TypeOK /\ Command /\ EditTyped /\ RunTyped /\ AskTyped /\ HistTyped /\ NavTyped /\ ShellTyped /\ MarksTyped
         /\ line = <<>> /\ cursor = 0 /\ ~midline
         /\ tty = NewLine \/ tty = Screen(MORE_PROMPT, 1)
         /\ length \in Nat /\ (length > 0 => unseen <= length) /\ unseen <= page
<1>1. TypeOK /\ Command
  BY DEF IInv
<1>2. EditTyped /\ RunTyped /\ AskTyped /\ HistTyped /\ NavTyped /\ ShellTyped /\ MarksTyped
  BY <1>1, Types
<1>3. line = <<>> /\ cursor = 0 /\ ~midline /\ (tty = NewLine \/ tty = Screen(MORE_PROMPT, 1))
  BY DEF IInv, NoLine, AtMore
<1>4. length \in Nat
  BY <1>2, BoundsAssumption DEF ShellTyped
<1>5. (length > 0 => unseen <= length) /\ unseen <= page
  BY DEF IInv, Counted
<1> QED BY <1>1, <1>2, <1>3, <1>4, <1>5

LEMMA EraseMoreKeeps ==
  ASSUME IInv, EraseMore, ignoreLf' \in BOOLEAN, afterCr' \in BOOLEAN, page' \in Nat,
         (gen' = gen /\ pending' = pending) \/ (gen' = <<>> /\ pending' = Nothing)
  PROVE  IInv'
<1>1. /\ state = "more"
      /\ tty' = Return(Put(Return(tty), Blanks(Len(MORE_PROMPT))))
      /\ state' = "running" /\ unseen' = 0 /\ torn' = FALSE
      /\ line' = line /\ cursor' = cursor /\ midline' = midline /\ mixed' = mixed
      /\ UNCHANGED ask /\ UNCHANGED hist /\ UNCHANGED nav /\ UNCHANGED shell
  BY DEF EraseMore, edit
<1>2. /\ Command /\ EditTyped /\ RunTyped /\ AskTyped /\ HistTyped /\ NavTyped /\ ShellTyped /\ MarksTyped
      /\ line = <<>> /\ cursor = 0 /\ ~midline /\ (tty = NewLine \/ tty = Screen(MORE_PROMPT, 1))
      /\ length \in Nat
  BY <1>1, MoreIs
<1>3. tty' = NewLine
  BY <1>1, <1>2, MoreErased
<1>4. EditTyped'
  BY <1>1, <1>2, <1>3, NewLineTyped DEF EditTyped
<1>5. RunTyped'
  <2>1. Nothing \in [lines : 0..(MaxOutput + 1), piece : BOOLEAN] /\ <<>> \in Seq(Items)
    BY BoundsAssumption DEF Nothing
  <2>2. gen' \in Seq(Items) /\ pending' \in [lines : 0..(MaxOutput + 1), piece : BOOLEAN]
    BY <1>2, <2>1 DEF RunTyped
  <2> QED BY <1>1, <1>2, <2>2 DEF RunTyped
<1>6. AskTyped' /\ HistTyped' /\ NavTyped' /\ ShellTyped'
  BY <1>1, <1>2, TypesKept
<1>7. MarksTyped'
  BY <1>1, <1>2 DEF MarksTyped
<1>8. TypeOK'
  BY <1>4, <1>5, <1>6, <1>7, TypesNext
<1>9. Command'
  <2>1. CASE gen' = gen /\ pending' = pending
    <3>1. stack' = stack
      BY <1>1 DEF shell
    <3> QED BY <1>1, <1>2, <2>1, <3>1, CommandSame
  <2>2. CASE gen' = <<>> /\ pending' = Nothing
    BY <2>2, CommandOver
  <2> QED BY <2>1, <2>2
<1>10. unseen' <= page' /\ (length' > 0 => unseen' <= length') /\ line' = <<>> /\ cursor' = 0
       /\ ~midline' /\ ~torn'
  <2>1. length' = length
    BY <1>1 DEF shell
  <2>2. 0 <= page' /\ 0 <= length
    BY <1>2
  <2> QED BY <1>1, <1>2, <2>1, <2>2
<1> QED BY <1>1, <1>3, <1>8, <1>9, <1>10, ToRunning

LEMMA PagerKeeps == ASSUME IInv, MoreSpace \/ MoreEnter \/ MoreQuit PROVE IInv'
<1>1. EraseMore
  BY DEF MoreSpace, MoreEnter, MoreQuit
<1>2. state = "more"
  BY <1>1 DEF EraseMore
<1>3. ignoreLf \in BOOLEAN /\ afterCr \in BOOLEAN /\ page \in Nat /\ length \in Nat
  BY <1>2, MoreIs DEF EditTyped, RunTyped
<1>4. ignoreLf' \in BOOLEAN /\ afterCr' \in BOOLEAN
  BY <1>3, CharacterTyped DEF MoreSpace, MoreEnter, MoreQuit
<1>5. page' \in Nat
  <2>1. (IF length > 0 THEN length - 1 ELSE 0) \in Nat
    BY <1>3
  <2> QED BY <1>3, <2>1 DEF MoreSpace, MoreEnter, MoreQuit
<1>6. (gen' = gen /\ pending' = pending) \/ (gen' = <<>> /\ pending' = Nothing)
  BY DEF MoreSpace, MoreEnter, MoreQuit
<1> QED BY <1>1, <1>4, <1>5, <1>6, EraseMoreKeeps

-----------------------------------------------------------------------------
(* Answers.                                                                *)

LEMMA TypedOn ==
  ASSUME NEW v \in Seq(Cells), Len(v) + 1 <= Width, NEW ch \in Cells
  PROVE  Put(Screen(v, Len(v)), <<ch>>) = Screen(Append(v, ch), Len(Append(v, ch)))
<1> DEFINE u == <<ch>>
           w == Append(v, ch)
           n == Len(v)
<1>1. n \in Nat /\ Len(u) = 1 /\ u[1] = ch
  OBVIOUS
<1>2. Len(w) = n + 1 /\ w[n + 1] = ch /\ \A i \in 1..n : w[i] = v[i]
  OBVIOUS
<1>3. n + 1 <= Width /\ Width \in Nat
  BY WidthAssumption
<1> HIDE DEF u, w, n
<1>4. Len(u) \in Nat /\ n + Len(u) <= Width
  BY <1>1, <1>3
<1>5. Put(Screen(v, n), u)
        = [row |-> [i \in 1..Width |-> IF i > n /\ i <= n + Len(u) THEN u[i - n] ELSE Cell(v, i)],
           col |-> n + Len(u)]
  BY <1>1, <1>4, PutIs
<1>6. ASSUME NEW i \in 1..Width
      PROVE  (IF i > n /\ i <= n + Len(u) THEN u[i - n] ELSE Cell(v, i)) = Cell(w, i)
  <2>1. CASE i <= n
    <3>1. ~(i > n) /\ i \in 1..n /\ i <= Len(w)
      BY <1>1, <1>2, <2>1
    <3> QED BY <1>2, <2>1, <3>1 DEF Cell, n
  <2>2. CASE i = n + 1
    <3>1. i > n /\ i <= n + Len(u) /\ i - n = 1 /\ i <= Len(w)
      BY <1>1, <1>2, <2>2
    <3> QED BY <1>1, <1>2, <2>2, <3>1 DEF Cell
  <2>3. CASE i > n + 1
    <3>1. ~(i <= n + Len(u)) /\ ~(i <= Len(w)) /\ ~(i <= n)
      BY <1>1, <1>2, <2>3
    <3> QED BY <3>1 DEF Cell, n
  <2>4. i <= n \/ i = n + 1 \/ i > n + 1
    BY <1>1, <1>3
  <2> QED BY <2>1, <2>2, <2>3, <2>4
<1>7. [i \in 1..Width |-> IF i > n /\ i <= n + Len(u) THEN u[i - n] ELSE Cell(v, i)] = [i \in 1..Width |-> Cell(w, i)]
  BY <1>6
<1>8. n + Len(u) = Len(w)
  BY <1>1, <1>2
<1> QED BY Zenon, <1>5, <1>7, <1>8 DEF Screen, n, u, w

LEMMA EndErased ==
  ASSUME NEW v \in Seq(Cells), Len(v) <= Width, NEW n \in Nat,
         NEW m, m = IF n < Len(v) THEN Len(v) - n ELSE 0
  PROVE  Back(Put(Back(Screen(v, Len(v)), n), Blanks(n)), n) = Screen(SubSeq(v, 1, m), m)
<1> DEFINE b == Blanks(n)
           w == SubSeq(v, 1, m)
           l == Len(v)
<1>1. l \in Nat /\ m \in Nat /\ m <= l /\ m + n >= l /\ Width \in Nat /\ l <= Width
  BY WidthAssumption
<1>2. Len(b) = n /\ \A i \in 1..n : b[i] = " "
  BY BlanksAre
<1>3. Len(w) = m /\ \A i \in 1..m : w[i] = v[i]
  BY <1>1, Cut
<1>4. m = IF n < l THEN l - n ELSE 0
  OBVIOUS
<1> HIDE DEF b, w, l
<1>5. Back(Screen(v, l), n) = Screen(v, m)
  <2>1. Screen(v, l).col = l /\ Screen(v, m) = [row |-> Screen(v, l).row, col |-> m]
    BY DEF Screen
  <2> HIDE DEF Screen
  <2> QED BY <1>4, <2>1 DEF Back
<1>6. ASSUME NEW i \in 1..Width
      PROVE  (IF i > m /\ i <= m + n THEN b[i - m] ELSE Cell(v, i)) = Cell(w, i)
  <2>1. CASE i <= m
    <3>1. ~(i > m) /\ i \in 1..m /\ i <= l /\ i <= Len(w)
      BY <1>1, <1>3, <2>1
    <3> QED BY <1>3, <3>1 DEF Cell, l
  <2>2. CASE i > m
    <3>1. ~(i <= Len(w))
      BY <1>1, <1>3, <2>2
    <3>2. Cell(w, i) = " "
      BY <3>1 DEF Cell
    <3>3. CASE i <= m + n
      <4>1. i - m \in 1..n
        BY <1>1, <2>2, <3>3
      <4> QED BY <1>2, <2>2, <3>2, <3>3, <4>1
    <3>4. CASE ~(i <= m + n)
      <4>1. ~(i <= l)
        BY <1>1, <3>4
      <4> QED BY <3>2, <3>4, <4>1 DEF Cell, l
    <3> QED BY <3>3, <3>4
  <2> QED BY <1>1, <2>1, <2>2
<1> DEFINE full == [i \in 1..Width |-> IF i > m /\ i <= m + n THEN b[i - m] ELSE Cell(v, i)]
           col == Least(m + n, Width)
<1>7. full = [i \in 1..Width |-> Cell(w, i)]
  BY <1>6
<1>8. Put(Screen(v, m), b) = [row |-> full, col |-> col]
  <2>1. \A i \in 1..Width : Screen(v, m).row[i] = Cell(v, i)
    BY DEF Screen
  <2>2. Screen(v, m).col = m
    BY DEF Screen
  <2>3. [i \in 1..Width |-> IF i > m /\ i <= m + n THEN b[i - m] ELSE Screen(v, m).row[i]] = full
    BY <2>1
  <2> HIDE DEF Screen, full
  <2> QED BY <1>2, <2>2, <2>3 DEF Put
<1>9. (IF n < col THEN col - n ELSE 0) = m
  BY <1>1, <1>4 DEF Least
<1> HIDE DEF col, full
<1>10. Back(Put(Screen(v, m), b), n) = [row |-> full, col |-> m]
  BY <1>8, <1>9 DEF Back
<1> QED BY <1>5, <1>7, <1>10 DEF Screen, b, w, l

Waiting == state \in {"prompt_line", "prompt_key"}

\* What holds while a question waits for its answer.
LEMMA AskingIs ==
  ASSUME IInv, Waiting
  PROVE  /\ TypeOK /\ Command /\ EditTyped /\ RunTyped /\ AskTyped /\ HistTyped /\ NavTyped /\ ShellTyped /\ MarksTyped
         /\ line = <<>> /\ cursor = 0 /\ pending = Nothing
         /\ tty \in Ttys /\ midline \in BOOLEAN /\ torn \in BOOLEAN /\ ignoreLf \in BOOLEAN /\ afterCr \in BOOLEAN
         /\ typed \in Lines /\ typed \in Seq(Chars) /\ Len(typed) \in Nat /\ Len(typed) <= MaxLine
         /\ asked \in Questions /\ asked.echo \in BOOLEAN
         /\ state = "prompt_key" => typed = <<>>
         /\ midline => ~torn /\ Shows(asked.text \o Visible(0))
         /\ ~midline => \E k \in 0..Len(typed) :
              /\ Shows(Visible(k))
              /\ ~torn => k = 0 /\ asked.text = <<>>
         /\ length \in Nat /\ (length > 0 => unseen <= length) /\ unseen <= page
<1>1. TypeOK /\ Command
  BY DEF IInv
<1>2. EditTyped /\ RunTyped /\ AskTyped /\ HistTyped /\ NavTyped /\ ShellTyped /\ MarksTyped
  BY <1>1, Types
<1>3. line = <<>> /\ cursor = 0
  BY DEF IInv, NoLine, Waiting
<1>4. pending = Nothing
  BY <1>1 DEF Command, Waiting
<1>5. tty \in Ttys /\ midline \in BOOLEAN /\ torn \in BOOLEAN /\ ignoreLf \in BOOLEAN /\ afterCr \in BOOLEAN
  BY <1>2 DEF EditTyped, RunTyped, MarksTyped
<1>6. typed \in Lines /\ typed \in Seq(Chars) /\ Len(typed) <= MaxLine
  BY <1>2, LinesAre DEF AskTyped
<1>7. Len(typed) \in Nat
  BY <1>6
<1>8. /\ asked \in Questions
      /\ state = "prompt_key" => typed = <<>>
      /\ midline => ~torn /\ Shows(asked.text \o Visible(0))
      /\ ~midline => \E k \in 0..Len(typed) :
              /\ Shows(Visible(k))
              /\ ~torn => k = 0 /\ asked.text = <<>>
  BY DEF IInv, Asking, Waiting
<1>9. asked.echo \in BOOLEAN
  BY <1>8, QuestionsAre
<1>10. length \in Nat
  BY <1>2, BoundsAssumption DEF ShellTyped
<1>11. (length > 0 => unseen <= length) /\ unseen <= page
  BY DEF IInv, Counted, Waiting
<1> QED BY <1>1, <1>2, <1>3, <1>4, <1>5, <1>6, <1>7, <1>8, <1>9, <1>10, <1>11

\* What is seen of an answer.
LEMMA VisibleIs ==
  ASSUME IInv, Waiting, NEW k \in 0..Len(typed)
  PROVE  /\ asked.echo => /\ Visible(k) = SubSeq(typed, k + 1, Len(typed)) /\ Visible(k) \in Seq(Chars)
                          /\ Len(Visible(k)) = Len(typed) - k
                          /\ \A i \in 1..(Len(typed) - k) : Visible(k)[i] = typed[k + i]
         /\ ~asked.echo => Visible(k) = <<>>
         /\ Visible(k) \in Seq(Cells) /\ Len(Visible(k)) \in Nat /\ Len(Visible(k)) <= Len(typed)
<1>1. typed \in Seq(Chars) /\ Len(typed) \in Nat /\ asked.echo \in BOOLEAN
  BY AskingIs
<1>2. CASE asked.echo
  <2>1. Visible(k) = SubSeq(typed, k + 1, Len(typed))
    BY <1>2 DEF Visible
  <2>2. /\ SubSeq(typed, k + 1, Len(typed)) \in Seq(Chars) /\ Len(SubSeq(typed, k + 1, Len(typed))) = Len(typed) - k
        /\ \A i \in 1..(Len(typed) - k) : SubSeq(typed, k + 1, Len(typed))[i] = typed[k + i]
    BY <1>1, Cut
  <2>3. Len(typed) - k \in Nat /\ Len(typed) - k <= Len(typed)
    BY <1>1
  <2> QED BY <1>2, <2>1, <2>2, <2>3, CharCells
<1>3. CASE ~asked.echo
  <2>1. Visible(k) = <<>>
    BY <1>3 DEF Visible
  <2>2. <<>> \in Seq(Cells) /\ Len(<<>>) = 0
    BY EmptySeq
  <2>3. Len(Visible(k)) = 0
    BY <2>1, <2>2
  <2>4. Len(Visible(k)) \in Nat /\ Len(Visible(k)) <= Len(typed)
    BY <1>1, <2>3
  <2> QED BY <1>3, <2>1, <2>2, <2>4
<1> QED BY <1>1, <1>2, <1>3

LEMMA NothingShown == Shows(<<>>) <=> tty = NewLine
<1>1. Screen(<<>>, Len(<<>>)) = NewLine
  <2>1. Len(<<>>) = 0
    OBVIOUS
  <2> QED BY <2>1, NewLineIs
<1> QED BY <1>1 DEF Shows

\* An answer that ends or is given up.
LEMMA AnswerKeeps ==
  ASSUME IInv, Waiting, UNCHANGED <<edit, pending, page, hist, nav, shell, mixed>>, Answered,
         ignoreLf' \in BOOLEAN, afterCr' \in BOOLEAN, gen' \in {gen, <<>>},
         tty' \in Ttys, midline' \in BOOLEAN, torn' \in BOOLEAN,
         midline' \/ torn' => gen' = <<>>, ~(midline' /\ torn'), ~midline' /\ ~torn' => tty' = NewLine
  PROVE  IInv'
<1>1. /\ Command /\ EditTyped /\ RunTyped /\ AskTyped /\ HistTyped /\ NavTyped /\ ShellTyped /\ MarksTyped
      /\ line = <<>> /\ cursor = 0 /\ pending = Nothing /\ length \in Nat
  BY AskingIs
<1>2. /\ asked' = NoQuestion /\ typed' = <<>> /\ state' = "running" /\ unseen' = 0
      /\ pending' = Nothing /\ page' = page /\ line' = <<>> /\ cursor' = 0 /\ mixed' = mixed
      /\ stack' = stack /\ length' = length
  BY <1>1 DEF Answered, edit, shell
<1>3. EditTyped'
  <2>1. <<>> \in Lines
    BY EmptyLine
  <2>2. 0 \in 0..Len(<<>>)
    OBVIOUS
  <2> QED BY <1>2, <2>1, <2>2 DEF EditTyped
<1>4. RunTyped'
  <2>1. <<>> \in Seq(Items) /\ 0 \in Nat
    OBVIOUS
  <2>2. gen' \in Seq(Items)
    BY <1>1, <2>1 DEF RunTyped
  <2> QED BY <1>1, <1>2, <2>2 DEF RunTyped
<1>5. AskTyped'
  BY <1>2, EmptyLine DEF AskTyped
<1>6. HistTyped' /\ NavTyped' /\ ShellTyped'
  BY <1>1, TypesKept
<1>7. MarksTyped'
  BY <1>1, <1>2 DEF MarksTyped
<1>8. TypeOK'
  BY <1>3, <1>4, <1>5, <1>6, <1>7, TypesNext
<1>9. Command'
  <2>1. CASE gen' = gen
    BY <1>1, <1>2, <2>1, CommandSame
  <2>2. CASE gen' = <<>>
    BY <1>2, <2>2, CommandOver
  <2> QED BY <2>1, <2>2
<1>10. unseen' <= page' /\ (length' > 0 => unseen' <= length' /\ unseen' < length')
  <2>1. page \in Nat
    BY <1>1 DEF RunTyped
  <2> QED BY <1>1, <1>2, <2>1
<1> QED BY <1>2, <1>8, <1>9, <1>10, ToRunning

\* An answer that goes on.
LEMMA StillAsking ==
  ASSUME IInv, Waiting, UNCHANGED <<state, edit, gen, pending, page, asked, unseen, hist, nav, shell>>,
         ignoreLf' \in BOOLEAN, afterCr' \in BOOLEAN, typed' \in Lines,
         tty' \in Ttys, midline' \in BOOLEAN, torn' \in BOOLEAN, mixed' \in BOOLEAN, Asking'
  PROVE  IInv'
<1>1. /\ Command /\ EditTyped /\ RunTyped /\ AskTyped /\ HistTyped /\ NavTyped /\ ShellTyped
      /\ line = <<>> /\ cursor = 0 /\ pending = Nothing
      /\ length \in Nat /\ (length > 0 => unseen <= length) /\ unseen <= page
  BY AskingIs
<1>2. line' = line /\ cursor' = cursor /\ stack' = stack /\ length' = length
  BY DEF edit, shell
<1>3. EditTyped' /\ RunTyped' /\ AskTyped' /\ MarksTyped'
  BY <1>1, <1>2 DEF EditTyped, RunTyped, AskTyped, MarksTyped
<1>4. HistTyped' /\ NavTyped' /\ ShellTyped'
  BY <1>1, TypesKept
<1>5. TypeOK'
  BY <1>3, <1>4, TypesNext
<1>6. Command'
  BY <1>1, <1>2, CommandSame
<1>7. Navigable' /\ NoLine' /\ AtPrompt' /\ InCommand' /\ AtMore'
  BY <1>1, <1>2 DEF Waiting, Navigable, NoLine, AtPrompt, InCommand, AtMore
<1>8. Counted'
  BY <1>1, <1>2 DEF Waiting, Counted
<1> QED BY <1>5, <1>6, <1>7, <1>8 DEF IInv

LEMMA CutAppend ==
  ASSUME NEW s \in Seq(Cells), NEW ch \in Cells, NEW k \in 0..Len(s)
  PROVE  SubSeq(Append(s, ch), k + 1, Len(Append(s, ch))) = Append(SubSeq(s, k + 1, Len(s)), ch)
<1> DEFINE w == Append(s, ch)
           u == SubSeq(w, k + 1, Len(w))
           v == SubSeq(s, k + 1, Len(s))
<1>1. Len(s) \in Nat /\ w \in Seq(Cells) /\ Len(w) = Len(s) + 1 /\ w[Len(s) + 1] = ch /\ \A i \in 1..Len(s) : w[i] = s[i]
  OBVIOUS
<1>2. k \in 0..Len(w)
  BY <1>1
<1>3. v \in Seq(Cells) /\ Len(v) = Len(s) - k /\ \A i \in 1..(Len(s) - k) : v[i] = s[k + i]
  BY Cut
<1> HIDE DEF w, v
<1>4. u \in Seq(Cells) /\ Len(u) = Len(w) - k /\ \A i \in 1..(Len(w) - k) : u[i] = w[k + i]
  BY <1>1, <1>2, Cut
<1> HIDE DEF u
<1>5. Append(v, ch) \in Seq(Cells) /\ Len(Append(v, ch)) = Len(v) + 1 /\ Append(v, ch)[Len(v) + 1] = ch
      /\ \A i \in 1..Len(v) : Append(v, ch)[i] = v[i]
  BY <1>3
<1>6. ASSUME NEW i \in 1..Len(u) PROVE u[i] = Append(v, ch)[i]
  <2>1. CASE i <= Len(s) - k
    <3>1. i \in 1..(Len(w) - k) /\ i \in 1..(Len(s) - k) /\ k + i \in 1..Len(s) /\ i \in 1..Len(v)
      BY <1>1, <1>3, <1>4, <2>1
    <3> QED BY <1>1, <1>3, <1>4, <1>5, <3>1
  <2>2. CASE ~(i <= Len(s) - k)
    <3>1. i \in 1..(Len(w) - k) /\ k + i = Len(s) + 1 /\ i = Len(v) + 1
      BY <1>1, <1>3, <1>4, <2>2
    <3> QED BY <1>1, <1>4, <1>5, <3>1
  <2> QED BY <2>1, <2>2
<1>7. Len(u) = Len(Append(v, ch))
  BY <1>1, <1>3, <1>4, <1>5
<1>8. u = Append(v, ch)
  BY <1>4, <1>5, <1>6, <1>7, SeqEqual
<1> QED BY <1>8 DEF u, v, w

LEMMA JoinAppend ==
  ASSUME NEW s \in Seq(Cells), NEW t \in Seq(Cells), NEW ch \in Cells
  PROVE  s \o Append(t, ch) = Append(s \o t, ch)
  OBVIOUS

LEMMA CutCut ==
  ASSUME NEW s \in Seq(Cells), NEW a \in 0..Len(s), NEW k \in 0..a
  PROVE  SubSeq(SubSeq(s, 1, a), k + 1, Len(SubSeq(s, 1, a))) = SubSeq(SubSeq(s, k + 1, Len(s)), 1, a - k)
  OBVIOUS

LEMMA CutJoined ==
  ASSUME NEW s \in Seq(Cells), NEW t \in Seq(Cells), NEW a \in 0..Len(t)
  PROVE  SubSeq(s \o t, 1, Len(s) + a) = s \o SubSeq(t, 1, a)
  OBVIOUS

LEMMA CutNone ==
  ASSUME NEW s \in Seq(Cells)
  PROVE  SubSeq(s, 1, 0) = <<>> /\ SubSeq(s, Len(s) + 1, Len(s)) = <<>> /\ SubSeq(s, 0 + 1, Len(s)) = s
  OBVIOUS
LEMMA PromptCharKeeps == ASSUME IInv, NEW ch \in Chars, PromptLineChar(ch) PROVE IInv'
<1>1. /\ state = "prompt_line" /\ Control /\ Len(typed) < MaxLine
      /\ typed' = Append(typed, ch)
      /\ tty' = IF asked.echo THEN Put(tty, <<ch>>) ELSE tty
      /\ UNCHANGED <<state, edit, gen, pending, page, asked, unseen, hist, nav, shell>>
      /\ midline' = midline /\ torn' = torn /\ mixed' = mixed
  BY DEF PromptLineChar, Answering, Echo
<1>2. Waiting
  BY <1>1 DEF Waiting
<1>3. /\ tty \in Ttys /\ midline \in BOOLEAN /\ torn \in BOOLEAN /\ mixed \in BOOLEAN
      /\ ignoreLf \in BOOLEAN /\ afterCr \in BOOLEAN
      /\ typed \in Lines /\ typed \in Seq(Chars) /\ typed \in Seq(Cells) /\ asked \in Questions
      /\ midline => ~torn /\ Shows(asked.text \o Visible(0))
      /\ ~midline => \E k \in 0..Len(typed) :
           /\ Shows(Visible(k))
           /\ ~torn => k = 0 /\ asked.text = <<>>
  BY <1>2, AskingIs, CharCells DEF MarksTyped
<1>4. Len(typed) \in Nat /\ Len(typed) + 2 <= Width
  BY <1>1, <1>2, AskingIs, WidthAssumption, BoundsAssumption
<1>5. asked.text \in Seq(Cells) /\ Len(asked.text) \in Nat /\ Len(asked.text) <= 1
  BY <1>3, QuestionsAre
<1>6. ignoreLf' \in BOOLEAN /\ afterCr' \in BOOLEAN
  BY <1>1, <1>3, CharacterTyped
<1>7. ch \in Cells
  BY DEF Cells
<1>8. typed' \in Lines /\ Len(typed') = Len(typed) + 1
  <2>1. Append(typed, ch) \in Seq(Chars) /\ Len(Append(typed, ch)) = Len(typed) + 1
    BY <1>3
  <2>2. Len(typed) + 1 <= MaxLine
    BY <1>1, <1>4, BoundsAssumption
  <2> QED BY <1>1, <2>1, <2>2, LinesAre
<1>9. tty' \in Ttys
  <2>1. <<ch>> \in Seq(Cells)
    BY <1>7
  <2> QED BY <1>1, <1>3, <2>1, PutTyped
<1>10. ASSUME NEW k \in 0..Len(typed)
       PROVE  /\ k \in 0..Len(typed')
              /\ asked.echo => Visible(k)' = Append(Visible(k), ch)
              /\ ~asked.echo => Visible(k)' = Visible(k)
  <2>1. k \in 0..Len(typed')
    BY <1>4, <1>8
  <2>2. asked.echo => Visible(k)' = Append(Visible(k), ch)
    BY <1>1, <1>3, <1>7, CutAppend DEF Visible
  <2>3. ~asked.echo => Visible(k)' = Visible(k)
    BY <1>1 DEF Visible
  <2> QED BY <2>1, <2>2, <2>3
<1>11. ASSUME NEW v \in Seq(Cells), Len(v) \in Nat, Len(v) <= Len(typed) + 1, Shows(v)
       PROVE  asked.echo => tty' = Screen(Append(v, ch), Len(Append(v, ch)))
  <2>1. Len(v) + 1 <= Width
    BY <1>4, <1>11, WidthAssumption
  <2> QED BY <1>1, <1>7, <1>11, <2>1, TypedOn DEF Shows
<1>12. \A k \in 0..Len(typed) : /\ Visible(k) \in Seq(Cells) /\ Len(Visible(k)) \in Nat
                                /\ Len(Visible(k)) <= Len(typed) + 1
  BY <1>2, <1>4, VisibleIs
<1>13. midline => ~torn' /\ Shows(asked.text \o Visible(0))'
  <2> SUFFICES ASSUME midline PROVE Shows(asked.text \o Visible(0))'
    BY <1>1, <1>3
  <2> DEFINE v == asked.text \o Visible(0)
  <2>1. 0 \in 0..Len(typed)
    BY <1>4
  <2>2. Visible(0) \in Seq(Cells) /\ Len(Visible(0)) \in Nat /\ Len(Visible(0)) <= Len(typed)
    BY <1>2, <2>1, VisibleIs
  <2>3. v \in Seq(Cells) /\ Len(v) = Len(asked.text) + Len(Visible(0))
    BY <1>5, <2>2, ConcatProperties
  <2>4. Len(v) \in Nat /\ Len(v) <= Len(typed) + 1
    BY <1>4, <1>5, <2>2, <2>3
  <2>5. CASE asked.echo
    <3>1. tty' = Screen(Append(v, ch), Len(Append(v, ch)))
      BY <1>3, <1>11, <2>3, <2>4, <2>5
    <3>2. asked.text \o Append(Visible(0), ch) = Append(v, ch)
      BY <1>5, <1>7, <2>2, JoinAppend
    <3>3. (asked.text \o Visible(0))' = Append(v, ch)
      BY <1>1, <1>10, <2>1, <2>5, <3>2
    <3> QED BY <3>1, <3>3 DEF Shows
  <2>6. CASE ~asked.echo
    <3>1. tty' = tty /\ (asked.text \o Visible(0))' = asked.text \o Visible(0)
      BY <1>1, <1>10, <2>1, <2>6
    <3> QED BY <1>3, <3>1 DEF Shows
  <2> QED BY <2>5, <2>6
<1>14. ~midline => \E k \in 0..Len(typed') :
         /\ Shows(Visible(k))'
         /\ ~torn => k = 0 /\ asked.text = <<>>
  <2> SUFFICES ASSUME ~midline PROVE \E k \in 0..Len(typed') : Shows(Visible(k))' /\ (~torn => k = 0 /\ asked.text = <<>>)
    OBVIOUS
  <2>1. PICK k \in 0..Len(typed) : Shows(Visible(k)) /\ (~torn => k = 0 /\ asked.text = <<>>)
    BY <1>3
  <2>2. Shows(Visible(k))'
    <3>1. CASE asked.echo
      <4>1. tty' = Screen(Append(Visible(k), ch), Len(Append(Visible(k), ch)))
        BY <1>11, <1>12, <2>1, <3>1
      <4> QED BY <1>10, <3>1, <4>1 DEF Shows
    <3>2. CASE ~asked.echo
      BY <1>1, <1>10, <2>1, <3>2 DEF Shows
    <3> QED BY <3>1, <3>2
  <2> QED BY <1>10, <2>1, <2>2
<1>15. Asking'
  BY <1>1, <1>3, <1>13, <1>14 DEF Asking
<1> QED BY <1>1, <1>2, <1>3, <1>6, <1>8, <1>9, <1>15, StillAsking

LEMMA PromptEraseKeeps == ASSUME IInv, PromptErase PROVE IInv'
<1>1. PICK n \in {Least(1, Len(typed)), Len(typed)} :
        /\ typed' = SubSeq(typed, 1, Len(typed) - n)
        /\ tty' = IF asked.echo THEN Back(Put(Back(tty, n), Blanks(n)), n) ELSE tty
  BY DEF PromptErase, Echo
<1>2. /\ state = "prompt_line" /\ Control
      /\ UNCHANGED <<state, edit, gen, pending, page, asked, unseen, hist, nav, shell>>
      /\ midline' = midline /\ torn' = torn /\ mixed' = mixed
  BY DEF PromptErase, Answering
<1>3. Waiting
  BY <1>2 DEF Waiting
<1>4. /\ tty \in Ttys /\ midline \in BOOLEAN /\ torn \in BOOLEAN /\ mixed \in BOOLEAN
      /\ ignoreLf \in BOOLEAN /\ afterCr \in BOOLEAN
      /\ typed \in Lines /\ typed \in Seq(Chars) /\ typed \in Seq(Cells) /\ asked \in Questions
      /\ midline => ~torn /\ Shows(asked.text \o Visible(0))
      /\ ~midline => \E k \in 0..Len(typed) :
           /\ Shows(Visible(k))
           /\ ~torn => k = 0 /\ asked.text = <<>>
  BY <1>3, AskingIs, CharCells DEF MarksTyped
<1>5. Len(typed) \in Nat /\ Len(typed) <= MaxLine /\ Len(typed) + 2 <= Width /\ MaxLine \in Nat /\ Width \in Nat
  BY <1>3, AskingIs, WidthAssumption, BoundsAssumption
<1>6. asked.text \in Seq(Cells) /\ Len(asked.text) \in Nat /\ Len(asked.text) <= 1
  BY <1>4, QuestionsAre
<1>7. ignoreLf' \in BOOLEAN /\ afterCr' \in BOOLEAN
  BY <1>2, <1>4, CharacterTyped
<1> DEFINE a == Len(typed) - n
<1>8. n \in Nat /\ n <= Len(typed)
  BY <1>5 DEF Least
<1>9. a \in 0..Len(typed) /\ a \in Nat /\ n = Len(typed) - a
  BY <1>5, <1>8
<1>10. typed' = SubSeq(typed, 1, a)
  BY <1>1
<1> HIDE DEF a
<1>11. typed' \in Lines /\ Len(typed') = a
  <2>1. SubSeq(typed, 1, a) \in Seq(Chars) /\ Len(SubSeq(typed, 1, a)) = a
    BY <1>4, <1>9, Cut
  <2>2. a <= MaxLine
    BY <1>5, <1>9
  <2> QED BY <1>10, <2>1, <2>2, LinesAre
<1>12. tty' \in Ttys
  <2>1. Blanks(n) \in Seq(Cells)
    BY <1>8, BlankChars, CharCells
  <2>2. Back(tty, n) \in Ttys
    BY <1>4, <1>8, BackTyped
  <2>3. Put(Back(tty, n), Blanks(n)) \in Ttys
    BY <2>1, <2>2, PutTyped
  <2>4. Back(Put(Back(tty, n), Blanks(n)), n) \in Ttys
    BY <1>8, <2>3, BackTyped
  <2> QED BY <1>1, <1>4, <2>4
<1>13. ASSUME NEW v \in Seq(Cells), Len(v) <= Width, Shows(v), NEW m, m = IF n < Len(v) THEN Len(v) - n ELSE 0
       PROVE  asked.echo => tty' = Screen(SubSeq(v, 1, m), m)
  BY <1>1, <1>8, <1>13, EndErased DEF Shows
<1>14. \A k : Visible(k)' = IF asked.echo THEN SubSeq(typed', k + 1, Len(typed')) ELSE <<>>
  BY <1>2 DEF Visible
<1>15. \A k : ~asked.echo => Visible(k)' = Visible(k)
  BY <1>14 DEF Visible
<1>16. midline => ~torn' /\ Shows(asked.text \o Visible(0))'
  <2> SUFFICES ASSUME midline PROVE Shows(asked.text \o Visible(0))'
    BY <1>2, <1>4
  <2>1. CASE asked.echo
    <3> DEFINE v == asked.text \o typed
               m == Len(asked.text) + a
    <3>1. Visible(0) = typed
      BY <1>4, <2>1, CutNone DEF Visible
    <3>2. v \in Seq(Cells) /\ Len(v) = Len(asked.text) + Len(typed)
      BY <1>4, <1>6, ConcatProperties
    <3>3. Len(v) <= Width /\ m = IF n < Len(v) THEN Len(v) - n ELSE 0
      BY <1>5, <1>6, <1>9, <3>2
    <3>4. Shows(v)
      BY <1>4, <3>1
    <3>5. SubSeq(v, 1, m) = asked.text \o SubSeq(typed, 1, a)
      BY <1>4, <1>6, <1>9, CutJoined
    <3>6. Visible(0)' = SubSeq(typed, 1, a)
      <4>1. SubSeq(typed, 1, a) \in Seq(Cells)
        BY <1>4, <1>9, Cut
      <4> QED BY <1>10, <1>14, <2>1, <4>1, CutNone
    <3>7. (asked.text \o Visible(0))' = SubSeq(v, 1, m)
      BY <1>2, <3>5, <3>6
    <3>8. Len(SubSeq(v, 1, m)) = m
      <4>1. m \in 0..Len(v)
        BY <1>5, <1>6, <1>9, <3>2
      <4> HIDE DEF m, v
      <4> QED BY <3>2, <4>1, Cut
    <3> HIDE DEF v, m
    <3>9. tty' = Screen(SubSeq(v, 1, m), m)
      BY <1>13, <2>1, <3>2, <3>3, <3>4
    <3> QED BY <3>7, <3>8, <3>9 DEF Shows
  <2>2. CASE ~asked.echo
    <3>1. tty' = tty /\ (asked.text \o Visible(0))' = asked.text \o Visible(0)
      BY <1>1, <1>2, <1>15, <2>2
    <3> QED BY <1>4, <3>1 DEF Shows
  <2> QED BY <2>1, <2>2
<1>17. ~midline => \E k \in 0..Len(typed') :
         /\ Shows(Visible(k))'
         /\ ~torn => k = 0 /\ asked.text = <<>>
  <2> SUFFICES ASSUME ~midline PROVE \E k \in 0..Len(typed') : Shows(Visible(k))' /\ (~torn => k = 0 /\ asked.text = <<>>)
    OBVIOUS
  <2>1. PICK k \in 0..Len(typed) : Shows(Visible(k)) /\ (~torn => k = 0 /\ asked.text = <<>>)
    BY <1>4
  <2>4. (IF k <= a THEN k ELSE a) \in 0..Len(typed')
    BY <1>9, <1>11
  <2>5. PICK j \in 0..Len(typed') : j = IF k <= a THEN k ELSE a
    BY <2>4
  <2>2. k = 0 => j = 0
    BY <1>9, <2>5
  <2>3. Shows(Visible(j))'
    <3>1. CASE ~asked.echo
      <4>1. tty' = tty /\ Visible(j)' = <<>> /\ Visible(k) = <<>>
        BY <1>1, <1>14, <3>1 DEF Visible
      <4> QED BY <2>1, <4>1 DEF Shows
    <3>2. CASE asked.echo
      <4> DEFINE v == SubSeq(typed, k + 1, Len(typed))
                 m == a - j
      <4>1. Visible(k) = v
        BY <3>2 DEF Visible
      <4>2. v \in Seq(Cells) /\ Len(v) = Len(typed) - k
        BY <1>4, Cut
      <4>3. k \in Nat /\ k <= Len(typed)
        BY <1>5
      <4> HIDE DEF v
      <4>4. Len(v) <= Width /\ m = (IF n < Len(v) THEN Len(v) - n ELSE 0) /\ m \in 0..Len(v)
        <5>1. CASE k <= a
          <6>1. j = k
            BY <2>5, <5>1
          <6> QED BY <1>5, <1>9, <4>2, <4>3, <5>1, <6>1
        <5>2. CASE ~(k <= a)
          <6>1. j = a
            BY <2>5, <5>2
          <6> QED BY <1>5, <1>9, <4>2, <4>3, <5>2, <6>1
        <5> QED BY <5>1, <5>2
      <4>5. Shows(v)
        BY <2>1, <4>1
      <4> HIDE DEF m
      <4>6. tty' = Screen(SubSeq(v, 1, m), m)
        BY <1>13, <3>2, <4>2, <4>4, <4>5
      <4>7. Len(SubSeq(v, 1, m)) = m
        BY <4>2, <4>4, Cut
      <4>8. Visible(j)' = SubSeq(typed', j + 1, Len(typed'))
        BY <1>14, <3>2
      <4>9. SubSeq(typed', j + 1, Len(typed')) = SubSeq(v, 1, m)
        <5>1. CASE k <= a
          <6>1. j = k /\ k \in 0..a
            BY <1>9, <2>5, <4>3, <5>1
          <6>2. SubSeq(SubSeq(typed, 1, a), k + 1, Len(SubSeq(typed, 1, a))) = SubSeq(SubSeq(typed, k + 1, Len(typed)), 1, a - k)
            BY <1>4, <1>9, <6>1, CutCut
          <6> QED BY <1>10, <6>1, <6>2 DEF m, v
        <5>2. CASE ~(k <= a)
          <6>1. j = a /\ m = 0
            BY <1>9, <2>5, <5>2 DEF m
          <6>2. typed' \in Seq(Cells) /\ j = Len(typed')
            BY <1>11, <6>1, LinesAre, CharCells
          <6>3. SubSeq(typed', Len(typed') + 1, Len(typed')) = <<>>
            BY <6>2, CutNone
          <6>4. SubSeq(v, 1, 0) = <<>>
            BY <4>2, CutNone
          <6> QED BY <6>1, <6>2, <6>3, <6>4
        <5> QED BY <5>1, <5>2
      <4> QED BY <4>6, <4>7, <4>8, <4>9 DEF Shows
    <3> QED BY <3>1, <3>2
  <2> QED BY <2>1, <2>2, <2>3
<1>18. Asking'
  BY <1>2, <1>4, <1>16, <1>17 DEF Asking
<1> QED BY <1>2, <1>3, <1>4, <1>7, <1>11, <1>12, <1>18, StillAsking

\* The row of a question of which nothing is to be seen.
LEMMA BareRow ==
  ASSUME IInv, Waiting, ~midline, ~asked.echo \/ typed = <<>>
  PROVE  tty = NewLine
<1>1. PICK k \in 0..Len(typed) : Shows(Visible(k))
  BY AskingIs
<1>2. Visible(k) = <<>>
  <2>1. CASE ~asked.echo
    BY <2>1 DEF Visible
  <2>2. CASE typed = <<>>
    <3>1. k = 0
      BY <2>2
    <3>2. SubSeq(<<>>, 0 + 1, Len(<<>>)) = <<>>
      OBVIOUS
    <3> QED BY <2>2, <3>1, <3>2 DEF Visible
  <2> QED BY <2>1, <2>2
<1> QED BY <1>1, <1>2, NothingShown

LEMMA AnswersKeep == ASSUME IInv, FinishPromptLine \/ PromptAbort \/ PromptKeyEnter \/ PromptKeyChar PROVE IInv'
<1>1. /\ Waiting /\ UNCHANGED <<edit, pending, page, hist, nav, shell, mixed>> /\ Answered
      /\ Control \/ Enter \/ (ignoreLf' = ignoreLf /\ afterCr' = FALSE)
  BY DEF FinishPromptLine, PromptAbort, PromptKeyEnter, PromptKeyChar, Answering, Waiting
<1>2. /\ ignoreLf \in BOOLEAN /\ afterCr \in BOOLEAN /\ midline \in BOOLEAN /\ torn \in BOOLEAN
      /\ asked.echo \in BOOLEAN /\ tty \in Ttys
      /\ (midline => ~torn) /\ (state = "prompt_key" => typed = <<>>)
  BY <1>1, AskingIs
<1>3. ignoreLf' \in BOOLEAN /\ afterCr' \in BOOLEAN
  BY <1>1, <1>2, CharacterTyped
<1>4. CASE FinishPromptLine \/ PromptKeyEnter
  <2>1. tty' = NewLine /\ midline' = FALSE /\ torn' = FALSE /\ gen' = gen
    BY <1>4 DEF FinishPromptLine, PromptKeyEnter
  <2> QED BY <1>1, <1>3, <2>1, NewLineTyped, AnswerKeeps
<1>5. CASE PromptAbort
  <2>1. /\ tty' = IF midline THEN NewLine ELSE tty
        /\ torn' = (~midline /\ asked.echo /\ typed # <<>>)
        /\ midline' = FALSE /\ gen' = <<>>
    BY <1>5 DEF PromptAbort
  <2>2. tty' \in Ttys /\ torn' \in BOOLEAN
    BY <1>2, <2>1, NewLineTyped
  <2>3. ~torn' => tty' = NewLine
    BY <1>1, <1>2, <2>1, BareRow
  <2> QED BY <1>1, <1>3, <2>1, <2>2, <2>3, AnswerKeeps
<1>6. CASE PromptKeyChar
  <2>1. torn' = FALSE /\ state = "prompt_key"
    BY <1>6 DEF PromptKeyChar, Answering
  <2>2. CASE gen' \in {gen, <<>>} /\ tty' = NewLine /\ midline' = FALSE
    BY <1>1, <1>3, <2>1, <2>2, NewLineTyped, AnswerKeeps
  <2>3. CASE gen' = <<>> /\ tty' = tty /\ midline' = midline
    <3>1. ~midline => tty = NewLine
      BY <1>1, <1>2, <2>1, BareRow
    <3> QED BY <1>1, <1>2, <1>3, <2>1, <2>3, <3>1, AnswerKeeps
  <2> QED BY <1>6, <2>2, <2>3 DEF PromptKeyChar
<1> QED BY <1>4, <1>5, <1>6

-----------------------------------------------------------------------------
(* Characters without an effect, and log messages.                         *)

LEMMA SameKeeps ==
  ASSUME IInv, UNCHANGED <<tty, edit, state, run, ask, hist, nav, shell, unseen, torn, mixed>>,
         ignoreLf' \in {ignoreLf, FALSE}, afterCr' \in {afterCr, FALSE}
  PROVE  IInv'
<1>1. UNCHANGED <<tty, edit, state, run, ask, hist, nav, shell, unseen, torn, mixed>>
  OBVIOUS
<1>2. EditTyped /\ RunTyped /\ AskTyped /\ HistTyped /\ NavTyped /\ ShellTyped /\ MarksTyped
  BY Types DEF IInv
<1>3. EditTyped'
  BY <1>1, <1>2 DEF EditTyped, edit
<1>4. RunTyped' /\ AskTyped' /\ HistTyped' /\ NavTyped' /\ ShellTyped' /\ MarksTyped'
  BY <1>1, <1>2, TypesKept
<1>5. TypeOK'
  BY <1>3, <1>4, TypesNext
<1>6. UNCHANGED <<tty, line, cursor, state, gen, pending, page, midline, asked, typed, history, index, stack,
                  privilege, length, unseen, torn>>
  BY <1>1 DEF edit, run, ask, hist, nav, shell
<1>7. Command'
  BY <1>6 DEF IInv, Command, ItemFits, Deepens
<1>8. Navigable' /\ NoLine' /\ InCommand' /\ AtMore' /\ Counted'
  BY <1>6 DEF IInv, Navigable, NoLine, InCommand, AtMore, Counted
<1>9. AtPrompt'
  BY <1>6 DEF IInv, AtPrompt, Prompt
<1>10. Asking'
  <2>1. asked' = asked /\ typed' = typed /\ state' = state /\ midline' = midline /\ torn' = torn
    BY <1>6
  <2>2. \A k : Visible(k)' = Visible(k)
    BY <2>1 DEF Visible
  <2>3. Shows(asked.text \o Visible(0))' <=> Shows(asked.text \o Visible(0))
    BY <1>6, <2>1, <2>2 DEF Shows
  <2>4. \A k : Shows(Visible(k))' <=> Shows(Visible(k))
    BY <1>6, <2>2 DEF Shows
  <2> QED BY <2>1, <2>3, <2>4 DEF IInv, Asking
<1> QED BY <1>5, <1>7, <1>8, <1>9, <1>10 DEF IInv

LEMMA InjectIdleKeeps ==
  ASSUME IInv, NEW sync \in BOOLEAN, InjectIdle(sync),
         UNCHANGED <<ignoreLf, afterCr, state, gen, pending, page, ask, hist, nav, shell, unseen>>
  PROVE  IInv'
<1>1. Idle /\ midline' = midline /\ mixed' = mixed
  BY DEF InjectIdle
<1>2. TypeOK /\ NavTyped /\ index <= Len(history) /\ ignoreLf \in BOOLEAN /\ afterCr \in BOOLEAN
  BY <1>1, IdleIs
<1>3. UNCHANGED <<state, run, ask, hist, shell, unseen, mixed>> /\ UNCHANGED nav
  BY <1>1 DEF run
<1>4. CASE sync
  <2>1. Reprint
    BY <1>4 DEF InjectIdle
  <2> QED BY <1>1, <1>2, <1>3, <2>1, ReprintKeeps
<1>5. CASE ~sync
  <2>1. tty' = NewLine /\ torn' = TRUE /\ line' = line /\ cursor' = cursor
    BY <1>5 DEF InjectIdle, edit
  <2>2. line \in Lines /\ cursor \in 0..Len(line)
    BY <1>2, Types DEF EditTyped
  <2>3. NavTyped' /\ index' <= Len(history)
    BY <1>2, <1>3, TypesKept DEF nav
  <2>4. NewLine \in Ttys
    BY NewLineTyped
  <2>5. AtPrompt' /\ EditTyped'
    BY <1>2, <2>1, <2>2, <2>4 DEF AtPrompt, EditTyped
  <2>6. RunTyped' /\ AskTyped' /\ HistTyped' /\ ShellTyped' /\ MarksTyped'
    <3>1. MarksTyped
      BY <1>2, Types
    <3> QED BY <1>1, <1>2, <1>3, <2>1, <3>1, Types, TypesKept DEF MarksTyped
  <2>7. TypeOK'
    BY <2>3, <2>5, <2>6, TypesNext
  <2>8. UNCHANGED <<state, gen, pending, page, midline, history, index, stack, length, unseen>> /\ state = "idle"
    BY <1>1, <1>3 DEF run, hist, nav, shell, Idle
  <2>9. Command' /\ Navigable' /\ Counted'
    BY <2>8 DEF IInv, Command, ItemFits, Deepens, Navigable, Counted
  <2>10. NoLine' /\ InCommand' /\ AtMore' /\ Asking'
    BY <2>8 DEF NoLine, InCommand, AtMore, Asking
  <2> QED BY <2>5, <2>7, <2>9, <2>10 DEF IInv
<1> QED BY <1>4, <1>5

LEMMA InjectWaitingKeeps ==
  ASSUME IInv, InjectWaiting,
         UNCHANGED <<ignoreLf, afterCr, state, gen, pending, page, ask, hist, nav, shell, unseen>>
  PROVE  IInv'
<1>1. /\ state \in {"more", "prompt_line", "prompt_key"}
      /\ mixed' \in BOOLEAN /\ tty' = NewLine /\ midline' = FALSE /\ torn' = TRUE
      /\ line' = line /\ cursor' = cursor
  <2>1. mixed \in BOOLEAN
    BY Types DEF IInv, MarksTyped
  <2> QED BY <2>1 DEF InjectWaiting, edit
<1>2. CASE state = "more"
  <2>1. /\ Command /\ EditTyped /\ RunTyped /\ AskTyped /\ HistTyped /\ NavTyped /\ ShellTyped /\ MarksTyped
        /\ line = <<>> /\ cursor = 0
        /\ length \in Nat /\ (length > 0 => unseen <= length) /\ unseen <= page
    BY <1>2, MoreIs
  <2>2. EditTyped' /\ RunTyped' /\ MarksTyped'
    BY <1>1, <2>1, NewLineTyped DEF EditTyped, RunTyped, MarksTyped
  <2>3. AskTyped' /\ HistTyped' /\ NavTyped' /\ ShellTyped'
    BY <2>1, TypesKept
  <2>4. TypeOK'
    BY <2>2, <2>3, TypesNext
  <2>5. length' = length /\ stack' = stack
    BY DEF shell
  <2>6. Command'
    BY <1>2, <2>1, <2>5, CommandSame
  <2>7. Navigable' /\ NoLine' /\ AtPrompt' /\ InCommand' /\ AtMore' /\ Asking'
    BY <1>1, <1>2, <2>1 DEF Navigable, NoLine, AtPrompt, InCommand, AtMore, Asking
  <2>8. Counted'
    BY <1>2, <2>1, <2>5 DEF Counted
  <2> QED BY <2>4, <2>6, <2>7, <2>8 DEF IInv
<1>3. CASE state # "more"
  <2>1. Waiting
    BY <1>1, <1>3 DEF Waiting
  <2>2. /\ ignoreLf \in BOOLEAN /\ afterCr \in BOOLEAN /\ typed \in Lines /\ typed \in Seq(Cells) /\ Len(typed) \in Nat
        /\ asked \in Questions /\ (state = "prompt_key" => typed = <<>>)
    BY <2>1, AskingIs, CharCells
  <2>3. asked' = asked /\ typed' = typed /\ UNCHANGED edit
    BY <1>1 DEF ask, edit
  <2>5. PICK k \in 0..Len(typed') : k = Len(typed)
    <3>1. Len(typed) \in 0..Len(typed')
      BY <2>2, <2>3
    <3> QED BY <3>1
  <2>6. Visible(k)' = <<>>
    <3>1. SubSeq(typed, Len(typed) + 1, Len(typed)) = <<>>
      BY <2>2, CutNone
    <3> QED BY <2>3, <2>5, <3>1 DEF Visible
  <2>7. Shows(Visible(k))'
    <3>1. Screen(<<>>, Len(<<>>)) = NewLine
      <4>1. Len(<<>>) = 0
        OBVIOUS
      <4> QED BY <4>1, NewLineIs
    <3> QED BY <1>1, <2>6, <3>1 DEF Shows
  <2>8. Asking'
    BY <1>1, <2>2, <2>3, <2>7 DEF Asking
  <2>9. midline' \in BOOLEAN /\ torn' \in BOOLEAN /\ mixed' \in BOOLEAN /\ tty' \in Ttys
    BY <1>1, NewLineTyped
  <2> QED BY <1>1, <2>1, <2>2, <2>3, <2>8, <2>9, StillAsking
<1> QED BY <1>2, <1>3

LEMMA InjectKeeps == ASSUME IInv, InjectMessage PROVE IInv'
  BY InjectIdleKeeps, InjectWaitingKeeps DEF InjectMessage

LEMMA InitHolds == Init => IInv
<1> SUFFICES ASSUME Init PROVE IInv
  OBVIOUS
<1>1. /\ tty = Put(NewLine, Prompt) /\ line = <<>> /\ cursor = 0 /\ ignoreLf = FALSE /\ afterCr = FALSE
      /\ state = "idle" /\ gen = <<>> /\ pending = Nothing /\ page = 0 /\ midline = FALSE
      /\ asked = NoQuestion /\ typed = <<>> /\ history = <<>> /\ index = 0 /\ stash = <<>>
      /\ unseen = 0 /\ torn = FALSE /\ mixed = FALSE
      /\ stack = <<"exec">> /\ privilege = 1 /\ syslog = 0 /\ closed = FALSE
      /\ length \in PageLengths /\ histMax \in 0..MaxHistory
  BY DEF Init
<1>2. <<>> \in Lines /\ Len(<<>>) = 0
  BY EmptyLine
<1>3. EditTyped
  <2>1. Put(NewLine, Prompt) \in Ttys
    BY NewLineTyped, PromptTyped, PutTyped
  <2>2. 0 \in 0..Len(<<>>)
    OBVIOUS
  <2> QED BY <1>1, <1>2, <2>1, <2>2 DEF EditTyped
<1>4. RunTyped
  <2>1. Nothing \in [lines : 0..(MaxOutput + 1), piece : BOOLEAN] /\ <<>> \in Seq(Items)
    BY BoundsAssumption DEF Nothing
  <2> QED BY <1>1, <2>1 DEF RunTyped
<1>5. AskTyped /\ MarksTyped
  BY <1>1, <1>2 DEF AskTyped, MarksTyped
<1>6. HistTyped
  <2>1. <<>> \in Seq(Lines)
    OBVIOUS
  <2>2. Len(<<>>) <= histMax
    BY <1>1, BoundsAssumption
  <2> QED BY <1>1, <2>1, <2>2 DEF HistTyped
<1>7. NavTyped
  <2>1. 0 \in 0..MaxHistory
    BY BoundsAssumption
  <2> QED BY <1>1, <2>1 DEF NavTyped
<1>8. ShellTyped
  <2>1. "exec" \in Modes
    BY DEF Modes
  <2>2. <<"exec">> \in Seq(Modes) /\ Len(<<"exec">>) = 1
    BY <2>1
  <2>3. 1 \in 1..MaxDepth /\ 0 \in Nat
    BY BoundsAssumption
  <2> QED BY <1>1, <2>2, <2>3 DEF ShellTyped
<1>9. TypeOK
  BY <1>3, <1>4, <1>5, <1>6, <1>7, <1>8, Types
<1>10. Command
  <2>1. 1..Len(gen) = {}
    BY <1>1
  <2>2. ~pending.piece
    BY <1>1 DEF Nothing
  <2> QED BY <1>1, <2>1, <2>2 DEF Command
<1>11. Navigable
  BY <1>1 DEF Navigable
<1>12. AtPrompt
  <2>1. Put(NewLine, Prompt \o <<>>) = Screen(Prompt \o <<>>, 1 + Len(<<>>))
    BY <1>2, Reprinted
  <2>2. Prompt \o <<>> = Prompt
    BY PromptTyped, ConcatEmptySeq
  <2>3. 1 + Len(<<>>) = 1 + 0
    OBVIOUS
  <2>4. tty = Screen(Prompt \o line, 1 + cursor)
    BY <1>1, <2>1, <2>2, <2>3
  <2> QED BY <2>4 DEF AtPrompt
<1>13. NoLine /\ InCommand /\ AtMore /\ Asking
  BY <1>1 DEF NoLine, InCommand, AtMore, Asking
<1>14. Counted
  <2>1. length \in Nat
    BY <1>1, BoundsAssumption
  <2> QED BY <1>1, <2>1 DEF Counted
<1> QED BY <1>9, <1>10, <1>11, <1>12, <1>13, <1>14 DEF IInv

LEMMA NextKeeps == IInv /\ [Next]_vars => IInv'
<1> SUFFICES ASSUME IInv, [Next]_vars PROVE IInv'
  OBVIOUS
<1>1. CASE IdleKey
  BY <1>1, EditorKeeps, TabHelpKeep, HistoryKeeps, SubmitKeeps DEF IdleKey
<1>2. CASE WaitingKey
  <2>1. CASE KeyIgnored
    BY <2>1, SameKeeps DEF KeyIgnored
  <2> QED BY <1>2, <2>1, PagerKeeps, PromptCharKeeps, PromptEraseKeeps, AnswersKeep DEF WaitingKey
<1>3. CASE SwallowLf
  BY <1>3, SameKeeps DEF SwallowLf
<1>4. CASE Pump
  BY <1>4, DrainLineKeeps, DrainPieceKeeps, PauseKeeps, YieldOutputKeeps, BeginPromptKeeps, RunEffectKeeps,
     RunTerminalKeeps, FinishCommandKeeps DEF Pump
<1>5. CASE InjectMessage
  BY <1>5, InjectKeeps
<1>6. CASE UNCHANGED vars
  <2>1. UNCHANGED <<tty, edit, state, run, ask, hist, nav, shell, unseen, torn, mixed>> /\ ignoreLf' = ignoreLf /\ afterCr' = afterCr
    BY <1>6 DEF vars
  <2> QED BY <2>1, SameKeeps
<1> QED BY <1>1, <1>2, <1>3, <1>4, <1>5, <1>6 DEF Next

-----------------------------------------------------------------------------
(* The theorems about IosTerminal.                                         *)

\* The inductive invariant: in each state of a console, what is in the row of the
\* cursor, what the command has still to yield and what the pager has counted.
THEOREM InductiveInvariant == Spec => []IInv
  BY InitHolds, NextKeeps, PTL DEF Spec

\* What is in the row is what redraw puts there.
LEMMA RedrawIs == IInv => ScreensAgree
<1> SUFFICES ASSUME IInv, state # "closed", ~torn PROVE tty = Redraw
  BY DEF ScreensAgree
<1>1. TypeOK /\ torn = FALSE
  BY Types DEF IInv, MarksTyped
<1>2. CASE state = "idle"
  <2>1. tty = Screen(Prompt \o line, 1 + cursor)
    BY <1>2 DEF IInv, AtPrompt
  <2>2. /\ Len(line) \in Nat /\ cursor \in Nat /\ cursor <= Len(line)
    BY <1>1, LineNumbers
  <2>3. Put(NewLine, Prompt \o line) = Screen(Prompt \o line, 1 + Len(line))
    BY <1>1, LineIs, Reprinted
  <2> DEFINE c == 1 + Len(line)
             n == Len(line) - cursor
  <2>4. c \in Nat /\ n \in 0..c /\ c - n = 1 + cursor
    BY <2>2
  <2> HIDE DEF c, n
  <2>5. Back(Screen(Prompt \o line, c), n) = Screen(Prompt \o line, c - n)
    BY <2>4, BackIs
  <2>6. Redraw = Back(Put(NewLine, Prompt \o line), n)
    BY <1>2 DEF Redraw, n
  <2> QED BY <2>1, <2>3, <2>4, <2>5, <2>6 DEF c
<1>3. CASE state = "more"
  <2>1. tty = Screen(MORE_PROMPT, 1)
    BY <1>3 DEF IInv, AtMore
  <2>2. Len(MORE_PROMPT) = 1
    BY DEF MORE_PROMPT
  <2>3. Len(MORE_PROMPT) \in Nat /\ Len(MORE_PROMPT) <= Width
    BY <2>2, WidthAssumption, BoundsAssumption
  <2>4. Put(NewLine, MORE_PROMPT) = Screen(MORE_PROMPT, Len(MORE_PROMPT))
    BY <2>3, NewRow
  <2>5. Redraw = Put(NewLine, MORE_PROMPT)
    BY <1>3 DEF Redraw
  <2> QED BY <2>1, <2>2, <2>4, <2>5
<1>4. CASE state \in {"prompt_line", "prompt_key"}
  <2> DEFINE v == asked.text \o (IF asked.echo THEN typed ELSE <<>>)
  <2>1. Waiting
    BY <1>4 DEF Waiting
  <2>2. /\ typed \in Seq(Chars) /\ typed \in Seq(Cells) /\ Len(typed) \in Nat /\ Len(typed) <= MaxLine
        /\ asked \in Questions /\ asked.echo \in BOOLEAN /\ midline \in BOOLEAN
        /\ midline => Shows(asked.text \o Visible(0))
        /\ ~midline => asked.text = <<>> /\ Shows(Visible(0))
    BY <1>1, <2>1, AskingIs, CharCells
  <2>3. asked.text \in Seq(Cells) /\ Len(asked.text) \in Nat /\ Len(asked.text) <= 1
    BY <2>2, QuestionsAre
  <2>4. Visible(0) = IF asked.echo THEN typed ELSE <<>>
    BY <2>2, CutNone DEF Visible
  <2>5. Visible(0) \in Seq(Cells) /\ Len(Visible(0)) \in Nat /\ Len(Visible(0)) <= Len(typed)
    <3>1. 0 \in 0..Len(typed)
      BY <2>2
    <3> QED BY <2>1, <3>1, VisibleIs
  <2>6. v = asked.text \o Visible(0)
    BY <2>4
  <2>7. Shows(v)
    <3>1. CASE midline
      BY <2>2, <2>6, <3>1
    <3>2. CASE ~midline
      <4>1. <<>> \o Visible(0) = Visible(0)
        BY <2>5, ConcatEmptySeq
      <4> QED BY <2>2, <2>6, <3>2, <4>1
    <3> QED BY <3>1, <3>2
  <2>8. Len(v) = Len(asked.text) + Len(Visible(0))
    <3> DEFINE s == asked.text
               t == Visible(0)
    <3>1. s \in Seq(Cells) /\ t \in Seq(Cells) /\ v = s \o t
      BY <2>3, <2>5, <2>6
    <3> HIDE DEF s, t, v
    <3>2. Len(s \o t) = Len(s) + Len(t)
      BY <3>1, ConcatProperties
    <3> QED BY <3>1, <3>2 DEF s, t
  <2>9. Len(v) \in Nat /\ Len(v) <= Width
    <3>1. MaxLine \in Nat /\ Width \in Nat /\ Width > MaxLine + 1
      BY BoundsAssumption, WidthAssumption
    <3> HIDE DEF v
    <3> QED BY <2>2, <2>3, <2>5, <2>8, <3>1
  <2>10. Redraw = Put(NewLine, v)
    BY <1>4 DEF Redraw
  <2> HIDE DEF v
  <2>11. Put(NewLine, v) = Screen(v, Len(v))
    BY <2>9, NewRow
  <2> QED BY <2>7, <2>10, <2>11 DEF Shows
<1>5. CASE state \notin {"idle", "more", "prompt_line", "prompt_key"}
  BY <1>5 DEF Redraw
<1> QED BY <1>2, <1>3, <1>4, <1>5

\* After any keys, questions, pages, mode changes and log messages, a browser that
\* was attached all the time sees in the row of the cursor what redraw sends to
\* one that attaches now.
THEOREM ScreensAgreeHolds == Spec => []ScreensAgree
  BY InductiveInvariant, RedrawIs, PTL

\* Between two keystrokes no more output scrolls by than a page has lines, whether
\* a command prints lines, pieces of lines, questions or new page lengths.
THEOREM PageFitsHolds == Spec => []PageFits
<1>1. IInv => PageFits
  BY DEF IInv, Counted, PageFits
<1> QED BY <1>1, InductiveInvariant, PTL

-----------------------------------------------------------------------------
(* The console's output on its way to the browsers: TerminalStream.        *)

\* The inductive invariant.

StreamTypes ==
  /\ running \in BOOLEAN /\ out \in 0..MaxChunks
  /\ viewers \subseteq Conns
  /\ base \in [Conns -> 0..MaxChunks]
  /\ ready \in [Conns -> Seq(0..MaxChunks)]
  /\ queue \in [Conns -> Seq(0..MaxChunks)]
  /\ flight \in [Conns -> Seq(0..MaxChunks)]
  /\ handler \in [Conns -> {"attach", "initial", "receive", "closed"}]
  /\ sender \in [Conns -> {"none", "wait", "send", "done"}]
  /\ screen \in [Conns -> Seq(0..MaxChunks)]

\* Where a handler is, its viewer and its sender.
Stage(c) ==
  /\ c \in viewers <=> handler[c] \in {"initial", "receive"}
  /\ handler[c] \in {"attach", "initial"} => sender[c] = "none"
  /\ handler[c] = "receive" => sender[c] # "none"
  /\ sender[c] \in {"wait", "send"} => handler[c] = "receive"
  /\ flight[c] # <<>> <=> sender[c] = "send"
  /\ base[c] <= out

\* A handler that has not attached has nothing.
Fresh(c) ==
  handler[c] = "attach" =>
    screen[c] = <<>> /\ flight[c] = <<>> /\ queue[c] = <<>> /\ ready[c] = <<>>

\* Sequence s has the chunks that follow number b up to number n, and then the
\* sentinel if the console has stopped.
Follows(s, b, n, stopped) ==
  /\ Len(s) = (n - b) + (IF stopped THEN 1 ELSE 0)
  /\ \A i \in 1..Len(s) : s[i] = IF i <= n - b THEN b + i ELSE Stop

\* All that the browser of connection c got or will get.
Whole(c) == screen[c] \o (flight[c] \o (queue[c] \o ready[c]))

Arrived(c) ==
  /\ Len(screen[c]) <= out - base[c]
  /\ \A i \in 1..Len(screen[c]) : screen[c][i] = base[c] + i

Delivered(c) ==
  c \in viewers /\ sender[c] # "done" => Follows(Whole(c), base[c], out, ~running)

Connection(c) == Stage(c) /\ Fresh(c) /\ Arrived(c) /\ Delivered(c)

StreamInv == StreamTypes /\ \A c \in Conns : Connection(c)

-----------------------------------------------------------------------------
(* Sequences of chunks.                                                    *)

Chunks == 0..MaxChunks

LEMMA StopAtIs ==
  ASSUME NEW q \in Seq(Chunks)
  PROVE  /\ StopAt(q) \in 1..(Len(q) + 1)
         /\ \A i \in 1..(StopAt(q) - 1) : q[i] # Stop
         /\ StopAt(q) <= Len(q) => q[StopAt(q)] = Stop
<1> DEFINE T == {i \in 1..(Len(q) + 1) : i <= Len(q) => q[i] = Stop}
<1>1. Len(q) \in Nat
  OBVIOUS
<1>2. T \subseteq Nat /\ Len(q) + 1 \in T
  BY <1>1
<1>3. PICK x \in T : \A y \in T : x <= y
  BY <1>2, LeastNumber
<1>4. x \in 1..(Len(q) + 1) /\ (x <= Len(q) => q[x] = Stop)
  BY <1>3
<1>5. ASSUME NEW i \in 1..(x - 1), q[i] = Stop PROVE FALSE
  <2>1. i \in T /\ i < x
    BY <1>1, <1>4, <1>5
  <2> QED BY <1>3, <1>4, <2>1
<1> DEFINE Here(n) == (\A i \in 1..(n - 1) : q[i] # Stop) /\ (n <= Len(q) => q[n] = Stop)
           S == 1..(Len(q) + 1)
<1>6. x \in S /\ Here(x)
  BY <1>4, <1>5
<1>7. StopAt(q) = CHOOSE n \in S : Here(n)
  BY DEF StopAt
<1> HIDE DEF Here, S
<1>8. StopAt(q) \in S /\ Here(StopAt(q))
  BY <1>6, <1>7
<1> QED BY <1>8 DEF Here, S

\* The element after which two sequences meet does not matter.
LEMMA MoveOne ==
  ASSUME NEW q \in Seq(Chunks), NEW r \in Seq(Chunks), r # <<>>
  PROVE  Append(q, Head(r)) \o Tail(r) = q \o r
<1> DEFINE h == Head(r)
           t == Tail(r)
           a == Append(q, h)
<1>1. /\ h \in Chunks /\ t \in Seq(Chunks) /\ Len(t) = Len(r) - 1 /\ h = r[1]
      /\ \A i \in 1..Len(t) : t[i] = r[i + 1]
  BY HeadTailProperties
<1>2. /\ a \in Seq(Chunks) /\ Len(a) = Len(q) + 1 /\ a[Len(q) + 1] = h
      /\ \A i \in 1..Len(q) : a[i] = q[i]
  BY <1>1, AppendProperties
<1> HIDE DEF a, t, h
<1>3. /\ a \o t \in Seq(Chunks) /\ Len(a \o t) = Len(a) + Len(t)
      /\ \A i \in 1..Len(a) + Len(t) : (a \o t)[i] = IF i <= Len(a) THEN a[i] ELSE t[i - Len(a)]
  BY <1>1, <1>2, ConcatProperties
<1>4. /\ q \o r \in Seq(Chunks) /\ Len(q \o r) = Len(q) + Len(r)
      /\ \A i \in 1..Len(q) + Len(r) : (q \o r)[i] = IF i <= Len(q) THEN q[i] ELSE r[i - Len(q)]
  BY ConcatProperties
<1>5. Len(q) \in Nat /\ Len(r) \in Nat /\ Len(a \o t) = Len(q \o r)
  BY <1>1, <1>2, <1>3, <1>4
<1>6. ASSUME NEW i \in 1..Len(a \o t) PROVE (a \o t)[i] = (q \o r)[i]
  <2>1. CASE i <= Len(q)
    BY <1>2, <1>3, <1>4, <1>5, <2>1
  <2>2. CASE i = Len(q) + 1
    BY <1>1, <1>2, <1>3, <1>4, <1>5, <2>2
  <2>3. CASE i > Len(q) + 1
    <3>1. i - Len(a) \in 1..Len(t) /\ i - Len(a) + 1 = i - Len(q)
      BY <1>1, <1>2, <1>3, <1>5, <2>3
    <3>2. (a \o t)[i] = t[i - Len(a)]
      BY <1>2, <1>3, <1>5, <2>3
    <3>3. t[i - Len(a)] = r[i - Len(q)]
      BY <1>1, <3>1
    <3>4. (q \o r)[i] = r[i - Len(q)]
      BY <1>3, <1>4, <1>5, <2>3
    <3> QED BY <3>2, <3>3, <3>4
  <2> QED BY <1>5, <2>1, <2>2, <2>3
<1>7. a \o t = q \o r
  BY <1>3, <1>4, <1>5, <1>6, SeqEqual
<1> QED BY <1>7 DEF a, t, h

\* A chunk at the end of the last sequence is at the end of the whole.
LEMMA AppendLast ==
  ASSUME NEW a \in Seq(Chunks), NEW b \in Seq(Chunks), NEW x \in Chunks
  PROVE  a \o Append(b, x) = Append(a \o b, x)
<1> DEFINE e == <<x>>
<1>1. e \in Seq(Chunks) /\ Append(b, x) = b \o e
  OBVIOUS
<1>2. a \o b \in Seq(Chunks) /\ (a \o b) \o e = a \o (b \o e)
  BY <1>1, ConcatProperties, ConcatAssociative
<1>3. Append(a \o b, x) = (a \o b) \o e
  BY <1>2
<1> QED BY <1>1, <1>2, <1>3

-----------------------------------------------------------------------------
(* What a step leaves alone.                                               *)

LEMMA StreamInitTypes == StreamInit => StreamTypes
BY MaxChunksAssumption DEF StreamInit, StreamTypes

\* Connection d is as before in a step that produces no chunk.
Untouched(d) ==
  /\ d \in viewers' <=> d \in viewers
  /\ base'[d] = base[d] /\ ready'[d] = ready[d] /\ queue'[d] = queue[d]
  /\ flight'[d] = flight[d] /\ handler'[d] = handler[d] /\ sender'[d] = sender[d]
  /\ screen'[d] = screen[d]

LEMMA UntouchedAt ==
  ASSUME NEW d \in Conns, Connection(d), Untouched(d), UNCHANGED <<running, out>>
  PROVE  Connection(d)'
<1>1. Stage(d)' /\ Fresh(d)' /\ Arrived(d)'
  BY DEF Connection, Untouched, Stage, Fresh, Arrived
<1>2. Whole(d)' = Whole(d)
  BY DEF Whole, Untouched
<1>3. Delivered(d)'
  BY <1>2 DEF Connection, Untouched, Delivered, Follows
<1> QED BY <1>1, <1>3 DEF Connection

\* A step of one connection.
LEMMA OneConnection ==
  ASSUME StreamInv, NEW c \in Conns, UNCHANGED <<running, out>>, StreamTypes', Connection(c)',
         \A d \in Conns : d # c => Untouched(d)
  PROVE  StreamInv'
<1>1. \A d \in Conns : d # c => Connection(d)'
  BY UntouchedAt DEF StreamInv
<1> QED BY <1>1 DEF StreamInv

\* What is on the way is a sequence of chunks.
LEMMA WholeIs ==
  ASSUME StreamTypes, NEW c \in Conns
  PROVE  /\ screen[c] \in Seq(Chunks) /\ flight[c] \in Seq(Chunks)
         /\ queue[c] \in Seq(Chunks) /\ ready[c] \in Seq(Chunks)
         /\ queue[c] \o ready[c] \in Seq(Chunks)
         /\ flight[c] \o (queue[c] \o ready[c]) \in Seq(Chunks)
         /\ Whole(c) \in Seq(Chunks)
<1>1. /\ screen[c] \in Seq(Chunks) /\ flight[c] \in Seq(Chunks)
      /\ queue[c] \in Seq(Chunks) /\ ready[c] \in Seq(Chunks)
  BY DEF StreamTypes, Chunks
<1>2. queue[c] \o ready[c] \in Seq(Chunks)
  BY <1>1, ConcatProperties
<1>3. flight[c] \o (queue[c] \o ready[c]) \in Seq(Chunks)
  BY <1>1, <1>2, ConcatProperties
<1>4. Whole(c) \in Seq(Chunks)
  BY <1>1, <1>3, ConcatProperties DEF Whole
<1> QED BY <1>1, <1>2, <1>3, <1>4

-----------------------------------------------------------------------------
(* One step per action.                                                    *)

\* A chunk or the sentinel is handed to every viewer's loop.
LEMMA HandedOver ==
  ASSUME StreamInv, NEW x \in Chunks, NEW c \in Conns, ready' = Callbacks(x, viewers),
         UNCHANGED <<viewers, base, queue, flight, handler, sender, screen>>
  PROVE  Whole(c)' = IF c \in viewers THEN Append(Whole(c), x) ELSE Whole(c)
<1>1. ready'[c] = IF c \in viewers THEN Append(ready[c], x) ELSE ready[c]
  BY DEF Callbacks
<1>2. Whole(c)' = screen[c] \o (flight[c] \o (queue[c] \o ready'[c]))
  BY DEF Whole
<1>3. CASE c \in viewers
  <2> DEFINE s == screen[c]
             f == flight[c]
             q == queue[c]
             r == ready[c]
  <2>0. /\ s \in Seq(Chunks) /\ f \in Seq(Chunks) /\ q \in Seq(Chunks) /\ r \in Seq(Chunks)
        /\ q \o r \in Seq(Chunks) /\ f \o (q \o r) \in Seq(Chunks)
    BY WholeIs DEF StreamInv
  <2> HIDE DEF s, f, q, r
  <2>1. q \o Append(r, x) = Append(q \o r, x)
    BY <2>0, AppendLast
  <2>2. f \o Append(q \o r, x) = Append(f \o (q \o r), x)
    BY <2>0, AppendLast
  <2>3. s \o Append(f \o (q \o r), x) = Append(s \o (f \o (q \o r)), x)
    BY <2>0, AppendLast
  <2>4. s \o (f \o (q \o Append(r, x))) = Append(s \o (f \o (q \o r)), x)
    BY <2>1, <2>2, <2>3
  <2> QED BY <1>1, <1>2, <1>3, <2>4 DEF s, f, q, r, Whole
<1>4. CASE c \notin viewers
  BY <1>1, <1>2, <1>4 DEF Whole
<1> QED BY <1>3, <1>4

LEMMA HandedTypes ==
  ASSUME StreamTypes, NEW x \in Chunks PROVE Callbacks(x, viewers) \in [Conns -> Seq(Chunks)]
<1>1. ASSUME NEW c \in Conns
      PROVE  (IF c \in viewers THEN Append(ready[c], x) ELSE ready[c]) \in Seq(Chunks)
  <2>1. ready[c] \in Seq(Chunks)
    BY DEF StreamTypes, Chunks
  <2>2. Append(ready[c], x) \in Seq(Chunks)
    BY <2>1, AppendProperties
  <2> QED BY <2>1, <2>2
<1> QED BY <1>1 DEF Callbacks

LEMMA BroadcastKeeps == ASSUME StreamInv, Broadcast PROVE StreamInv'
<1>1. out + 1 \in Chunks /\ out \in Nat /\ out' = out + 1
  BY MaxChunksAssumption DEF Broadcast, StreamInv, StreamTypes, Chunks
<1>2. StreamTypes'
  BY <1>1, HandedTypes DEF Broadcast, StreamInv, StreamTypes, Chunks
<1>3. ASSUME NEW c \in Conns PROVE Connection(c)'
  <2>1. Connection(c) /\ base[c] \in Nat /\ base[c] <= out /\ Whole(c) \in Seq(Chunks)
    BY WholeIs, MaxChunksAssumption DEF StreamInv, StreamTypes, Connection, Stage
  <2>2. Stage(c)' /\ Arrived(c)'
    BY <1>1, <2>1 DEF Broadcast, Connection, Stage, Arrived
  <2>3. Fresh(c)'
    <3>1. c \notin viewers => ready'[c] = ready[c]
      BY DEF Broadcast, Callbacks
    <3> QED BY <2>1, <3>1 DEF Broadcast, Connection, Stage, Fresh
  <2>4. Delivered(c)'
    <3>1. SUFFICES ASSUME c \in viewers, sender[c] # "done"
                   PROVE  Follows(Whole(c)', base[c], out + 1, FALSE)
      BY <1>1 DEF Broadcast, Delivered, Follows
    <3>2. Whole(c)' = Append(Whole(c), out + 1)
      BY <1>1, <3>1, HandedOver DEF Broadcast
    <3>3. Follows(Whole(c), base[c], out, FALSE)
      BY <2>1, <3>1 DEF Broadcast, Connection, Delivered
    <3> DEFINE w == Whole(c)
               v == Append(w, out + 1)
    <3>4. /\ Len(v) = Len(w) + 1 /\ v[Len(w) + 1] = out + 1 /\ Len(w) \in Nat
          /\ \A i \in 1..Len(w) : v[i] = w[i]
      BY <1>1, <2>1, AppendProperties
    <3> HIDE DEF w, v
    <3>5. Len(w) = out - base[c] /\ \A i \in 1..Len(w) : w[i] = base[c] + i
      BY <1>1, <2>1, <3>3 DEF Follows, w
    <3>6. Len(v) = out + 1 - base[c] /\ \A i \in 1..Len(v) : v[i] = base[c] + i
      <4>1. Len(v) = out + 1 - base[c]
        BY <1>1, <2>1, <3>4, <3>5
      <4>2. ASSUME NEW i \in 1..Len(v) PROVE v[i] = base[c] + i
        <5>1. i \in 1..Len(w) \/ i = Len(w) + 1
          BY <3>4
        <5> QED BY <1>1, <2>1, <3>4, <3>5, <5>1
      <4> QED BY <4>1, <4>2
    <3>7. Follows(v, base[c], out + 1, FALSE)
      BY <1>1, <2>1, <3>6 DEF Follows
    <3> QED BY <3>2, <3>7 DEF v, w
  <2> QED BY <2>2, <2>3, <2>4 DEF Connection
<1> QED BY <1>2, <1>3 DEF StreamInv

LEMMA NotifyKeeps == ASSUME StreamInv, NotifyStopped PROVE StreamInv'
<1>1. Stop \in Chunks /\ out \in Nat
  BY MaxChunksAssumption DEF StreamInv, StreamTypes, Chunks, Stop
<1>2. StreamTypes'
  BY <1>1, HandedTypes DEF NotifyStopped, StreamInv, StreamTypes, Chunks
<1>3. ASSUME NEW c \in Conns PROVE Connection(c)'
  <2>1. Connection(c) /\ base[c] \in Nat /\ base[c] <= out /\ Whole(c) \in Seq(Chunks)
    BY WholeIs, MaxChunksAssumption DEF StreamInv, StreamTypes, Connection, Stage
  <2>2. Stage(c)' /\ Arrived(c)'
    BY <2>1 DEF NotifyStopped, Connection, Stage, Arrived
  <2>3. Fresh(c)'
    <3>1. c \notin viewers => ready'[c] = ready[c]
      BY DEF NotifyStopped, Callbacks
    <3> QED BY <2>1, <3>1 DEF NotifyStopped, Connection, Stage, Fresh
  <2>4. Delivered(c)'
    <3>1. SUFFICES ASSUME c \in viewers, sender[c] # "done"
                   PROVE  Follows(Whole(c)', base[c], out, TRUE)
      BY DEF NotifyStopped, Delivered, Follows
    <3>2. Whole(c)' = Append(Whole(c), Stop)
      BY <1>1, <3>1, HandedOver DEF NotifyStopped
    <3>3. Follows(Whole(c), base[c], out, FALSE)
      BY <2>1, <3>1 DEF NotifyStopped, Connection, Delivered
    <3> DEFINE w == Whole(c)
               v == Append(w, Stop)
    <3>4. /\ Len(v) = Len(w) + 1 /\ v[Len(w) + 1] = Stop /\ Len(w) \in Nat
          /\ \A i \in 1..Len(w) : v[i] = w[i]
      BY <1>1, <2>1, AppendProperties
    <3> HIDE DEF w, v
    <3>5. Len(w) = out - base[c] /\ \A i \in 1..Len(w) : w[i] = base[c] + i
      BY <1>1, <2>1, <3>3 DEF Follows, w
    <3>6. \A i \in 1..Len(v) : i \in 1..Len(w) \/ i = Len(w) + 1
      BY <3>4
    <3>7. Follows(v, base[c], out, TRUE)
      BY <1>1, <2>1, <3>4, <3>5, <3>6 DEF Follows
    <3> QED BY <3>2, <3>7 DEF v, w
  <2> QED BY <2>2, <2>3, <2>4 DEF Connection
<1> QED BY <1>2, <1>3 DEF StreamInv

LEMMA AttachKeeps == ASSUME StreamInv, NEW c \in Conns, Attach(c) PROVE StreamInv'
<1>1. StreamTypes'
  BY DEF Attach, StreamInv, StreamTypes
<1>2. out \in Nat /\ Connection(c)
  BY MaxChunksAssumption DEF StreamInv, StreamTypes
<1>3. /\ viewers' = viewers \cup {c} /\ base'[c] = out /\ handler'[c] = "initial"
      /\ UNCHANGED <<running, out, ready, queue, flight, sender, screen>>
      /\ handler[c] = "attach" /\ running
  BY DEF Attach, StreamInv, StreamTypes
<1>4. /\ screen[c] = <<>> /\ flight[c] = <<>> /\ queue[c] = <<>> /\ ready[c] = <<>>
      /\ sender[c] = "none"
  BY <1>2, <1>3 DEF Connection, Fresh, Stage
<1>5. Stage(c)' /\ Fresh(c)'
  BY <1>2, <1>3, <1>4 DEF Stage, Fresh
<1>6. Arrived(c)'
  BY <1>2, <1>3, <1>4 DEF Arrived
<1>7. Delivered(c)'
  <2>1. Whole(c)' = <<>>
    BY <1>3, <1>4 DEF Whole
  <2> QED BY <1>2, <1>3, <2>1 DEF Delivered, Follows
<1>8. \A d \in Conns : d # c => Untouched(d)
  BY DEF Attach, Untouched, StreamInv, StreamTypes
<1> QED BY <1>1, <1>3, <1>5, <1>6, <1>7, <1>8, OneConnection DEF Connection

LEMMA AttachFailsKeeps == ASSUME StreamInv, NEW c \in Conns, AttachFails(c) PROVE StreamInv'
<1>1. StreamTypes'
  BY DEF AttachFails, StreamInv, StreamTypes
<1>2. Connection(c) /\ handler'[c] = "closed" /\ handler[c] = "attach"
  BY DEF AttachFails, StreamInv, StreamTypes
<1>3. Stage(c)' /\ Fresh(c)' /\ Arrived(c)'
  BY <1>2 DEF AttachFails, Connection, Stage, Fresh, Arrived
<1>4. Delivered(c)'
  BY <1>2 DEF AttachFails, Connection, Stage, Delivered
<1>5. \A d \in Conns : d # c => Untouched(d)
  BY DEF AttachFails, Untouched, StreamInv, StreamTypes
<1> QED BY <1>1, <1>3, <1>4, <1>5, OneConnection DEF Connection, AttachFails

\* What has been on its way is there in another place.
LEMMA WholeKept ==
  ASSUME NEW c \in Conns, Connection(c), Whole(c)' = Whole(c),
         UNCHANGED <<running, out, viewers, base>>, sender[c] # "done"
  PROVE  Delivered(c)'
BY DEF Connection, Delivered, Follows

LEMMA RunCallbackKeeps == ASSUME StreamInv, NEW c \in Conns, RunCallback(c) PROVE StreamInv'
<1> DEFINE q == queue[c]
           r == ready[c]
<1>0. Connection(c) /\ q \in Seq(Chunks) /\ r \in Seq(Chunks) /\ r # <<>>
  BY WholeIs DEF StreamInv, RunCallback
<1>1. /\ queue'[c] = Append(q, Head(r)) /\ ready'[c] = Tail(r)
      /\ UNCHANGED <<running, out, viewers, base, flight, handler, sender, screen>>
  BY DEF RunCallback, StreamInv, StreamTypes
<1>2. StreamTypes'
  <2>1. Append(q, Head(r)) \in Seq(0..MaxChunks) /\ Tail(r) \in Seq(0..MaxChunks)
    BY <1>0, HeadTailProperties, AppendProperties DEF Chunks
  <2> QED BY <2>1 DEF RunCallback, StreamInv, StreamTypes
<1>3. Whole(c)' = Whole(c)
  <2>1. Append(q, Head(r)) \o Tail(r) = q \o r
    BY <1>0, MoveOne
  <2> QED BY <1>1, <2>1 DEF Whole
<1>4. Stage(c)' /\ Arrived(c)'
  BY <1>0, <1>1 DEF Connection, Stage, Arrived
<1>5. Fresh(c)'
  BY <1>0, <1>1 DEF Connection, Fresh
<1>6. Delivered(c)'
  BY <1>0, <1>1, <1>3 DEF Connection, Delivered, Follows
<1>7. \A d \in Conns : d # c => Untouched(d)
  BY DEF RunCallback, Untouched, StreamInv, StreamTypes
<1> QED BY <1>1, <1>2, <1>4, <1>5, <1>6, <1>7, OneConnection DEF Connection

LEMMA SendInitialKeeps == ASSUME StreamInv, NEW c \in Conns, SendInitial(c) PROVE StreamInv'
<1>1. StreamTypes'
  BY DEF SendInitial, StreamInv, StreamTypes
<1>2. /\ Connection(c) /\ handler[c] = "initial" /\ handler'[c] = "receive" /\ sender'[c] = "wait"
      /\ UNCHANGED <<running, out, viewers, base, ready, queue, flight, screen>>
  BY DEF SendInitial, StreamInv, StreamTypes
<1>3. Stage(c)' /\ Fresh(c)' /\ Arrived(c)'
  BY <1>2 DEF Connection, Stage, Fresh, Arrived
<1>4. Delivered(c)'
  <2>1. Whole(c)' = Whole(c) /\ sender[c] # "done"
    BY <1>2 DEF Whole, Connection, Stage
  <2> QED BY <1>2, <2>1, WholeKept
<1>5. \A d \in Conns : d # c => Untouched(d)
  BY DEF SendInitial, Untouched, StreamInv, StreamTypes
<1> QED BY <1>1, <1>2, <1>3, <1>4, <1>5, OneConnection DEF Connection

LEMMA TakeKeeps == ASSUME StreamInv, NEW c \in Conns, Take(c) PROVE StreamInv'
<1> DEFINE q == queue[c]
           n == IF StopAt(q) > Len(q) THEN Len(q) ELSE StopAt(q)
           a == SubSeq(q, 1, n)
           b == SubSeq(q, n + 1, Len(q))
<1>0. /\ Connection(c) /\ q \in Seq(Chunks) /\ ready[c] \in Seq(Chunks) /\ q # <<>>
      /\ Len(q) \in Nat /\ Len(q) > 0 /\ sender[c] = "wait"
  BY WholeIs DEF StreamInv, Take
<1>1. /\ flight'[c] = a /\ queue'[c] = b /\ sender'[c] = "send"
      /\ UNCHANGED <<running, out, viewers, base, ready, handler, screen>>
  BY DEF Take, StreamInv, StreamTypes
<1>2. n \in 1..Len(q)
  BY <1>0, StopAtIs
<1> HIDE DEF n
<1>3. a \in Seq(Chunks) /\ b \in Seq(Chunks) /\ Len(a) = n
  BY <1>0, <1>2, SubSeqProperties
<1>4. a \o b = q
  <2>1. SubSeq(q, 1, Len(q)) = q
    BY <1>0, SubSeqFull
  <2>2. n \in (1 - 1)..Len(q) /\ Len(q) \in n..Len(q) /\ 1 \in 1..(Len(q) + 1)
    BY <1>0, <1>2
  <2>3. q \in Seq(Chunks)
    BY <1>0
  <2> HIDE DEF q
  <2>4. SubSeq(q, 1, n) \o SubSeq(q, n + 1, Len(q)) = SubSeq(q, 1, Len(q))
    BY <2>2, <2>3, ConcatAdjacentSubSeq
  <2> QED BY <2>1, <2>4
<1>5. StreamTypes'
  <2>1. a \in Seq(0..MaxChunks) /\ b \in Seq(0..MaxChunks)
    BY <1>3 DEF Chunks
  <2>2. /\ flight' = [flight EXCEPT ![c] = a] /\ queue' = [queue EXCEPT ![c] = b]
        /\ sender' = [sender EXCEPT ![c] = "send"]
    BY DEF Take, n
  <2> HIDE DEF a, b
  <2> QED BY <1>1, <2>1, <2>2 DEF StreamInv, StreamTypes
<1> HIDE DEF a, b
<1>6. flight[c] = <<>> /\ a # <<>>
  BY <1>0, <1>2, <1>3 DEF Connection, Stage
<1>7. Whole(c)' = Whole(c)
  <2> DEFINE r == ready[c]
  <2>1. q \in Seq(Chunks) /\ r \in Seq(Chunks) /\ q \o r \in Seq(Chunks)
    BY <1>0, ConcatProperties
  <2> HIDE DEF q, r
  <2>2. a \o (b \o r) = q \o r
    <3>1. (a \o b) \o r = a \o (b \o r)
      BY <1>3, <2>1, ConcatAssociative, SMTT(30)
    <3> QED BY <1>4, <3>1
  <2>3. <<>> \o (q \o r) = q \o r
    BY <2>1, ConcatEmptySeq
  <2> QED BY <1>1, <1>6, <2>2, <2>3 DEF Whole, q, r
<1>8. Stage(c)' /\ Fresh(c)' /\ Arrived(c)'
  BY <1>0, <1>1, <1>6 DEF Connection, Stage, Fresh, Arrived
<1>9. Delivered(c)'
  BY <1>0, <1>1, <1>7, WholeKept
<1>10. \A d \in Conns : d # c => Untouched(d)
  BY DEF Take, Untouched, StreamInv, StreamTypes
<1> QED BY <1>1, <1>5, <1>8, <1>9, <1>10, OneConnection DEF Connection

LEMMA SendKeeps == ASSUME StreamInv, NEW c \in Conns, Send(c) PROVE StreamInv'
<1> DEFINE f == flight[c]
           s == screen[c]
           rest == queue[c] \o ready[c]
           n == StopAt(f)
           a == SubSeq(f, 1, n - 1)
           w == Whole(c)
           k == out - base[c]
<1>0. /\ Connection(c) /\ f \in Seq(Chunks) /\ s \in Seq(Chunks) /\ rest \in Seq(Chunks)
      /\ w \in Seq(Chunks) /\ sender[c] = "send" /\ Len(f) \in Nat /\ Len(s) \in Nat
      /\ Len(rest) \in Nat /\ f \o rest \in Seq(Chunks)
      /\ out \in Nat /\ base[c] \in Nat /\ k \in Nat
  <2>1. Connection(c) /\ sender[c] = "send" /\ out \in Nat /\ base[c] \in Nat /\ base[c] <= out
    BY MaxChunksAssumption DEF StreamInv, StreamTypes, Send, Connection, Stage
  <2>2. /\ f \in Seq(Chunks) /\ s \in Seq(Chunks) /\ rest \in Seq(Chunks)
        /\ w \in Seq(Chunks) /\ f \o rest \in Seq(Chunks)
    BY WholeIs DEF StreamInv
  <2> HIDE DEF f, s, rest, w
  <2> QED BY <2>1, <2>2
<1>1. /\ screen'[c] = s \o a /\ flight'[c] = <<>>
      /\ sender'[c] = IF n > Len(f) THEN "wait" ELSE "done"
      /\ UNCHANGED <<running, out, viewers, base, ready, queue, handler>>
  BY DEF Send, StreamInv, StreamTypes
<1>2. /\ n \in 1..(Len(f) + 1) /\ \A i \in 1..(n - 1) : f[i] # Stop
      /\ n <= Len(f) => f[n] = Stop
  BY <1>0, StopAtIs
<1>3. c \in viewers /\ sender[c] # "done" /\ handler[c] = "receive"
  BY <1>0 DEF Connection, Stage
<1>4. w = s \o (f \o rest)
  BY DEF Whole
<1>5. Follows(w, base[c], out, ~running)
  BY <1>0, <1>3 DEF Connection, Delivered
<1> HIDE DEF n, w, rest
<1>6. /\ a \in Seq(Chunks) /\ Len(a) = n - 1 /\ \A i \in 1..n - 1 : a[i] = f[i]
  BY <1>0, <1>2, SubSeqProperties
<1>7. StreamTypes'
  <2>1. s \o a \in Seq(0..MaxChunks) /\ <<>> \in Seq(0..MaxChunks)
    BY <1>0, <1>6, ConcatProperties DEF Chunks
  <2>2. /\ screen' = [screen EXCEPT ![c] = s \o a] /\ flight' = [flight EXCEPT ![c] = <<>>]
        /\ sender' = [sender EXCEPT ![c] = IF n > Len(f) THEN "wait" ELSE "done"]
    BY DEF Send, n
  <2> HIDE DEF a, s, f
  <2> QED BY <1>1, <2>1, <2>2 DEF StreamInv, StreamTypes
<1> HIDE DEF a, f, s
\* Position i of what is sent is a position of the whole before the sentinel.
<1>8. ASSUME NEW i \in 1..n - 1
      PROVE  w[Len(s) + i] = a[i] /\ Len(s) + i <= k /\ a[i] = base[c] + Len(s) + i
  <2>1. Len(s) + i \in 1..Len(w) /\ w[Len(s) + i] = f[i]
    <3>1. /\ Len(f \o rest) = Len(f) + Len(rest) /\ (f \o rest)[i] = f[i]
      BY <1>0, <1>2, ConcatProperties
    <3>2. /\ Len(w) = Len(s) + Len(f \o rest)
          /\ w[Len(s) + i] = (f \o rest)[Len(s) + i - Len(s)]
      BY <1>0, <1>2, <1>4, <3>1, ConcatProperties
    <3>3. Len(s) + i - Len(s) = i
      BY <1>0
    <3> QED BY <1>0, <1>2, <3>1, <3>2, <3>3
  <2>2. a[i] = f[i] /\ f[i] # Stop
    BY <1>2, <1>6
  <2>3. Len(s) + i <= k /\ w[Len(s) + i] = base[c] + (Len(s) + i)
    BY <1>0, <1>5, <2>1, <2>2 DEF Follows
  <2> QED BY <1>0, <2>1, <2>2, <2>3
<1>9. Arrived(c)'
  <2>1. Len(s) <= k /\ \A i \in 1..Len(s) : s[i] = base[c] + i
    BY <1>0 DEF Connection, Arrived, s
  <2>2. /\ Len(s \o a) = Len(s) + (n - 1)
        /\ \A i \in 1..Len(s) + (n - 1) :
             (s \o a)[i] = IF i <= Len(s) THEN s[i] ELSE a[i - Len(s)]
    <3>1. /\ Len(s \o a) = Len(s) + Len(a)
          /\ \A i \in 1..Len(s) + Len(a) :
               (s \o a)[i] = IF i <= Len(s) THEN s[i] ELSE a[i - Len(s)]
      BY <1>0, <1>6, ConcatProperties
    <3> QED BY <1>6, <3>1
  <2>3. Len(s) + (n - 1) <= k
    <3>1. CASE n = 1
      BY <1>0, <2>1, <3>1
    <3>2. CASE n > 1
      <4>1. n - 1 \in 1..n - 1
        BY <1>0, <1>2, <3>2
      <4> QED BY <1>8, <4>1
    <3> QED BY <1>0, <1>2, <3>1, <3>2
  <2>4. ASSUME NEW i \in 1..Len(s) + (n - 1) PROVE (s \o a)[i] = base[c] + i
    <3>1. CASE i <= Len(s)
      BY <1>0, <2>1, <2>2, <3>1
    <3>2. CASE i > Len(s)
      <4>1. i - Len(s) \in 1..n - 1 /\ Len(s) + (i - Len(s)) = i
        BY <1>0, <1>2, <3>2
      <4>2. a[i - Len(s)] = base[c] + Len(s) + (i - Len(s))
        BY <1>8, <4>1
      <4> QED BY <1>0, <2>2, <3>2, <4>1, <4>2
    <3>3. i \in Int /\ Len(s) \in Int
      BY <1>0, <1>2
    <3>4. i <= Len(s) \/ i > Len(s)
      BY <3>3
    <3> QED BY <3>1, <3>2, <3>4
  <2> QED BY <1>1, <2>2, <2>3, <2>4 DEF Arrived
<1>10. Stage(c)' /\ Fresh(c)'
  BY <1>0, <1>1, <1>3 DEF Connection, Stage, Fresh
<1>11. Delivered(c)'
  <2>1. CASE n > Len(f)
    <3>1. n - 1 = Len(f)
      BY <1>0, <1>2, <2>1
    <3>2. a = f
      BY <1>0, <1>6, <3>1, SeqEqual
    <3>3. (s \o f) \o (<<>> \o rest) = s \o (f \o rest)
      <4>1. (s \o f) \o rest = s \o (f \o rest)
        BY <1>0, ConcatAssociative, SMTT(30)
      <4>2. <<>> \o rest = rest
        BY <1>0, ConcatEmptySeq
      <4> QED BY <4>1, <4>2
    <3>4. Whole(c)' = Whole(c)
      BY <1>1, <1>4, <3>2, <3>3 DEF Whole, rest, w
    <3> QED BY <1>0, <1>1, <1>3, <3>4, WholeKept
  <2>2. CASE ~(n > Len(f))
    BY <1>1, <2>2 DEF Delivered
  <2> QED BY <2>1, <2>2
<1>12. \A d \in Conns : d # c => Untouched(d)
  BY DEF Send, Untouched, StreamInv, StreamTypes
<1> QED BY <1>1, <1>7, <1>9, <1>10, <1>11, <1>12, OneConnection DEF Connection

LEMMA EndKeeps ==
  ASSUME StreamInv, NEW c \in Conns, SendFails(c) \/ Close(c)
  PROVE  StreamInv'
<1>1. /\ sender' = [sender EXCEPT ![c] = "done"] /\ flight' = [flight EXCEPT ![c] = <<>>]
      /\ UNCHANGED <<running, out, base, ready, queue, screen>>
      /\ handler[c] \in {"initial", "receive"}
      /\ \/ handler' = handler /\ viewers' = viewers /\ handler[c] = "receive"
         \/ handler' = [handler EXCEPT ![c] = "closed"] /\ viewers' = viewers \ {c}
  BY DEF SendFails, Close, StreamInv, Connection, Stage
<1>2. <<>> \in Seq(0..MaxChunks)
  OBVIOUS
<1>3. StreamTypes'
  BY <1>1, <1>2 DEF StreamInv, StreamTypes
<1>4. Connection(c) /\ sender'[c] = "done" /\ flight'[c] = <<>>
  BY <1>1 DEF StreamInv, StreamTypes
<1>5. handler'[c] = handler[c] \/ handler'[c] = "closed"
  BY <1>1 DEF StreamInv, StreamTypes
<1>6. Stage(c)'
  <2>1. c \in viewers' <=> handler'[c] \in {"initial", "receive"}
    BY <1>1, <1>4 DEF Connection, Stage, StreamInv, StreamTypes
  <2>2. handler'[c] \in {"receive", "closed"}
    BY <1>1 DEF StreamInv, StreamTypes
  <2> QED BY <1>1, <1>4, <2>1, <2>2 DEF Connection, Stage
<1>7. Fresh(c)' /\ Arrived(c)' /\ Delivered(c)'
  BY <1>1, <1>4, <1>5 DEF Connection, Fresh, Arrived, Delivered
<1>8. \A d \in Conns : d # c => Untouched(d)
  BY <1>1 DEF Untouched, StreamInv, StreamTypes
<1> QED BY <1>1, <1>3, <1>6, <1>7, <1>8, OneConnection DEF Connection

-----------------------------------------------------------------------------
(* The theorems about TerminalStream.                                      *)

LEMMA StreamStarts == StreamInit => StreamInv
<1> SUFFICES ASSUME StreamInit PROVE StreamInv
  OBVIOUS
<1>1. StreamTypes
  BY StreamInitTypes
<1>2. ASSUME NEW c \in Conns PROVE Connection(c)
  BY DEF StreamInit, Connection, Stage, Fresh, Arrived, Delivered
<1> QED BY <1>1, <1>2 DEF StreamInv

LEMMA StreamSteps == StreamInv /\ [StreamNext]_streamVars => StreamInv'
<1> SUFFICES ASSUME StreamInv, [StreamNext]_streamVars PROVE StreamInv'
  OBVIOUS
<1>1. CASE Broadcast \/ NotifyStopped
  BY <1>1, BroadcastKeeps, NotifyKeeps
<1>2. ASSUME NEW c \in Conns, Attach(c) \/ AttachFails(c) PROVE StreamInv'
  BY <1>2, AttachKeeps, AttachFailsKeeps
<1>3. ASSUME NEW c \in Conns, RunCallback(c) \/ SendInitial(c) PROVE StreamInv'
  BY <1>3, RunCallbackKeeps, SendInitialKeeps
<1>4. ASSUME NEW c \in Conns, Take(c) \/ Send(c) PROVE StreamInv'
  BY <1>4, TakeKeeps, SendKeeps
<1>5. ASSUME NEW c \in Conns, SendFails(c) \/ Close(c) \/ CloseAfterSender(c) PROVE StreamInv'
  BY <1>5, EndKeeps DEF CloseAfterSender
<1>6. CASE UNCHANGED streamVars
  <2>1. \A d \in Conns : Untouched(d)
    BY <1>6 DEF streamVars, Untouched
  <2>2. StreamTypes'
    BY <1>6 DEF streamVars, StreamInv, StreamTypes
  <2>3. UNCHANGED <<running, out>>
    BY <1>6 DEF streamVars
  <2> QED BY <2>1, <2>2, <2>3, UntouchedAt DEF StreamInv
<1> QED BY <1>1, <1>2, <1>3, <1>4, <1>5, <1>6 DEF StreamNext

\* The inductive invariant: what each browser got, and where the rest is.
THEOREM StreamInvariant == StreamSpec => []StreamInv
<1> QED BY StreamStarts, StreamSteps, PTL DEF StreamSpec

\* What a pointwise description says of the sequences of NothingLost.
LEMMA InvNothingLost == ASSUME StreamInv PROVE NothingLost
<1> SUFFICES ASSUME NEW c \in Conns
             PROVE  LET chunks == [i \in 1..(out - base[c]) |-> base[c] + i]
                        all    == screen[c] \o OnTheWay(c)
                    IN /\ IsPrefix(screen[c], chunks)
                       /\ c \in viewers /\ sender[c] # "done" =>
                            all \in {chunks} \cup (IF running THEN {} ELSE {Append(chunks, Stop)})
  BY DEF NothingLost
<1> DEFINE k == out - base[c]
           chunks == [i \in 1..k |-> base[c] + i]
           s == screen[c]
           all == s \o OnTheWay(c)
<1>1. /\ Connection(c) /\ out \in Nat /\ base[c] \in Nat /\ k \in Nat /\ out <= MaxChunks
  BY MaxChunksAssumption DEF StreamInv, StreamTypes, Connection, Stage
<1>2. /\ chunks \in Seq(Chunks) /\ Len(chunks) = k /\ \A i \in 1..k : chunks[i] = base[c] + i
  <2>1. \A i \in 1..k : base[c] + i \in Chunks
    BY <1>1, MaxChunksAssumption DEF Chunks
  <2> HIDE DEF k
  <2>2. chunks \in [1..k -> Chunks]
    BY <2>1
  <2> QED BY <1>1, <2>2
<1>3. s \in Seq(Chunks) /\ Len(s) \in Nat /\ Whole(c) \in Seq(Chunks) /\ Len(Whole(c)) \in Nat
  BY WholeIs DEF StreamInv
<1>4. all = Whole(c)
  <2> DEFINE f == flight[c]
             q == queue[c]
             r == ready[c]
  <2>1. f \in Seq(Chunks) /\ q \in Seq(Chunks) /\ r \in Seq(Chunks)
    BY WholeIs DEF StreamInv
  <2> HIDE DEF f, q, r
  <2>2. (f \o q) \o r = f \o (q \o r)
    BY <2>1, ConcatAssociative
  <2> QED BY <2>2 DEF Whole, OnTheWay, f, q, r
<1>5. Len(s) <= k /\ \A i \in 1..Len(s) : s[i] = base[c] + i
  BY <1>1 DEF Connection, Arrived
<1> HIDE DEF chunks, k, s, all
<1>6. IsPrefix(s, chunks)
  <2> DEFINE a == SubSeq(s, 1, Len(s))
             b == SubSeq(chunks, 1, Len(s))
  <2>1. a = s
    BY <1>3, SubSeqFull
  <2>2. /\ b \in Seq(Chunks) /\ Len(b) = Len(s) /\ \A i \in 1..Len(s) : b[i] = chunks[i]
    BY <1>1, <1>2, <1>3, <1>5, SubSeqProperties
  <2> HIDE DEF b
  <2>3. \A i \in 1..Len(s) : s[i] = b[i]
    BY <1>1, <1>2, <1>3, <1>5, <2>2
  <2>4. s = b
    BY <1>3, <2>2, <2>3, SeqEqual
  <2> QED BY <1>2, <1>5, <2>1, <2>4 DEF IsPrefix, b
<1>7. ASSUME c \in viewers, sender[c] # "done"
      PROVE  all \in {chunks} \cup (IF running THEN {} ELSE {Append(chunks, Stop)})
  <2> DEFINE w == Whole(c)
             v == Append(chunks, Stop)
  <2>1. Follows(w, base[c], out, ~running)
    BY <1>1, <1>7 DEF Connection, Delivered
  <2> HIDE DEF w
  <2>2. CASE running
    <3>1. Len(w) = k /\ \A i \in 1..Len(w) : w[i] = base[c] + i
      BY <1>1, <2>1, <2>2 DEF Follows, k
    <3>2. w = chunks
      BY <1>2, <1>3, <3>1, SeqEqual DEF w
    <3> QED BY <1>4, <3>2 DEF w
  <2>3. CASE ~running
    <3>1. /\ v \in Seq(Chunks) /\ Len(v) = k + 1 /\ v[k + 1] = Stop
          /\ \A i \in 1..k : v[i] = base[c] + i
      BY <1>1, <1>2, MaxChunksAssumption, AppendProperties DEF Stop, Chunks
    <3> HIDE DEF v
    <3>2. Len(w) = k + 1 /\ \A i \in 1..Len(w) : w[i] = IF i <= k THEN base[c] + i ELSE Stop
      BY <1>1, <2>1, <2>3 DEF Follows, k
    <3>3. \A i \in 1..Len(w) : w[i] = v[i]
      <4>1. \A i \in 1..Len(w) : i \in 1..k \/ (i = k + 1 /\ ~(i <= k))
        BY <1>1, <3>2
      <4> QED BY <1>1, <3>1, <3>2, <4>1
    <3>4. w = v
      BY <1>3, <3>1, <3>2, <3>3, SeqEqual DEF w
    <3> QED BY <1>4, <2>3, <3>4 DEF w, v
  <2> QED BY <2>2, <2>3
<1> QED BY <1>6, <1>7 DEF chunks, k, s, all

\* However many browsers watch a console and whichever threads produce its
\* output, each gets what followed its initial output, complete and in order.
THEOREM NothingLostHolds == StreamSpec => []NothingLost
<1>1. StreamInv => NothingLost
  BY InvNothingLost
<1> QED BY <1>1, StreamInvariant, PTL

=============================================================================
