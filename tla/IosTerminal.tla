------------------------------ MODULE IosTerminal ------------------------------
(***************************************************************************)
(* One terminal session of a simulated device: the line discipline         *)
(* (TerminalSession) and the mode stack of the shell that it drives        *)
(* (IosShell).  Keystrokes edit a line; Enter runs it; the command prints  *)
(* pages, asks questions and moves between modes; log messages arrive at   *)
(* any time.                                                               *)
(*                                                                         *)
(* The code never looks at the screen: it keeps the line, the cursor and   *)
(* the mode, and writes what should bring the screen there.  `tty` is the  *)
(* screen that these bytes make: the row of the cursor and its column, as  *)
(* a terminal of Width columns shows it.  Rows above do not change any     *)
(* more.  A browser that attaches gets Redraw instead.                     *)
(*                                                                         *)
(* A keystroke is one step, a command one step per item that its generator *)
(* yields: the pump runs them without interruption, so that in "running"   *)
(* nothing else happens.  What a line does is chosen when it is entered:   *)
(* a script of the items which a command of the mode may yield.  Pauses    *)
(* (Sleep) do not wait on a console.                                       *)
(***************************************************************************)
EXTENDS Naturals, Sequences

CONSTANTS
  Letters,      \* printable characters other than the space
  MaxLine,      \* bound on the characters of a line or an answer
  MaxHistory,   \* bound on the history sizes that are set
  PageLengths,  \* page lengths that are set, 0 for no pages
  MaxOutput,    \* bound on the lines of one piece of output
  MaxDepth,     \* bound on the mode stack
  Width         \* columns of the screen

ASSUME LettersAssumption == " " \notin Letters /\ "--More--" \notin Letters
ASSUME BoundsAssumption ==
  /\ MaxLine \in Nat /\ MaxHistory \in Nat /\ PageLengths \subseteq Nat
  /\ MaxOutput \in Nat /\ MaxDepth \in Nat \ {0, 1, 2}
ASSUME WidthAssumption == Width \in Nat /\ Width > MaxLine + 1

VARIABLES
  tty,        \* the screen: [row, col]
  line,       \* _line
  cursor,     \* _cursor
  ignoreLf,   \* _ignore_lf
  afterCr,    \* the last character was a CR
  state,      \* _state, and "closed" when the session has ended
  gen,        \* _gen: what the command has still to yield
  pending,    \* _pending: complete lines, and whether a piece of a line follows
  page,       \* _page_count
  midline,    \* _midline
  asked,      \* _prompt
  typed,      \* _prompt_buf
  history,    \* _history
  histMax,    \* _history_max
  index,      \* _hist_index
  stash,      \* _hist_stash, as a sequence of one line or none
  stack,      \* session.stack, as modes
  privilege,  \* session.privilege
  length,     \* session.terminal_length
  syslog,     \* length of session.pending_syslog
  closed,     \* session.closed
  unseen,     \* lines of output since the last keystroke
  torn,       \* something was drawn that the code does not keep track of
  mixed       \* a log message was written into a row that was in use

edit  == <<line, cursor>>
hist  == <<history, histMax>>
nav   == <<index, stash>>
shell == <<stack, privilege, length, syslog, closed>>
run   == <<gen, pending, page, midline>>
ask   == <<asked, typed>>
vars  == <<tty, edit, ignoreLf, afterCr, state, run, ask, hist, nav, shell, unseen, torn, mixed>>

-----------------------------------------------------------------------------
(* The screen: what the bytes of _emit do to the row of the cursor.        *)

Chars == Letters \cup {" "}
Modes == {"exec", "config", "submode"}
PromptCells == {"host>", "host#", "(config)#", "(submode)#"}
QuestionCells == {"Password:", "Filename?", "[confirm]"}
Cells == Chars \cup PromptCells \cup QuestionCells \cup {"--More--", "output"}

\* A line feed after a carriage return: the row below, which is empty.
NewLine == [row |-> [i \in 1..Width |-> " "], col |-> 0]

Least(m, n) == IF m < n THEN m ELSE n

\* Characters overwrite what they meet; the row ends at Width.
Put(t, s) ==
  [row |-> [i \in 1..Width |-> IF i > t.col /\ i <= t.col + Len(s) THEN s[i - t.col]
                               ELSE t.row[i]],
   col |-> Least(t.col + Len(s), Width)]

\* Backspaces, and a carriage return alone.
Back(t, n) == [row |-> t.row, col |-> IF n < t.col THEN t.col - n ELSE 0]
Return(t) == [row |-> t.row, col |-> 0]

Blanks(n) == [i \in 1..n |-> " "]

-----------------------------------------------------------------------------
(* The shell: modes and prompts.                                           *)

InConfig == Len(stack) > 1
Top(s) == s[Len(s)]

PromptOf(s, p) ==
  CASE Top(s) = "exec" -> IF p = 15 THEN "host#" ELSE "host>"
    [] Top(s) = "config" -> "(config)#"
    [] OTHER -> "(submode)#"

Prompt == <<PromptOf(stack, privilege)>>
MORE_PROMPT == <<"--More--">>

\* The questions commands ask: the last line of the text, whether it ends with
\* a newline, whether the answer is shown, and whether a key is enough.
Question(text, ends, echo, single) ==
  [text |-> text, ends |-> ends, echo |-> echo, single |-> single]
NoQuestion == Question(<<>>, FALSE, FALSE, FALSE)
Password   == Question(<<"Password:">>, FALSE, FALSE, FALSE)
Filename   == Question(<<"Filename?">>, FALSE, TRUE, FALSE)
BannerText == Question(<<>>, TRUE, TRUE, FALSE)
BannerMore == Question(<<>>, FALSE, TRUE, FALSE)
Confirm    == Question(<<"[confirm]">>, FALSE, TRUE, TRUE)
Questions  == {Password, Filename, BannerText, BannerMore, Confirm}

Out(n, piece) == [kind |-> "out", lines |-> n, piece |-> piece]
Ask(q) == [kind |-> "ask", question |-> q]
Do(what) == [kind |-> "do", what |-> what]
SetLength(n) == [kind |-> "length", n |-> n]
SetHistory(n) == [kind |-> "history", n |-> n]

\* A message about the line, and what a command shows.
Error == Out(0, TRUE)
Shown == {<<Out(n, piece)>> : n \in 0..MaxOutput, piece \in BOOLEAN}
           \cup {<<Out(n, FALSE), Out(MaxOutput, TRUE)>> : n \in 0..MaxOutput}

Exec(p) ==
  Shown \cup
  {<<>>, <<Do("disable")>>, <<Do("exit")>>, <<Do("logout")>>} \cup
  {<<SetLength(n)>> : n \in PageLengths} \cup {<<SetHistory(n)>> : n \in 0..MaxHistory} \cup
  (IF p = 15
   THEN {<<Do("configure"), Error>>, <<Ask(Filename), Out(1, TRUE)>>, <<Ask(Confirm), Out(1, TRUE)>>}
   ELSE {<<Do("enable")>>, <<Ask(Password), Do("enable")>>, <<Ask(Password), Error>>})

Configure == {<<Do("submode")>>, <<Ask(BannerText)>>, <<Ask(BannerText), Ask(BannerMore)>>}
Leave == {<<>>, <<Error>>, <<Do("exit")>>, <<Do("end")>>}

\* What a line may do: commands of the mode, exec commands after `do`, and in
\* a submode what only global configuration can parse, which leaves it first.
Scripts(mode, p) ==
  CASE mode = "exec" -> Exec(p)
    [] mode = "config" -> Leave \cup (IF p = 15 THEN Configure \cup Exec(15) ELSE {})
    [] mode = "submode" ->
         Leave \cup (IF p = 15 THEN Exec(15) ELSE {}) \cup
         {<<Do("parent")>> \o s : s \in Configure \cup (IF p = 15 THEN {} ELSE Exec(15))}

-----------------------------------------------------------------------------

Nothing == [lines |-> 0, piece |-> FALSE]

\* A session of the console: activate_root with the settings of its line.
Init ==
  /\ stack = <<"exec">> /\ privilege = 1 /\ syslog = 0 /\ closed = FALSE
  /\ length \in PageLengths /\ histMax \in 0..MaxHistory
  /\ tty = Put(NewLine, Prompt)
  /\ line = <<>> /\ cursor = 0
  /\ ignoreLf = FALSE /\ afterCr = FALSE
  /\ state = "idle"
  /\ gen = <<>> /\ pending = Nothing /\ page = 0 /\ midline = FALSE
  /\ asked = NoQuestion /\ typed = <<>>
  /\ history = <<>> /\ index = 0 /\ stash = <<>>
  /\ unseen = 0 /\ torn = FALSE /\ mixed = FALSE

-----------------------------------------------------------------------------
(* Characters.  A line feed right after a carriage return is not a second  *)
(* Enter; keys that send escape sequences are not characters.              *)

Idle == state = "idle"

Control == ignoreLf' = FALSE /\ afterCr' = FALSE
KeyOrControl == ignoreLf' \in {ignoreLf, FALSE} /\ afterCr' = FALSE

CarriageReturn == ignoreLf' = TRUE /\ afterCr' = TRUE
LineFeed == ~ignoreLf /\ UNCHANGED ignoreLf /\ afterCr' = FALSE
Enter == CarriageReturn \/ LineFeed

SwallowLf ==
  /\ state \in {"idle", "more", "prompt_line", "prompt_key"} /\ ignoreLf
  /\ ignoreLf' = FALSE /\ afterCr' = FALSE
  /\ UNCHANGED <<tty, edit, state, run, ask, hist, nav, shell, unseen, torn, mixed>>

\* Keys are for the line editor only.
KeyIgnored ==
  /\ state \in {"more", "prompt_line", "prompt_key"}
  /\ afterCr' = FALSE
  /\ UNCHANGED <<tty, edit, ignoreLf, state, run, ask, hist, nav, shell, unseen, torn, mixed>>

-----------------------------------------------------------------------------
(* The line editor: the line, the cursor and what is written.              *)

Lines == UNION {[1..n -> Chars] : n \in 0..MaxLine}
Before == SubSeq(line, 1, cursor)
After == SubSeq(line, cursor + 1, Len(line))

Edits ==
  /\ Idle
  /\ UNCHANGED <<state, run, ask, hist, nav, shell, unseen, torn, mixed>>

\* A character without an effect.
OtherKey == Edits /\ Control /\ UNCHANGED <<tty, edit>>

Insert(ch) ==
  /\ Edits /\ Control
  /\ Len(line) < MaxLine
  /\ line' = Before \o <<ch>> \o After
  /\ cursor' = cursor + 1
  /\ tty' = Back(Put(tty, <<ch>> \o After), Len(After))

\* Mutant: one blank is written, however many characters go.
EraseLeftOneBlank(count) ==
  LET n == Least(count, cursor) IN
  /\ line' = SubSeq(line, 1, cursor - n) \o After
  /\ cursor' = cursor - n
  /\ tty' = Back(Put(Back(tty, n), After \o Blanks(1)), Len(After) + 1)

EraseLeft(count) ==
  LET n == Least(count, cursor) IN
  /\ line' = SubSeq(line, 1, cursor - n) \o After
  /\ cursor' = cursor - n
  /\ tty' = Back(Put(Back(tty, n), After \o Blanks(n)), Len(After) + n)

Backspace == Edits /\ Control /\ EraseLeft(1)
EraseLine == Edits /\ Control /\ EraseLeft(cursor)

\* The start of the word at the cursor, or before the blanks there.
WordStarts ==
  {i \in 0..cursor : \E j \in i..cursor :
     /\ \A k \in i+1..j : line[k] # " "
     /\ \A k \in j+1..cursor : line[k] = " "}
WordStart == CHOOSE i \in WordStarts : \A k \in WordStarts : i <= k
KillWord == Edits /\ Control /\ EraseLeft(cursor - WordStart)

DeleteAt ==
  /\ Edits /\ KeyOrControl
  /\ cursor < Len(line)
  /\ line' = Before \o Tail(After)
  /\ tty' = Back(Put(tty, Tail(After) \o <<" ">>), Len(After))
  /\ UNCHANGED cursor

KillToEnd ==
  /\ Edits /\ Control
  /\ line' = Before
  /\ tty' = Back(Put(tty, Blanks(Len(After))), Len(After))
  /\ UNCHANGED cursor

Moves == Edits /\ KeyOrControl /\ UNCHANGED line
MoveLeft == Moves /\ cursor > 0 /\ cursor' = cursor - 1 /\ tty' = Back(tty, 1)
MoveRight == Moves /\ cursor < Len(line) /\ cursor' = cursor + 1 /\ tty' = Put(tty, <<line[cursor + 1]>>)
MoveHome == Moves /\ cursor' = 0 /\ tty' = Back(tty, cursor)
MoveEnd == Moves /\ cursor' = Len(line) /\ tty' = Put(tty, After)

\* What is left of the visible line is written, all of it erased, and the new
\* line written.
ReplaceLine(new) ==
  LET end == Put(tty, After)
      erased == Back(Put(Back(end, Len(line)), Blanks(Len(line))), Len(line))
  IN /\ line' = new
     /\ cursor' = Len(new)
     /\ tty' = Put(erased, new)

\* The prompt and the line again, in a new row.
Reprint ==
  /\ tty' = Put(NewLine, Prompt \o line)
  /\ cursor' = Len(line)
  /\ torn' = FALSE
  /\ UNCHANGED line

Completes(new) ==
  /\ cursor = Len(line) /\ Len(new) >= Len(line)
  /\ SubSeq(new, 1, Len(line)) = line

TabKey ==
  /\ Idle /\ Control
  /\ \/ Reprint
     \/ \E new \in Lines :
          /\ IF Completes(new)
             THEN /\ line' = new /\ cursor' = Len(new)
                  /\ tty' = Put(tty, SubSeq(new, Len(line) + 1, Len(new)))
             ELSE ReplaceLine(new)
          /\ UNCHANGED torn
  /\ UNCHANGED <<state, run, ask, hist, nav, shell, unseen, mixed>>

Help ==
  /\ Idle /\ Control
  /\ Reprint
  /\ UNCHANGED <<state, run, ask, hist, nav, shell, unseen, mixed>>

-----------------------------------------------------------------------------
(* The history.                                                            *)

KeepLast(h, n) == IF Len(h) > n THEN SubSeq(h, Len(h) - n + 1, Len(h)) ELSE h

ResetNav(h) == index' = Len(h) /\ stash' = <<>>

HistoryPrev ==
  /\ Idle /\ KeyOrControl /\ history # <<>>
  /\ stash' = IF index >= Len(history) THEN <<line>> ELSE stash
  /\ \/ /\ index > 0
        /\ index' = index - 1
        /\ ReplaceLine(history[index])
     \/ index = 0 /\ UNCHANGED <<index, edit, tty>>
  /\ UNCHANGED <<state, run, ask, hist, shell, unseen, torn, mixed>>

HistoryNext ==
  /\ Idle /\ KeyOrControl /\ index < Len(history)
  /\ index' = index + 1
  /\ \/ /\ index + 1 = Len(history)
        /\ ReplaceLine(IF stash = <<>> THEN <<>> ELSE stash[1])
        /\ stash' = <<>>
     \/ /\ index + 1 < Len(history)
        /\ ReplaceLine(history[index + 2])
        /\ UNCHANGED stash
  /\ UNCHANGED <<state, run, ask, hist, shell, unseen, torn, mixed>>

-----------------------------------------------------------------------------
(* A line is entered.                                                      *)

\* Bound: submodes and `do configure terminal` add to the stack.
Fits(s) == s # <<>> /\ Head(s) \in {Do("configure"), Do("submode")} => Len(stack) < MaxDepth

Blank == \A i \in 1..Len(line) : line[i] = " "

\* A command begins: nothing is left of the line.
Begin(script) ==
  /\ gen' = script
  /\ tty' = NewLine /\ midline' = FALSE /\ page' = 1 /\ torn' = FALSE
  /\ line' = <<>> /\ cursor' = 0
  /\ state' = "running" /\ unseen' = 0
  /\ UNCHANGED <<pending, ask, shell, mixed>>

SubmitLine ==
  LET h == IF Blank THEN history ELSE KeepLast(Append(history, line), histMax) IN
  /\ Idle /\ Enter
  /\ history' = h /\ UNCHANGED histMax
  /\ ResetNav(h)
  /\ \/ Blank /\ Begin(<<>>)
     \/ ~Blank /\ \E s \in Scripts(Top(stack), privilege) : Fits(s) /\ Begin(s)

\* Ctrl-C abandons the line, Ctrl-Z also leaves the configuration.
InterruptLine ==
  /\ Idle /\ Control
  /\ ResetNav(history) /\ UNCHANGED hist
  /\ \/ Begin(<<>>)
     \/ InConfig /\ Begin(<<Do("end")>>)

-----------------------------------------------------------------------------
(* The pump: the items that the command yields.                            *)

Pumping == state = "running" /\ UNCHANGED <<ignoreLf, afterCr, edit, mixed>>

PageFull == length > 0 /\ page >= length

\* Mutant: lines are not counted.
DrainLineUncounted ==
  /\ Pumping /\ pending.lines > 0 /\ ~PageFull
  /\ tty' = NewLine /\ midline' = FALSE /\ torn' = FALSE
  /\ unseen' = unseen + 1
  /\ pending' = [pending EXCEPT !.lines = @ - 1]
  /\ UNCHANGED <<state, gen, page, ask, hist, nav, shell>>

DrainLine ==
  /\ Pumping /\ pending.lines > 0 /\ ~PageFull
  /\ tty' = NewLine /\ midline' = FALSE /\ torn' = FALSE
  /\ page' = page + 1 /\ unseen' = unseen + 1
  /\ pending' = [pending EXCEPT !.lines = @ - 1]
  /\ UNCHANGED <<state, gen, ask, hist, nav, shell>>

DrainPiece ==
  /\ Pumping /\ pending.lines = 0 /\ pending.piece /\ ~PageFull
  /\ tty' = Put(tty, <<"output">>) /\ midline' = TRUE
  /\ pending' = Nothing
  /\ UNCHANGED <<state, gen, page, ask, hist, nav, shell, unseen, torn>>

PauseAtMore ==
  /\ Pumping /\ pending # Nothing /\ PageFull
  /\ tty' = Put(tty, MORE_PROMPT)
  /\ state' = "more"
  /\ UNCHANGED <<run, ask, hist, nav, shell, unseen, torn>>

Yields(kind) ==
  /\ Pumping /\ pending = Nothing
  /\ gen # <<>> /\ Head(gen).kind = kind
  /\ gen' = Tail(gen)
  /\ UNCHANGED <<page, nav, unseen, torn>>

YieldOutput ==
  /\ Yields("out")
  /\ pending' = [lines |-> Head(gen).lines, piece |-> Head(gen).piece]
  /\ UNCHANGED <<tty, state, midline, ask, hist, shell>>

BeginPrompt ==
  LET q == Head(gen).question IN
  /\ Yields("ask")
  /\ tty' = IF q.ends THEN NewLine ELSE Put(tty, q.text)
  /\ midline' = ~q.ends
  /\ asked' = q /\ typed' = <<>>
  /\ state' = IF q.single THEN "prompt_key" ELSE "prompt_line"
  /\ UNCHANGED <<pending, hist, shell>>

EndToConfig == IF Len(stack) > 2 THEN SubSeq(stack, 1, 2) ELSE stack

\* The mode stack, and whether the session goes on.
Moved(what) ==
  CASE what = "configure" -> Append(stack, "config")
    [] what = "submode" -> Append(stack, "submode")
    [] what = "parent" -> EndToConfig
    [] what = "end" -> SubSeq(stack, 1, 1)
    [] what = "exit" /\ InConfig -> SubSeq(stack, 1, Len(stack) - 1)
    [] OTHER -> stack

\* _note_config_exit: a message when there is no configuration frame any more.
RunEffect ==
  LET what == Head(gen).what IN
  /\ Yields("do")
  /\ stack' = Moved(what)
  /\ closed' = (what = "logout" \/ (what = "exit" /\ ~InConfig))
  /\ privilege' = CASE what = "enable" -> 15
                    [] what = "disable" -> 1
                    [] OTHER -> privilege
  /\ syslog' = IF InConfig /\ Len(stack') = 1 THEN syslog + 1 ELSE syslog
  /\ UNCHANGED <<tty, state, pending, midline, ask, hist, length>>

RunTerminal ==
  /\ \/ /\ Yields("length")
        /\ length' = Head(gen).n
        /\ UNCHANGED hist
     \/ /\ Yields("history")
        /\ histMax' = Head(gen).n
        /\ history' = KeepLast(history, Head(gen).n)
        /\ UNCHANGED length
  /\ UNCHANGED <<tty, state, pending, midline, ask, stack, privilege, syslog, closed>>

\* The command is over; the console takes the messages of the shell.
FinishCommand ==
  LET below == IF midline THEN NewLine ELSE tty IN
  /\ Pumping /\ gen = <<>> /\ pending = Nothing
  /\ tty' = IF closed THEN below ELSE Put(below, Prompt)
  /\ unseen' = IF midline THEN unseen + 1 ELSE unseen
  /\ midline' = FALSE
  /\ state' = IF closed THEN "closed" ELSE "idle"
  /\ ResetNav(history)
  /\ syslog' = 0
  /\ UNCHANGED <<gen, pending, page, ask, hist, stack, privilege, length, closed, torn>>

Pump ==
  \/ DrainLine \/ DrainPiece \/ PauseAtMore
  \/ YieldOutput \/ BeginPrompt \/ RunEffect \/ RunTerminal
  \/ FinishCommand

-----------------------------------------------------------------------------
(* The pager.                                                              *)

EraseMore ==
  /\ state = "more"
  /\ tty' = Return(Put(Return(tty), Blanks(Len(MORE_PROMPT))))
  /\ state' = "running" /\ unseen' = 0 /\ torn' = FALSE
  /\ UNCHANGED <<edit, midline, ask, hist, nav, shell, mixed>>

MoreSpace ==
  /\ EraseMore
  /\ page' = 0
  /\ UNCHANGED <<gen, pending, ignoreLf>> /\ afterCr' = FALSE

MoreEnter ==
  /\ EraseMore /\ Enter
  /\ page' = IF length > 0 THEN length - 1 ELSE 0
  /\ UNCHANGED <<gen, pending>>

\* Any other key: the generator is closed.
MoreQuit ==
  /\ EraseMore
  /\ gen' = <<>> /\ pending' = Nothing
  /\ UNCHANGED <<page, ignoreLf>> /\ afterCr' = FALSE

-----------------------------------------------------------------------------
(* Answers.                                                                *)

Answering(at) ==
  /\ state = at
  /\ UNCHANGED <<edit, pending, page, hist, nav, shell, mixed>>

Echo(t) == IF asked.echo THEN t ELSE tty

PromptLineChar(ch) ==
  /\ Answering("prompt_line") /\ Control
  /\ Len(typed) < MaxLine
  /\ typed' = Append(typed, ch)
  /\ tty' = Echo(Put(tty, <<ch>>))
  /\ UNCHANGED <<state, gen, midline, asked, unseen, torn>>

\* Backspace takes the last character, Ctrl-U all of them.
PromptErase ==
  /\ Answering("prompt_line") /\ Control
  /\ \E n \in {Least(1, Len(typed)), Len(typed)} :
       /\ typed' = SubSeq(typed, 1, Len(typed) - n)
       /\ tty' = Echo(Back(Put(Back(tty, n), Blanks(n)), n))
  /\ UNCHANGED <<state, gen, midline, asked, unseen, torn>>

Answered ==
  /\ asked' = NoQuestion /\ typed' = <<>>
  /\ state' = "running" /\ unseen' = 0

FinishPromptLine ==
  /\ Answering("prompt_line") /\ Enter
  /\ Answered
  /\ tty' = NewLine /\ midline' = FALSE /\ torn' = FALSE
  /\ UNCHANGED gen

\* Ctrl-C and Ctrl-^.  Where the text of the question ended a line, or a log
\* message did, an answer is not known to be on the row.
PromptAbort ==
  /\ \/ Answering("prompt_line") /\ Control
     \/ Answering("prompt_key") /\ UNCHANGED ignoreLf /\ afterCr' = FALSE
  /\ Answered
  /\ tty' = IF midline THEN NewLine ELSE tty
  /\ torn' = (~midline /\ asked.echo /\ typed # <<>>)
  /\ midline' = FALSE
  /\ gen' = <<>>

\* Enter and y confirm; any other key ends the command.
PromptKeyEnter ==
  /\ Answering("prompt_key") /\ Enter
  /\ Answered
  /\ tty' = NewLine /\ midline' = FALSE /\ torn' = FALSE
  /\ UNCHANGED gen

PromptKeyChar ==
  /\ Answering("prompt_key") /\ Control
  /\ Answered
  /\ torn' = FALSE
  /\ \/ /\ gen' \in {gen, <<>>}
        /\ tty' = NewLine /\ midline' = FALSE
     \/ /\ gen' = <<>>
        /\ UNCHANGED <<tty, midline>>

-----------------------------------------------------------------------------
(* A log message.  `sync` is logging synchronous of the session's line;    *)
(* with it the console holds messages back while a command waits.          *)

InjectIdle(sync) ==
  /\ Idle
  /\ IF sync THEN Reprint
     ELSE tty' = NewLine /\ torn' = TRUE /\ UNCHANGED edit
  /\ UNCHANGED <<midline, mixed>>

InjectWaiting ==
  LET start == IF midline THEN NewLine ELSE tty IN
  /\ state \in {"more", "prompt_line", "prompt_key"}
  /\ mixed' = (mixed \/ start.col # 0)
  /\ tty' = NewLine /\ midline' = FALSE /\ torn' = TRUE
  /\ UNCHANGED edit

InjectMessage ==
  /\ \/ \E sync \in BOOLEAN : InjectIdle(sync)
     \/ InjectWaiting
  /\ UNCHANGED <<ignoreLf, afterCr, state, gen, pending, page, ask, hist, nav, shell, unseen>>

-----------------------------------------------------------------------------

IdleKey ==
  \/ OtherKey \/ \E ch \in Chars : Insert(ch)
  \/ Backspace \/ EraseLine \/ KillWord \/ DeleteAt \/ KillToEnd
  \/ MoveLeft \/ MoveRight \/ MoveHome \/ MoveEnd
  \/ TabKey \/ Help \/ HistoryPrev \/ HistoryNext
  \/ SubmitLine \/ InterruptLine

WaitingKey ==
  \/ MoreSpace \/ MoreEnter \/ MoreQuit
  \/ \E ch \in Chars : PromptLineChar(ch)
  \/ PromptErase \/ FinishPromptLine \/ PromptAbort
  \/ PromptKeyEnter \/ PromptKeyChar
  \/ KeyIgnored

Next == IdleKey \/ WaitingKey \/ SwallowLf \/ Pump \/ InjectMessage

Spec == Init /\ [][Next]_vars

-----------------------------------------------------------------------------
(* Properties.                                                             *)

Items ==
  [kind : {"out"}, lines : 0..(MaxOutput + 1), piece : BOOLEAN]
    \cup [kind : {"ask"}, question : Questions]
    \cup [kind : {"do"}, what : {"enable", "disable", "exit", "logout", "configure",
                                 "submode", "parent", "end"}]
    \cup [kind : {"length"}, n : PageLengths] \cup [kind : {"history"}, n : 0..MaxHistory]

TypeOK ==
  /\ tty \in [row : [1..Width -> Cells], col : 0..Width]
  /\ line \in Lines /\ cursor \in 0..Len(line)
  /\ ignoreLf \in BOOLEAN /\ afterCr \in BOOLEAN
  /\ state \in {"idle", "running", "more", "prompt_line", "prompt_key", "closed"}
  /\ gen \in Seq(Items)
  /\ pending \in [lines : 0..(MaxOutput + 1), piece : BOOLEAN]
  /\ page \in Nat /\ unseen \in Nat
  /\ midline \in BOOLEAN
  /\ asked \in Questions \cup {NoQuestion} /\ typed \in Lines
  /\ history \in Seq(Lines) /\ Len(history) <= histMax
  /\ histMax \in 0..MaxHistory
  /\ index \in 0..MaxHistory /\ stash \in {<<>>} \cup {<<l>> : l \in Lines}
  /\ stack \in Seq(Modes) /\ Len(stack) \in 1..MaxDepth
  /\ privilege \in {1, 15} /\ length \in PageLengths
  /\ syslog \in Nat /\ closed \in BOOLEAN
  /\ torn \in BOOLEAN /\ mixed \in BOOLEAN

\* What a browser is sent that attaches now (redraw).
Redraw ==
  CASE state = "more" -> Put(NewLine, MORE_PROMPT)
    [] state = "idle" -> Back(Put(NewLine, Prompt \o line), Len(line) - cursor)
    [] state \in {"prompt_line", "prompt_key"} ->
         Put(NewLine, asked.text \o (IF asked.echo THEN typed ELSE <<>>))
    [] OTHER -> tty

\* After any keys, questions, pages and mode changes, a browser that was attached
\* all the time sees in the row of the cursor what a browser that attaches now
\* is sent: the prompt of the mode in which the line will run, the line that will
\* run with the cursor where keys take effect, and nothing of a password.  Only
\* log messages that do not reprint the prompt are excepted, and an answer that
\* was interrupted on a row which the terminal takes for empty.
ScreensAgree == state # "closed" /\ ~torn => tty = Redraw

\* No more output scrolls by between two keystrokes than a page has lines
\* (protocol.py: "Lines per page for --More--"), however a command prints it.
PageFits == length > 0 => unseen <= length

\* Up and down never leave the history, and the line that was being typed is
\* there to come back to, also after commands that shorten the history.
HistoryReachable ==
  Idle => /\ index <= Len(history)
          /\ index < Len(history) => stash # <<>>

\* A submode is above global configuration, so that commands which only that
\* parses land there; at the bottom there is the exec, and only there.
StackShape ==
  /\ stack[1] = "exec"
  /\ \A i \in 2..Len(stack) :
       /\ stack[i] # "exec"
       /\ stack[i] = "submode" => stack[i - 1] = "config"
  /\ Len(stack) > 1 => stack[2] = "config"

\* A line feed is held to belong to an Enter only right after its carriage
\* return: "swallow the LF of a CRLF pair" (terminal.py:86).
OnlyPairsSwallowed == ignoreLf => afterCr

\* A log message starts in an empty row: "The message is placed on its own line."
\* (terminal.py:158)
MessagesApart == ~mixed

\* Whichever command ends configuration mode, the log says so: "whenever the
\* shell leaves configuration mode it enqueues %SYS-5-CONFIG_I" (shell.py:39).
ConfigExitsLogged ==
  [][InConfig /\ ~closed /\ (Len(stack') = 1 \/ closed') => syslog' = syslog + 1]_vars

=============================================================================
