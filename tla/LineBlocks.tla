----------------------------- MODULE LineBlocks -----------------------------
(***************************************************************************)
(* VTY lines.  A device keeps them as blocks, each with the settings of all *)
(* its lines, and `line vty` takes a range of lines whatever the blocks are:*)
(* blocks at its edges are split, lines that do not exist are made, and the *)
(* line submode holds on to the blocks inside.  Consoles of a lab configure *)
(* the same device at the same time, each in a submode of its own.          *)
(***************************************************************************)
EXTENDS Integers, FiniteSets

CONSTANTS
  Devices,      \* devices with VTY lines
  Editors,      \* sessions that may configure one of them
  LastDefault,  \* lines up to this one always exist (4)
  LastLine,     \* 15
  Ranges,       \* <<first, last>> of line vty commands
  Passwords

NoPassword == 0
ASSUME LineAssumption ==
  /\ LastDefault \in Nat /\ LastLine \in Nat /\ LastDefault < LastLine
  /\ Ranges \subseteq (0..LastLine) \X (0..LastLine) /\ \A r \in Ranges : r[1] <= r[2]
  /\ NoPassword \notin Passwords

Numbers == 0..LastLine
Transports == {"ssh", "telnet"}
AnyOutput == {"any"}  \* transport output never configured

Settings == [login : {"none", "line", "local"}, password : Passwords \cup {NoPassword},
             input : SUBSET Transports, output : (SUBSET Transports) \cup {AnyOutput}]
NewSettings == [login |-> "line", password |-> NoPassword, input |-> {}, output |-> AnyOutput]

VARIABLES
  vty,    \* the blocks of each device: [first, last, set]
  open,   \* the line submode of each editor on a device: the range that was typed, and
          \* the first lines of the blocks it holds, no matter what becomes of them
  typed,  \* settings per line as the commands gave them; {} when there is no such line
  shared  \* devices whose blocks were split while another editor was in its submode

lineVars == <<vty, open, typed, shared>>

\* What typed has for a line is a set of at most one.
DefaultBlocks == {[first |-> 0, last |-> LastDefault, set |-> NewSettings]}
NoSubmode == [from |-> 1, to |-> 0, blocks |-> {}]


-----------------------------------------------------------------------------
(* Blocks.                                                                  *)

Span(b) == b.first..b.last
LinesOf(B) == UNION {Span(b) : b \in B}
Inside(b, f, l) == f <= b.first /\ b.last <= l
Overlaps(b, f, l) == b.first <= l /\ f <= b.last
Lower(i, j) == IF i < j THEN i ELSE j
Higher(i, j) == IF i > j THEN i ELSE j

\* A block that is partly in the range is taken as it is.
CutNothing(b, f, l) == {b}

\* What is left of a block before, in and after a range.
Part(b, f, l) == [first |-> f, last |-> l, set |-> b.set]
Cut(b, f, l) ==
  {d \in {Part(b, b.first, Lower(b.last, f - 1)),
          Part(b, Higher(b.first, f), Lower(b.last, l)),
          Part(b, Higher(b.first, l + 1), b.last)} : d.first <= d.last}

\* Lines that do not exist yet, in the longest runs on one side of LastDefault.
SameSide(i, j) == i <= LastDefault <=> j <= LastDefault
Joins(i, j, M) == i \in M /\ j \in M /\ SameSide(i, j)
IsRun(r, M) ==
  /\ r[1] <= r[2] /\ r[1]..r[2] \subseteq M /\ SameSide(r[1], r[2])
  /\ ~Joins(r[1] - 1, r[1], M) /\ ~Joins(r[2], r[2] + 1, M)
Runs(M) == {r \in M \X M : IsRun(r, M)}
NewBlocks(B, f, l) ==
  {[first |-> r[1], last |-> r[2], set |-> NewSettings] : r \in Runs((f..l) \ LinesOf(B))}

VtyRange(B, f, l) == (UNION {Cut(b, f, l) : b \in B}) \cup NewBlocks(B, f, l)

\* no line vty: the range is split off and dropped.
WithoutRange(B, f, l) == {b \in VtyRange(B, f, l) : ~Inside(b, f, l)}

\* A submode goes on with the part inside the range of a block that is split, and with
\* nothing of one that is dropped.
Followed(S, B, f, l) ==
  {IF Overlaps(b, f, l) THEN Higher(b.first, f) ELSE b.first : b \in {b \in B : b.first \in S}}
Abandoned(S, B, f, l) == {b.first : b \in {b \in B : b.first \in S /\ ~Overlaps(b, f, l)}}

SetBlocks(B, S, change) ==
  {IF b.first \in S THEN [b EXCEPT !.set = change[@]] ELSE b : b \in B}

\* The settings a session on line i runs under.
At(B, i) == (CHOOSE b \in B : i \in Span(b)).set

\* The settings of line i as a set, of at most one.
SettingsAt(B, i) == {b.set : b \in {b \in B : i \in Span(b)}}


-----------------------------------------------------------------------------
(* Line commands.                                                           *)

LinePassword(p) == [s \in Settings |-> [s EXCEPT !.password = p]]
LineLogin(m) == [s \in Settings |-> [s EXCEPT !.login = m]]
TransportInput(T) == [s \in Settings |-> [s EXCEPT !.input = T]]
TransportOutput(T) == [s \in Settings |-> [s EXCEPT !.output = T]]

Changes ==
  {LinePassword(p) : p \in Passwords \cup {NoPassword}}
    \cup {LineLogin(m) : m \in {"none", "line", "local"}}
    \cup {TransportInput(T) : T \in SUBSET Transports}
    \cup {TransportOutput(T) : T \in (SUBSET Transports) \cup {AnyOutput}}


-----------------------------------------------------------------------------
(* Actions of editor e on device n.                                         *)

\* Entering line configuration leaves the editor's former submode.
SplitBy(n, e) ==
  shared' = IF \E d \in Editors \ {e} : open[n][d] # NoSubmode THEN shared \cup {n} ELSE shared

LineVty(n, e, f, l) ==
  LET B == VtyRange(vty[n], f, l)
  IN /\ vty' = [vty EXCEPT ![n] = B]
     /\ open' = [open EXCEPT ![n] =
          [d \in Editors |->
             IF d = e THEN [from |-> f, to |-> l, blocks |-> {b.first : b \in {b \in B : Inside(b, f, l)}}]
             ELSE [open[n][d] EXCEPT !.blocks = Followed(@, vty[n], f, l)]]]
     /\ typed' = [typed EXCEPT ![n] =
          [i \in Numbers |-> IF i \in f..l /\ @[i] = {} THEN {NewSettings} ELSE @[i]]]
     /\ SplitBy(n, e)

\* A setting in line configuration.
SetLines(n, e, change) ==
  /\ open[n][e] # NoSubmode
  /\ vty' = [vty EXCEPT ![n] = SetBlocks(@, open[n][e].blocks, change)]
  /\ typed' = [typed EXCEPT ![n] =
       [i \in Numbers |-> IF i \in open[n][e].from..open[n][e].to THEN {change[s] : s \in @[i]} ELSE @[i]]]
  /\ UNCHANGED <<open, shared>>

\* no line vty, refused for the default lines; it is a command of global configuration,
\* so it leaves the submode.
NoLineVty(n, e, f, l) ==
  /\ f > LastDefault
  /\ vty' = [vty EXCEPT ![n] = WithoutRange(@, f, l)]
  /\ open' = [open EXCEPT ![n] =
       [d \in Editors |->
          IF d = e THEN NoSubmode ELSE [open[n][d] EXCEPT !.blocks = Abandoned(@, vty[n], f, l)]]]
  /\ typed' = [typed EXCEPT ![n] = [i \in Numbers |-> IF i \in f..l THEN {} ELSE @[i]]]
  /\ SplitBy(n, e)

LeaveLines(n, e) ==
  /\ open[n][e] # NoSubmode
  /\ open' = [open EXCEPT ![n][e] = NoSubmode]
  /\ UNCHANGED <<vty, typed, shared>>

LineCommand(n) ==
  \E e \in Editors :
    \/ \E r \in Ranges : LineVty(n, e, r[1], r[2]) \/ NoLineVty(n, e, r[1], r[2])
    \/ \E change \in Changes : SetLines(n, e, change)
    \/ LeaveLines(n, e)

TypedAs(B) == [i \in Numbers |-> SettingsAt(B, i)]
LinesStart(blocks) ==
  /\ vty = blocks /\ typed = [n \in Devices |-> TypedAs(blocks[n])]
  /\ open = [n \in Devices |-> [e \in Editors |-> NoSubmode]]
  /\ shared = {}


-----------------------------------------------------------------------------
(* The running configuration.                                               *)

\* Neighbouring blocks print as one, whatever their settings.
RenderedJoined(B) == {[first |-> r[1], last |-> r[2], set |-> At(B, r[1])] : r \in Runs(LinesOf(B))}

\* Neighbouring blocks with the same settings print as one.
PrintAlike(B, i, j) == Joins(i, j, LinesOf(B)) /\ At(B, i) = At(B, j)
Printed(B, r) ==
  /\ r[1] <= r[2] /\ \A i \in r[1]..r[2] : PrintAlike(B, r[1], i)
  /\ ~PrintAlike(B, r[1] - 1, r[1]) /\ ~PrintAlike(B, r[2], r[2] + 1)
Rendered(B) ==
  {[first |-> r[1], last |-> r[2], set |-> At(B, r[1])] :
     r \in {r \in LinesOf(B) \X LinesOf(B) : Printed(B, r)}}

\* A printed block typed in again: what is not printed is not set.
Entered(new, old) ==
  [login |-> new.login,
   password |-> IF new.password = NoPassword THEN old.password ELSE new.password,
   input |-> new.input,
   output |-> IF new.output = AnyOutput THEN old.output ELSE new.output]
Retyped(B, p) ==
  {IF Inside(b, p.first, p.last) THEN [b EXCEPT !.set = Entered(p.set, @)] ELSE b :
     b \in VtyRange(B, p.first, p.last)}

\* The printed blocks P typed in on the blocks B, in the order of their lines: `after' gives
\* the blocks when those that begin below a line are typed.
Replayed(P, B) ==
  LET after[i \in 0..(LastLine + 1)] ==
        IF i = 0 THEN B
        ELSE IF \E p \in P : p.first = i - 1
        THEN Retyped(after[i - 1], CHOOSE p \in P : p.first = i - 1)
        ELSE after[i - 1]
  IN after[LastLine + 1]

\* The grader's question: do the lines f..l exist, and has every printed block that
\* covers some of them the value?
Covers(P, f, l, field, value) ==
  LET R == {p \in P : Overlaps(p, f, l)}
  IN /\ \A p \in R : p.set[field] = value
     /\ f..l \subseteq LinesOf(R)


-----------------------------------------------------------------------------

BlockType == [first : Numbers, last : Numbers, set : Settings]

\* Blocks share no line and none reaches over LastDefault.
LinesTypeOK ==
  /\ vty \in [Devices -> SUBSET BlockType]
  /\ open \in [Devices -> [Editors -> [from : Numbers, to : Numbers, blocks : SUBSET Numbers]]]
  /\ typed \in [Devices -> [Numbers -> SUBSET Settings]]
  /\ shared \subseteq Devices

\* "IOS applies the submode commands to every line of the range" (core.py:336): as long
\* as no editor split a device's blocks under the submode of another, each line has the
\* settings that the commands whose range it is in gave it, last one last, and exists
\* when one made it and none removed it, although blocks are split, copied, renamed and
\* dropped on the way (vty_range, the line commands, _no_line_vty).
LineAsTyped(n) ==
  n \notin shared =>
    \A i \in Numbers : typed[n][i] = SettingsAt(vty[n], i)
LinesAsTyped == \A n \in Devices : LineAsTyped(n)

\* The running configuration, typed into a device that starts up, makes the lines it was
\* printed from, and the grader finds in it a range with a value exactly when each
\* line of the range has it (_rendered_lines, vty_range, vty_covers).
LinesRestored ==
  \A n \in Devices :
    LET P == Rendered(vty[n])
        C == Replayed(P, DefaultBlocks)
    IN /\ \A i \in Numbers : SettingsAt(C, i) = SettingsAt(vty[n], i)
       /\ \A r \in Ranges, T \in SUBSET Transports :
            Covers(P, r[1], r[2], "input", T) <=>
              \A i \in r[1]..r[2] : i \in LinesOf(vty[n]) /\ At(vty[n], i).input = T


-----------------------------------------------------------------------------
(* The inductive invariant behind LinesAsTyped.                             *)

\* No block is empty and no two share a line.
Proper(B) ==
  /\ \A b \in B : b.first <= b.last
  /\ \A b, d \in B : b = d \/ b.last < d.first \/ d.last < b.first

\* A startup configuration has the default lines, and others as it likes.
StartBlocks == {B \in SUBSET BlockType : Proper(B) /\ 0..LastDefault \subseteq LinesOf(B)}
LinesInit == \E blocks \in [Devices -> StartBlocks] : LinesStart(blocks)
LinesSpec == LinesInit /\ [][\E n \in Devices : LineCommand(n)]_lineVars

\* A submode holds the blocks in the range that was typed, and no block is partly in it.
HoldsRange(n, e) ==
  LET o == open[n][e]
  IN \A b \in vty[n] : /\ b.first \in o.blocks <=> Inside(b, o.from, o.to)
                       /\ Overlaps(b, o.from, o.to) => Inside(b, o.from, o.to)

\* On a device that no editor split under another, one editor at most is in a submode.
Alone(n) ==
  n \notin shared =>
    \A e \in Editors : open[n][e] # NoSubmode =>
      HoldsRange(n, e) /\ \A d \in Editors : open[n][d] # NoSubmode => d = e

LinesIInv ==
  /\ LinesTypeOK
  /\ \A n \in Devices : Proper(vty[n]) /\ LineAsTyped(n) /\ Alone(n)

\* And behind LinesRestored: no command removes a line that always exists.
DefaultsKept == \A n \in Devices : 0..LastDefault \subseteq LinesOf(vty[n])

=============================================================================
