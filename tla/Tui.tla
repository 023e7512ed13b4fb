------------------------------- MODULE Tui -------------------------------
(***************************************************************************)
(* The interactive terminal: one loop that draws, reads a key, and runs a  *)
(* command of the CLI outside of the alternate screen.  A command that     *)
(* changes something runs only after a dialog.  Calls of the terminal may  *)
(* fail.                                                                   *)
(*                                                                         *)
(* A line is a sequence of symbols: a quote, a backslash, a space, or a    *)
(* run of letters, of which a command's whole path is one.  What clap      *)
(* accepts after a path is the constant Arguments.  Scrolling, wording and *)
(* exit codes are left out.                                                *)
(*                                                                         *)
(* Source: crates/mindone-cli/src/tui.rs.                                  *)
(***************************************************************************)
EXTENDS Naturals, Sequences, FiniteSets
LOCAL INSTANCE SequencesExt

CONSTANTS
  Arguments,     \* for some commands, the argument words that they accept
  Typed,         \* the symbols that keys give
  Pasted,        \* the texts that are pasted
  MaxLine,       \* the length at which a line is no longer typed into
  EditedAt,      \* the selections at which the line is edited, to bound the model
  Catalog, Rank, \* repositories, and the ranks of the recommended ones
  Letter, Spelled, MaxQuery,
  Nothing

VARIABLES
  ui,        \* DashboardState
  tty,       \* raw mode and alternate screen, as they are
  guard,     \* TerminalGuard.active
  at,        \* start, keys, run, or left
  exec,      \* the line being executed
  agreed,    \* the dialog answered with yes last
  refused    \* what could not be restored at the last attempt

tui == <<ui, tty, guard, at, exec, agreed, refused>>

-----------------------------------------------------------------------------
(* The table of commands *)

COMMANDS ==
  <<"auth login", "auth logout", "auth status", "auth attest",
    "api info", "api create", "api list", "api revoke", "api models",
    "model list", "model catalog", "model recommend", "model probe", "model deploy",
    "model download", "model delete", "model verify",
    "engine list", "engine install", "engine detect", "engine set-default",
    "serve run", "serve stop", "serve status",
    "share publish", "share unpublish", "share stats",
    "quota balance", "quota history", "quota receipt", "quota use",
    "node policy show", "node policy set", "node threshold show", "node threshold set",
    "node optimize",
    "config set", "config get", "config list", "doctor">>

\* The commands whose risk is Confirm; the others are read-only.
ConfirmRisk ==
  {"auth login", "auth logout", "auth attest", "api create", "api revoke", "model deploy",
   "model download", "model delete", "model verify", "engine install", "engine set-default",
   "serve run", "serve stop", "share publish", "share unpublish", "quota use",
   "node policy set", "node threshold set", "config set"}

\* Indices are the code's, from 0.
CATEGORIES ==
  [c \in 0 .. 9 |->
     [start |-> <<0, 4, 9, 17, 21, 24, 27, 31, 36, 39>>[c + 1],
      len |-> <<4, 5, 8, 4, 3, 3, 4, 5, 3, 1>>[c + 1]]]

IndexOf(path) == CHOOSE i \in 0 .. 39 : COMMANDS[i + 1] = path
Selected(u) == COMMANDS[CATEGORIES[u.category].start + u.action + 1]

-----------------------------------------------------------------------------
(* Words *)

White == {" "}
Quotes == {"'", "\""}

\* One symbol of split_command_line; skip is set when a backslash has taken the
\* symbol after it.
SplitStep(line, w, i) ==
  LET s == line[i]
      escapes(set) == s = "\\" /\ i < Len(line) /\ line[i + 1] \in set
      push(x) == [w EXCEPT !.current = Append(@, x), !.started = TRUE]
  IN IF w.skip THEN [w EXCEPT !.skip = FALSE]
     ELSE IF w.quote = "'" THEN IF s = "'" THEN [w EXCEPT !.quote = ""] ELSE push(s)
     ELSE IF w.quote = "\"" THEN
       IF s = "\"" THEN [w EXCEPT !.quote = ""]
       ELSE IF escapes({"\""}) THEN [push(line[i + 1]) EXCEPT !.skip = TRUE]
       ELSE push(s)
     ELSE IF s \in Quotes THEN [w EXCEPT !.quote = s, !.started = TRUE]
     ELSE IF escapes(White \cup Quotes) THEN [push(line[i + 1]) EXCEPT !.skip = TRUE]
     ELSE IF s \in White THEN
       IF w.started
       THEN [w EXCEPT !.words = Append(@, w.current), !.current = <<>>, !.started = FALSE]
       ELSE w
     ELSE push(s)

\* The words of a line, and whether its quotes are closed.
Start == [words |-> <<>>, current |-> <<>>, quote |-> "", started |-> FALSE, skip |-> FALSE]
Finish(w) ==
  [closed |-> w.quote = "",
   words |-> IF w.started THEN Append(w.words, w.current) ELSE w.words]
Split(line) ==
  LET after[i \in 0 .. Len(line)] == IF i = 0 THEN Start ELSE SplitStep(line, after[i - 1], i)
  IN Finish(after[Len(line)])

\* clap: a command that is not in Arguments takes none.
Accepts(path, args) == args \in (IF path \in DOMAIN Arguments THEN Arguments[path] ELSE {<<>>})

\* The command that words stand for: the program's name is optional, the path
\* must be public and its arguments accepted.
WithoutName(words) == IF words # <<>> /\ words[1] = <<"mindone">> THEN Tail(words) ELSE words
Parse(words) ==
  IF /\ words # <<>> /\ Len(words[1]) = 1 /\ words[1][1] \in Range(COMMANDS)
     /\ Accepts(words[1][1], Tail(words))
  THEN words[1][1] ELSE Nothing
ParseSplit(split) == IF split.closed THEN Parse(WithoutName(split.words)) ELSE Nothing
CommandPath(line) == ParseSplit(Split(line))

-----------------------------------------------------------------------------
(* The dashboard *)

PathLine(path) == <<"mindone", " ", path>>

ResetEditor(u) ==
  LET line == PathLine(Selected(u)) IN [u EXCEPT !.line = line, !.cursor = Len(line)]

Dashboard ==
  ResetEditor([category |-> 0, action |-> 0, focus |-> "category", line |-> <<>>, cursor |-> 0,
               confirmation |-> Nothing, picker |-> Nothing, help |-> FALSE])

SelectCategory(u, c) == ResetEditor([u EXCEPT !.category = c, !.action = 0])
SelectAction(u, a) == ResetEditor([u EXCEPT !.action = a])

\* Up and down, in a circle.
Around(i, n) == {(i + 1) % n, (i + n - 1) % n}
MoveSelection(u) ==
  CASE u.focus = "category" -> {SelectCategory(u, c) : c \in Around(u.category, 10)}
    [] u.focus = "action" ->
         {SelectAction(u, a) : a \in Around(u.action, CATEGORIES[u.category].len)}

SelectCommand(u, path, line) ==
  LET c == CHOOSE x \in 0 .. 9 :
             /\ CATEGORIES[x].start <= IndexOf(path)
             /\ IndexOf(path) < CATEGORIES[x].start + CATEGORIES[x].len
  IN [u EXCEPT !.category = c, !.action = IndexOf(path) - CATEGORIES[c].start,
               !.line = line, !.cursor = Len(line)]

\* Tab, BackTab, and the arrows, Enter, Esc and e that also move the focus.
Panels == <<"category", "action", "editor">>
MoveFocus(u) ==
  LET i == CHOOSE x \in 1 .. 3 : Panels[x] = u.focus
  IN {[u EXCEPT !.focus = Panels[j + 1]] : j \in Around(i - 1, 3)}

\* The cursor is between symbols, and may be past the end only for min to catch.
InsertText(u, text) ==
  LET c == IF u.cursor < Len(u.line) THEN u.cursor ELSE Len(u.line)
  IN [u EXCEPT !.line = SubSeq(@, 1, c) \o text \o SubSeq(@, c + 1, Len(@)),
               !.cursor = c + Len(text)]
Backspace(u) ==
  LET c == IF u.cursor < Len(u.line) THEN u.cursor ELSE Len(u.line)
  IN IF u.cursor = 0 THEN u
     ELSE [u EXCEPT !.line = SubSeq(@, 1, c - 1) \o SubSeq(@, c + 1, Len(@)), !.cursor = c - 1]
DeleteNext(u) ==
  IF u.cursor >= Len(u.line) THEN u
  ELSE [u EXCEPT !.line = SubSeq(@, 1, u.cursor) \o SubSeq(@, u.cursor + 2, Len(@))]

EditLine(u) ==
  {[u EXCEPT !.cursor = c] :
     c \in {0, Len(u.line), IF u.cursor = 0 THEN 0 ELSE u.cursor - 1,
            IF u.cursor < Len(u.line) THEN u.cursor + 1 ELSE Len(u.line)}}
  \cup {Backspace(u), DeleteNext(u), [u EXCEPT !.line = <<>>, !.cursor = 0]}
  \cup {InsertText(u, <<s>>) : s \in {t \in Typed : Len(u.line) < MaxLine}}

-----------------------------------------------------------------------------
(* The model picker *)

\* Recommended models first, by their rank, then the rest by name, the order of
\* Catalog.
PickerModels ==
  LET rank(i) == IF Catalog[i] \in DOMAIN Rank THEN Rank[Catalog[i]] ELSE Len(Catalog)
      before(i, j) == rank(i) < rank(j) \/ (rank(i) = rank(j) /\ i < j)
      order == SetToSortSeq(DOMAIN Catalog, before)
  IN [i \in DOMAIN order |-> Catalog[order[i]]]

Visible(picker) ==
  SelectSeq(PickerModels,
            LAMBDA m : \A i \in DOMAIN picker.query : <<m, picker.query[i]>> \in Spelled)

\* selected is clamped, in case the list has become shorter.
SelectedRepository(picker) ==
  LET v == Visible(picker)
  IN IF v = <<>> THEN Nothing
     ELSE v[IF picker.selected < Len(v) THEN picker.selected + 1 ELSE Len(v)]

\* Up and down, once or a page of eight, and the query.
PickerKeys(p) ==
  LET n == Len(Visible(p))
      moved == IF n = 0 THEN {p.selected}
               ELSE {(p.selected + k) % n : k \in {1, 8}} \cup
                    {(p.selected + 8 * n - k) % n : k \in {1, 8}}
  IN {[p EXCEPT !.selected = s] : s \in moved}
     \cup {[query |-> IF p.query = <<>> THEN <<>> ELSE Front(p.query), selected |-> 0]}
     \cup {[query |-> Append(p.query, l), selected |-> 0] :
             l \in {x \in Letter : Len(p.query) < MaxQuery}}

-----------------------------------------------------------------------------
(* The terminal.  A call either takes effect or fails. *)

\* What Drop leaves, when the guard is active: both calls are tried.
Drop(t, active) ==
  IF active
  THEN {[tty |-> [raw |-> t.raw /\ raw_fails, screen |-> t.screen /\ screen_fails],
         refused |-> (IF raw_fails THEN {"raw"} ELSE {}) \cup
                     (IF screen_fails THEN {"screen"} ELSE {})] :
          raw_fails, screen_fails \in BOOLEAN}
  ELSE {[tty |-> t, refused |-> refused]}

\* The loop is left: its guard and its state are dropped.
Left == at' = "left" /\ guard' = FALSE /\ ui' = Dashboard /\ exec' = Nothing /\ agreed' = Nothing
Leave(t, active) ==
  Left /\ \E d \in Drop(t, active) : tty' = d.tty /\ refused' = d.refused

\* enter and resume: raw mode first, which is undone if the screen fails.
GoFull ==
  /\ tty' = [raw |-> TRUE, screen |-> TRUE] /\ guard' = TRUE /\ refused' = {} /\ at' = "keys"
  /\ UNCHANGED ui /\ exec' = Nothing /\ agreed' = Nothing
GoFullFails ==
  /\ Left
  /\ \/ UNCHANGED <<tty, refused>>
     \/ \E undone \in BOOLEAN :
          /\ tty' = [tty EXCEPT !.raw = ~undone]
          /\ refused' = IF undone THEN {} ELSE {"raw"}

\* suspend: the screen is left after raw mode, which comes back if it is not.
GoPlain ==
  tty' = [raw |-> FALSE, screen |-> FALSE] /\ guard' = FALSE /\ refused' = {} /\ at' = "run"
GoPlainFails == \E back \in BOOLEAN : Leave([tty EXCEPT !.raw = back], guard)

-----------------------------------------------------------------------------
(* The loop *)

Enter == at = "start" /\ (GoFull \/ GoFullFails)

Reading == at = "keys"
Plain(u) == ~u.help /\ u.confirmation = Nothing /\ u.picker = Nothing

\* Keys and pastes that only change the dashboard.
Shows(u) == Reading /\ ui' = u /\ UNCHANGED <<tty, guard, at, exec, agreed, refused>>

\* A line runs, after it was parsed once more, on the plain terminal.
Run(u, line, path, dialog) ==
  IF path = Nothing
  THEN ui' = u /\ UNCHANGED <<tty, guard, at, exec, agreed, refused>>
  ELSE \/ ui' = u /\ exec' = line /\ agreed' = dialog /\ GoPlain
       \/ GoPlainFails

\* A line is prepared: it is refused, waits for the dialog, or runs.
NeedsConfirmation(path) == path \in ConfirmRisk
Prepare(u, line) ==
  \E path \in {CommandPath(line)} :
    IF path # Nothing /\ NeedsConfirmation(path)
    THEN /\ ui' = [u EXCEPT !.confirmation = [line |-> line, path |-> path]]
         /\ UNCHANGED <<tty, guard, at, exec, agreed, refused>>
    ELSE Run(u, line, path, Nothing)

CloseHelp == ui.help /\ Shows([ui EXCEPT !.help = FALSE])

AnswerYes ==
  /\ Reading /\ ~ui.help /\ ui.confirmation # Nothing
  /\ Run([ui EXCEPT !.confirmation = Nothing], ui.confirmation.line,
         CommandPath(ui.confirmation.line), ui.confirmation)
AnswerNo ==
  ~ui.help /\ ui.confirmation # Nothing /\ Shows([ui EXCEPT !.confirmation = Nothing])

InPicker == ~ui.help /\ ui.confirmation = Nothing /\ ui.picker # Nothing
PickerKey ==
  /\ InPicker
  /\ \E p \in PickerKeys(ui.picker) \cup {Nothing} : Shows([ui EXCEPT !.picker = p])
PickModel ==
  /\ Reading /\ InPicker /\ SelectedRepository(ui.picker) # Nothing
  /\ LET line == PathLine("model deploy") \o <<" ", SelectedRepository(ui.picker)>>
     IN Prepare(SelectCommand([ui EXCEPT !.picker = Nothing], "model deploy", line), line)

Browsing == Plain(ui) /\ ui.focus # "editor"
OpenHelp == Browsing /\ Shows([ui EXCEPT !.help = TRUE])
OpenPicker == Browsing /\ Shows([ui EXCEPT !.picker = [query |-> <<>>, selected |-> 0]])
Recommend ==
  /\ Reading /\ Browsing
  /\ LET line == PathLine("model recommend") \o <<" ", "--limit">>
     IN Prepare(SelectCommand(ui, "model recommend", line), line)
DeployAuto ==
  /\ Reading /\ Browsing
  /\ LET line == PathLine("model deploy") \o <<" ", "auto">>
     IN Prepare(SelectCommand(ui, "model deploy", line), line)
Move == Browsing /\ \E u \in MoveSelection(ui) : Shows(u)
Digit ==
  Browsing /\ ui.focus = "category" /\ \E c \in 0 .. 9 : Shows(SelectCategory(ui, c))
Focus == Plain(ui) /\ \E u \in MoveFocus(ui) : Shows(u)
Editable(u) == Selected(u) \in EditedAt
Edit ==
  Plain(ui) /\ ui.focus = "editor" /\ Editable(ui) /\ \E u \in EditLine(ui) : Shows(u)
EnterLine == Reading /\ Plain(ui) /\ ui.focus = "editor" /\ Prepare(ui, ui.line)

\* A paste asks for the focus and the dialog only.
PasteAllowed(u) == u.focus = "editor" /\ u.confirmation = Nothing
Paste ==
  /\ PasteAllowed(ui) /\ Editable(ui)
  /\ \E text \in Pasted : Len(ui.line) < MaxLine /\ Shows(InsertText(ui, text))

\* The command ends, whatever its result, and the dashboard comes back.
CommandEnds == at = "run" /\ (GoFull \/ GoFullFails)

\* Ctrl-C, q or Esc; a frame or an event that cannot be drawn or read; or the
\* notice of a command that cannot be written.
Ends == at \in {"keys", "run"} /\ Leave(tty, guard)

\* The program is started again.
Again ==
  /\ at = "left" /\ tty = [raw |-> FALSE, screen |-> FALSE]
  /\ at' = "start" /\ refused' = {} /\ UNCHANGED <<ui, tty, guard, exec, agreed>>

Init ==
  /\ ui = Dashboard /\ tty = [raw |-> FALSE, screen |-> FALSE] /\ guard = FALSE
  /\ at = "start" /\ exec = Nothing /\ agreed = Nothing /\ refused = {}

Next ==
  \/ Enter \/ CloseHelp \/ AnswerYes \/ AnswerNo \/ PickerKey \/ PickModel
  \/ OpenHelp \/ OpenPicker \/ Recommend \/ DeployAuto \/ Move \/ Digit \/ Focus
  \/ Edit \/ EnterLine \/ Paste \/ CommandEnds \/ Ends \/ Again
  \/ at = "left" /\ UNCHANGED tui

Spec == Init /\ [][Next]_tui

-----------------------------------------------------------------------------
\* The selection stays in the table, the cursor in the line and the picker's
\* choice in its list (an index outside would end the program), and dialogs do
\* not overlap.
TypeOK ==
  /\ ui.category \in 0 .. 9 /\ ui.action < CATEGORIES[ui.category].len
  /\ ui.cursor <= Len(ui.line)
  /\ ui.picker # Nothing =>
       ui.picker.selected = 0 \/ ui.picker.selected < Len(Visible(ui.picker))
  /\ Cardinality({x \in {"help", "dialog", "picker"} :
       CASE x = "help" -> ui.help [] x = "dialog" -> ui.confirmation # Nothing
         [] x = "picker" -> ui.picker # Nothing}) <= 1

\* While the dialog asks, the line it shows is the line in the editor (the
\* comment in run relies on it), and what runs and changes something is the line
\* of the last dialog that was answered with yes, and the command it named.
RunsConfirmed ==
  /\ ui.confirmation # Nothing => ui.confirmation.line = ui.line
  /\ at = "run" =>
       LET path == CommandPath(exec)
       IN /\ path # Nothing
          /\ path \in ConfirmRisk => agreed = [line |-> exec, path |-> path]

\* Commands run on a plain terminal and keys are read on a full one; when the
\* program has ended, the terminal is plain unless the very call that would have
\* made it so failed.
TerminalRestored ==
  /\ at = "run" => ~tty.raw /\ ~tty.screen
  /\ at = "keys" => tty.raw /\ tty.screen /\ guard
  /\ at = "left" =>
       (tty.raw => "raw" \in refused) /\ (tty.screen => "screen" \in refused)

\* Words in quotes come out of the split as they went in, whatever they hold:
\* in single quotes all but these, in double quotes with the double quotes
\* escaped all that do not end in a backslash.
QuotedWordsKept ==
  at = "start" =>
    LET Symbols == {"a", " ", "'", "\"", "\\"}
        Words == UNION {[1 .. n -> Symbols] : n \in 0 .. 3}
        single(w) == <<"'">> \o w \o <<"'">>
        double(w) == <<"\"">> \o FlattenSeq([i \in DOMAIN w |->
                       IF w[i] = "\"" THEN <<"\\", "\"">> ELSE <<w[i]>>]) \o <<"\"">>
    IN \A w \in Words :
         /\ "'" \notin Range(w) =>
              Split(single(w) \o <<" ">> \o single(<<"a">>)) =
                [closed |-> TRUE, words |-> <<w, <<"a">>>>]
         /\ w = <<>> \/ Last(w) # "\\" =>
              Split(double(w)) = [closed |-> TRUE, words |-> <<w>>]
=============================================================================
