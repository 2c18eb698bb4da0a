------------------------------- MODULE Naming -------------------------------
(***************************************************************************)
(* Two conversions that what is approved and what is called rest on: the   *)
(* id of a new topic or source is made of the display name the Curator     *)
(* gave it (src/core/feedback.rs), and the command of the hook is a line   *)
(* for `sh` with the path of this binary in it (src/harness/hook.rs).      *)
(***************************************************************************)
EXTENDS Naturals, Sequences, SequencesExt

CONSTANTS MaxId   \* the 64 characters of an id

-----------------------------------------------------------------------------
(* Names and ids: a character is a letter or digit in the ASCII of its      *)
(* lower case, "-", or another "."                                         *)

\* slug: the id of the topic or source that a display name would create; what is not
\* a letter or a digit becomes one dash, none at either end, and the cut comes last.
Dashed(name) ==
  FoldLeft(LAMBDA out, c : IF c \notin {"-", "."} THEN Append(out, c)
                           ELSE IF out = <<>> \/ Last(out) = "-" THEN out ELSE Append(out, "-"),
           <<>>, name)
Trimmed(out) == IF out # <<>> /\ Last(out) = "-" THEN Front(out) ELSE out
Cut(out) == SubSeq(out, 1, IF Len(out) < MaxId THEN Len(out) ELSE MaxId)
Topic == <<"t", "o", "p", "i", "c">>
Slug(name) == LET cut == Cut(Trimmed(Dashed(name))) IN IF cut = <<>> THEN Topic ELSE cut

IsValidId(id) ==
  /\ id # <<>> /\ Len(id) <= MaxId
  /\ id[1] # "-"
  /\ "." \notin ToSet(id)

-----------------------------------------------------------------------------
(* settings.json: the command of the hook is a line for `sh` *)

Quote == "'"
Backslash == "\\"

\* shell_quote: a quote inside ends the quoting, stands escaped, and quoting goes on.
Escaped(path) ==
  FoldLeft(LAMBDA out, c : IF c = Quote THEN out \o <<Quote, Backslash, Quote, Quote>> ELSE Append(out, c),
           <<>>, path)
ShellQuote(path) == <<Quote>> \o Escaped(path) \o <<Quote>>

\* What `sh` makes of a line: its words, taken apart at spaces that are not quoted.
Shell(mode, open, word, words) == [mode |-> mode, open |-> open, word |-> word, words |-> words]
ShellStep(acc, c) ==
  LET more == Append(acc.word, c)
  IN IF acc.mode = "quoted"
       THEN IF c = Quote THEN Shell("plain", acc.open, acc.word, acc.words)
            ELSE Shell("quoted", acc.open, more, acc.words)
     ELSE IF acc.mode = "escaped" THEN Shell("plain", acc.open, more, acc.words)
     ELSE IF c = Quote THEN Shell("quoted", TRUE, acc.word, acc.words)
     ELSE IF c = Backslash THEN Shell("escaped", TRUE, acc.word, acc.words)
     ELSE IF c # " " THEN Shell("plain", TRUE, more, acc.words)
     ELSE Shell("plain", FALSE, <<>>, IF acc.open THEN Append(acc.words, acc.word) ELSE acc.words)
ShellRead(line) == FoldLeft(ShellStep, Shell("plain", FALSE, <<>>, <<>>), line)
ShellWords(line) ==
  LET end == ShellRead(line) IN IF end.open THEN Append(end.words, end.word) ELSE end.words

\* The command of render_settings.
HookCommand(exe) == ShellQuote(exe) \o <<" ", "hook">>

-----------------------------------------------------------------------------
(* What they are for *)

(* Whatever the name, what it creates has an id that later proposals may   *)
(* name; and an id is its own slug, unless a dash or a mark made it.       *)
SlugIsAnId(name) ==
  /\ IsValidId(Slug(name))
  /\ Len(Slug(name)) < MaxId => Slug(Slug(name)) = Slug(name)

(* The binary is run whatever its path: the line has two words, and the    *)
(* first is the path.                                                      *)
PathIsOneWord(exe) == Len(ShellWords(HookCommand(exe))) = 2 /\ ShellWords(HookCommand(exe))[1] = exe
=============================================================================
