------------------------------- MODULE Extraction -------------------------------
(***************************************************************************)
(* Extractor::extract, with which the indexer's thread gets the text of a  *)
(* file: the choice of an importer, and run_capped, which runs a parser as *)
(* a child with a deadline and a cap on what it may say.  The child starts *)
(* in the indexer's process group and leaves it; it may fork, hang, stop   *)
(* half-way, or end badly.  Limits on its memory and processor time are    *)
(* among the ways it dies.                                                 *)
(***************************************************************************)
EXTENDS Naturals, FiniteSets

CONSTANT
    MaxText      \* opt.max_text_bytes, in pieces

VARIABLES
    doc,         \* the file: its kind and, for a text, what is in it
    enabled,     \* the importers of the configuration
    installed,   \* the programs on the PATH
    extract,     \* extract(): where it is, and the status and the text it returns
    capped,      \* run_capped(): the program, and what it has of it
    child,       \* the child: how it goes, its group, what it wrote
    orphan       \* a process the child forked: none, in its group, or killed

vars == <<doc, enabled, installed, extract, capped, child, orphan>>

Programs == {"pdftotext", "unzip", "pandoc", "odt2txt"}

Importers == {"text", "html", "pdf", "office"}
Kinds == {"text", "html", "pdf", "docx", "odt", "rtf", "other"}
Contents == {"plain", "binary", "nothing"}

\* By extension and MIME type; the text importer takes what is known and has no other.
Native(kind) == IF kind \in {"docx", "odt", "rtf"} THEN "office" ELSE kind
Importer ==
    CASE Native(doc.kind) \in enabled -> Native(doc.kind)
      [] doc.kind # "other" /\ Native(doc.kind) \notin enabled /\ "text" \in enabled -> "text"
      [] OTHER -> "none"

NoChild == [is |-> "none", grouped |-> FALSE, wrote |-> 0]
NoOutput == [program |-> "none", out |-> 0, end |-> "none", cut |-> FALSE, stray |-> FALSE]

Init ==
    /\ doc \in [kind : Kinds, holds : Contents]
    /\ enabled \in {Importers} \cup {Importers \ {i} : i \in Importers}
    /\ installed \in SUBSET Programs
    /\ IF Importer \in {"pdf", "office"} THEN doc.holds = "plain" /\ enabled = Importers
       ELSE installed = {}
    /\ extract = [at |-> "idle", status |-> "none", text |-> 0, by |-> "none"]
    /\ capped = NoOutput
    /\ child = NoChild
    /\ orphan = "none"

-----------------------------------------------------------------------------
(* Extractor::extract *)

Given == UNCHANGED <<doc, enabled, installed>>

Return(status, text, by) ==
    extract' = [at |-> "done", status |-> status, text |-> text, by |-> by]

Found(text, by) == Return(IF text = 0 THEN "empty" ELSE "ok", text, by)

\* importer_for finds none.
NoImporter ==
    /\ extract.at = "idle" /\ Importer = "none"
    /\ Return("unsupported", 0, "none")
    /\ Given /\ UNCHANGED <<capped, child, orphan>>

\* Nothing is no text either.
LooksLikeText == doc.holds = "plain"

Read == IF doc.holds = "nothing" THEN 0 ELSE 1

\* Without its tags, which may be all of it.
WithoutHtml(text) == {0, text}
WithoutXml(text) == {0, text}

ReadText ==
    /\ extract.at = "idle" /\ Importer = "text"
    /\ IF LooksLikeText THEN Found(Read, "file") ELSE Return("unsupported", 0, "none")
    /\ Given /\ UNCHANGED <<capped, child, orphan>>

ReadHtml ==
    /\ extract.at = "idle" /\ Importer = "html"
    /\ \E text \in WithoutHtml(Read) : Found(text, "file")
    /\ Given /\ UNCHANGED <<capped, child, orphan>>

\* Pandoc, where it is; without it something lighter, for .odt alone.
Exists(program) == program \in installed
LastResort ==
    CASE doc.kind = "odt" /\ ~Exists("pandoc") /\ Exists("odt2txt") -> "odt2txt"
      [] Exists("pandoc") -> "pandoc"
      [] OTHER -> "none"

\* The archives whose members are known.
HasPlan == doc.kind \in {"docx", "odt"}

FirstProgram ==
    CASE doc.kind = "pdf" -> IF Exists("pdftotext") THEN "pdftotext" ELSE "none"
      [] HasPlan /\ Exists("unzip") -> "unzip"
      [] OTHER -> LastResort

\* There may be no program for it.
Try(program) ==
    IF program = "none" THEN Return("unsupported", 0, "none") /\ UNCHANGED capped
    ELSE /\ extract' = [extract EXCEPT !.at = "start"]
         /\ capped' = [NoOutput EXCEPT !.program = program]

Choose ==
    /\ extract.at = "idle" /\ Importer \in {"pdf", "office"}
    /\ Try(FirstProgram)
    /\ Given /\ UNCHANGED <<child, orphan>>

\* The exit code, unless it was killed because it had said enough.
Ok == capped.end \in {"capped", "exited well"}

\* Bytes are what counts for unzip, which reports a member it does not find.
UseOutput ==
    /\ extract.at = "ran" /\ Given /\ UNCHANGED <<child, orphan>>
    /\ CASE capped.end = "timeout" -> Return("timeout", 0, "none") /\ UNCHANGED capped
         [] capped.end # "timeout" /\ capped.program = "unzip" ->
                IF capped.out > 0
                THEN /\ \E text \in WithoutXml(capped.out) : Found(text, "unzip")
                     /\ UNCHANGED capped
                ELSE Try(LastResort)
         [] OTHER ->
                /\ IF Ok THEN Found(capped.out, "program") ELSE Return("error", 0, "none")
                /\ UNCHANGED capped

-----------------------------------------------------------------------------
(* run_capped *)

\* No pipe, no process.
CannotStart ==
    /\ extract.at = "start"
    /\ extract' = [extract EXCEPT !.at = "ran"]
    /\ capped' = [capped EXCEPT !.end = "not run"]
    /\ Given /\ UNCHANGED <<child, orphan>>

SpawnChild ==
    /\ extract.at = "start"
    /\ extract' = [extract EXCEPT !.at = "reading"]
    /\ child' = [NoChild EXCEPT !.is = "forked"] /\ orphan' = "none"
    /\ Given /\ UNCHANGED capped

Ended == {"exited well", "exited badly", "killed"}
Reading == extract.at = "reading" /\ Given

\* What is in the pipe is what was written and not yet read.
Unread == child.wrote - capped.out

\* A bug: only the child is killed.
KillChild ==
    /\ child' = [child EXCEPT !.is = IF @ \in Ended THEN @ ELSE "killed"]
    /\ UNCHANGED orphan

\* kill(-pid): nobody, if the child has not yet made the group.
KillGroup ==
    /\ child' = IF child.grouped /\ child.is \notin Ended THEN [child EXCEPT !.is = "killed"] ELSE child
    /\ orphan' = IF orphan = "grouped" /\ child.grouped THEN "killed" ELSE orphan

\* Enough of it is enough: what does not fit is dropped, and the child killed.
ReadSome ==
    LET out == IF child.wrote <= MaxText THEN child.wrote ELSE MaxText
    IN  /\ Reading /\ Unread > 0
        /\ IF out = MaxText
           THEN /\ capped' = [capped EXCEPT !.out = out, !.end = "capped",
                                            !.stray = ~child.grouped]
                /\ extract' = [extract EXCEPT !.at = "waiting"] /\ KillGroup
           ELSE /\ capped' = [capped EXCEPT !.out = out]
                /\ UNCHANGED <<extract, child, orphan>>

ChildWrites == child.is \in {"forked", "runs", "hangs"}

EndOfFile ==
    /\ Reading /\ Unread = 0 /\ ~ChildWrites /\ orphan # "grouped"
    /\ extract' = [extract EXCEPT !.at = "waiting"]
    /\ UNCHANGED <<capped, child, orphan>>

\* A signal to the indexer's thread ends the loop as the end of the file does.
Interrupted ==
    /\ Reading
    /\ extract' = [extract EXCEPT !.at = "waiting"]
    /\ capped' = [capped EXCEPT !.cut = TRUE]
    /\ UNCHANGED <<child, orphan>>

TimesOut ==
    /\ Reading
    /\ extract' = [extract EXCEPT !.at = "waiting"]
    /\ capped' = [capped EXCEPT !.end = "timeout", !.stray = ~child.grouped]
    /\ KillGroup

\* waitpid, which has no deadline.
Reaped ==
    /\ extract.at = "waiting" /\ child.is \in Ended /\ Given
    /\ extract' = [extract EXCEPT !.at = "ran"]
    /\ capped' = [capped EXCEPT !.end = IF @ = "none" THEN child.is ELSE @]
    /\ child' = [child EXCEPT !.is = "reaped"]
    /\ UNCHANGED orphan

-----------------------------------------------------------------------------
(* The child *)

Kid == Given /\ UNCHANGED <<extract, capped>>

\* setpgid; the exec may fail.
ChildStarts ==
    /\ child.is = "forked" /\ Kid
    /\ \E is \in {"runs", "exited badly"} :
          child' = [child EXCEPT !.is = is, !.grouped = TRUE]
    /\ UNCHANGED orphan

\* A document has an end, a little past the cap here.
ChildSays ==
    /\ child.is = "runs" /\ Kid /\ child.wrote <= MaxText
    /\ child' = [child EXCEPT !.wrote = @ + 1]
    /\ UNCHANGED orphan

ChildForks ==
    /\ child.is = "runs" /\ Kid /\ orphan = "none"
    /\ orphan' = "grouped" /\ UNCHANGED child

OrphanEnds == orphan = "grouped" /\ Kid /\ orphan' = "over" /\ UNCHANGED child

\* It has said what it had to say, but goes on.
ChildCloses ==
    /\ child.is = "runs" /\ Kid
    /\ child' = [child EXCEPT !.is = "closed"]
    /\ UNCHANGED orphan

ChildEnds ==
    /\ child.is \in {"runs", "closed"} /\ Kid
    /\ \E is \in Ended : child' = [child EXCEPT !.is = is]
    /\ UNCHANGED orphan

\* From before the exec, at any time: a stopped process, a dead mount.
ChildHangs ==
    /\ child.is \in {"forked", "runs", "closed"} /\ Kid
    /\ child' = [child EXCEPT !.is = IF @ = "closed" THEN "stuck" ELSE "hangs"]
    /\ UNCHANGED orphan

Extracts ==
    \/ NoImporter \/ ReadText \/ ReadHtml \/ Choose \/ UseOutput \/ SpawnChild
    \/ ReadSome \/ EndOfFile \/ TimesOut \/ Reaped

ChildGoesOn == ChildStarts \/ ChildEnds

Next ==
    \/ Extracts \/ ChildGoesOn \/ CannotStart \/ Interrupted
    \/ ChildSays \/ ChildForks \/ OrphanEnds \/ ChildCloses \/ ChildHangs

\* The deadline comes, and a child that does not hang goes on to its end.
Spec == Init /\ [][Next]_vars /\ WF_vars(Extracts) /\ WF_vars(ChildGoesOn)

-----------------------------------------------------------------------------
(* What must hold *)

\* A text that is indexed is all that its program wrote, or as much as is allowed, and the
\* program ended well; unless unzip wrote it, or a signal stopped the reading.
ExtractedWhole ==
    extract.at = "done" /\ extract.status = "ok" /\ extract.by = "program" /\ ~capped.cut =>
        \/ extract.text = MaxText
        \/ capped.end = "exited well" /\ extract.text = child.wrote

\* When a parser was killed, so was everything it had started.
NothingLeft ==
    extract.at = "ran" /\ capped.end \in {"timeout", "capped"} /\ ~capped.stray
        => orphan # "grouped"

\* The extraction of any file comes to an end, but for a child that hangs when there is no
\* deadline for it: after its output has ended, or a signal, or before it has its group.
ExtractReturns ==
    (extract.at = "reading") ~>
        \/ extract.at \in {"ran", "done"}
        \/ child.is = "stuck"
        \/ child.is = "hangs" /\ (capped.cut \/ capped.stray)
=================================================================================
