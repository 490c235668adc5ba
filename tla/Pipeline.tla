------------------------------ MODULE Pipeline ------------------------------
(***************************************************************************)
(* One uploaded file on its way through the mutators, back to the disk and *)
(* through the validators (pkg/server/manager.go, pkg/gitops/mutators,     *)
(* pkg/gitops/validators).                                                 *)
(*                                                                         *)
(* A mutator reads from a reader and writes to a buffer.  The reader of    *)
(* the next one is that buffer, or, when nothing was written, what was     *)
(* read followed by the rest of the input.  The first input is the open    *)
(* file, and the last reader is copied back to that file.  A reader is     *)
(* therefore a text in memory (buf) and, while "live", the rest of the     *)
(* file from the handle's offset.                                          *)
(*                                                                         *)
(* A text is a sequence of documents, by what the processors see in them,  *)
(* and perhaps a final new line (eol).                                     *)
(***************************************************************************)
EXTENDS Naturals, Sequences, SequencesExt

CONSTANTS
    MaxDocuments,    \* bound: documents of the uploaded file
    MaxMutators,     \* bound: mutators of the flow
    MaxValidators    \* bound: validators of the flow

ASSUME PipelineAssumption ==
    /\ MaxDocuments \in Nat
    /\ MaxMutators \in Nat
    /\ MaxValidators \in Nat

VARIABLES
    original,     \* the uploaded text
    mutators,     \* the flow's mutators
    validators,   \* the flow's validators
    file,         \* the text on disk
    offset,       \* of the open handle
    buf, live,    \* the reader in hand
    at,           \* the processor that comes next
    errs,         \* a processor returned an error
    invalid,      \* a validator found the file invalid
    cut,          \* the walks that ended before this file was done
    place         \* where the manager is, or its verdict

flowVars   == <<original, mutators, validators>>
readerVars == <<buf, live>>
vars == <<flowVars, file, offset, readerVars, at, errs, invalid, cut, place>>

(***************************************************************************)
(* Texts.                                                                  *)
(***************************************************************************)
\* Documents without annotations: a plain one, a template, one that is a section with
\* a false condition, and a malformed one.
Bare      == {"bare", "tag", "void", "badtag"}
Annotated == {"hook", "sync"}            \* a known Helm hook; none
Documents == Bare \cup Annotated \cup {"list", "broken"}
Tokens    == Documents \cup {"eol"}

Uploads ==
    {t \o e : t \in SeqOf(Documents, MaxDocuments), e \in {<<>>, <<"eol">>}}

HasNewLine(text) == text # <<>> /\ Last(text) = "eol"

\* What the YAML decoder finds first.
First(text) == IF text \in {<<>>, <<"eol">>} THEN "none" ELSE Head(text)

(***************************************************************************)
(* What the mutators write, <<>> for nothing.                              *)
(***************************************************************************)
\* Only the first document is decoded, converted and encoded again.
HelmWrites(text) ==
    IF First(text) \in Annotated THEN <<"sync", "eol">> ELSE <<>>

\* A section that is false takes its lines along, the new line at its end included.
RendersToNothing(text) ==
    Contains(text, "void") /\ \A i \in DOMAIN text : text[i] \in {"void", "eol"}

\* Render's error is overwritten by that of the write: nothing is written.  Nor is
\* anything when all of the text renders to nothing.
MustacheWrites(text) ==
    IF Contains(text, "badtag") \/ RendersToNothing(text) THEN <<>>
    ELSE [i \in DOMAIN text |-> IF text[i] \in {"tag", "void"} THEN "bare" ELSE text[i]]

NewLineWrites(text) ==
    IF text = <<>> \/ HasNewLine(text) THEN <<>> ELSE Append(text, "eol")

Writes(mutator, text) ==
    CASE mutator = "helm"     -> HelmWrites(text)
      [] mutator = "mustache" -> MustacheWrites(text)
      [] mutator = "newline"  -> NewLineWrites(text)
      [] mutator \in {"silent", "failing"} -> <<>>

\* What the processors' documentation promises of a chain of mutators: what each
\* writes replaces its input, and if it writes nothing or fails its input stays.
Mutated(text, mutator) ==
    IF Writes(mutator, text) = <<>> THEN text ELSE Writes(mutator, text)

\* The text that each of a chain of mutators leaves, and at 0 the one that it is given.
Mutations(text, chain) ==
    LET after[n \in 0 .. Len(chain)] ==
          IF n = 0 THEN text ELSE Mutated(after[n - 1], chain[n])
    IN  after

Promised(n) == Mutations(original, mutators)[n]

(***************************************************************************)
(* The mutators of a flow: the server's own; "silent", one of the          *)
(* operator's that writes nothing to this file; and "failing", any that    *)
(* returns an error for it, when the read of the file fails, when the      *)
(* GetData of a Mustache does or for a reason of its own.                  *)
(***************************************************************************)
Mutators == {"helm", "mustache", "newline", "silent", "failing"}

\* Those that may leave a part of what they are handed unread.
PartReaders == {"helm", "silent", "failing"}

(***************************************************************************)
(* The manager opens the file, with O_RDWR, unless the context has ended.  *)
(***************************************************************************)
Places == {"open", "mutate", "written", "validate"}
Verdicts == {"passed", "failed", "rejected", "panicked"}

TypeOK ==
    /\ file \in Seq(Tokens)
    /\ offset \in 0 .. Len(file)
    /\ buf \in Seq(Tokens)
    /\ at \in 1 .. Max({Len(mutators), Len(validators)}) + 1
    /\ {live, errs, invalid} \subseteq BOOLEAN
    /\ cut \subseteq {"mutate", "validate"}
    /\ place \in Places \cup Verdicts

Init ==
    /\ original \in Uploads
    /\ mutators \in SeqOf(Mutators, MaxMutators)
    /\ validators \in SeqOf({"empty", "delay", "custom"}, MaxValidators)
    /\ file = original /\ offset = 0
    /\ buf = <<>> /\ live = FALSE /\ at = 1
    /\ errs = FALSE /\ invalid = FALSE /\ cut = {}
    /\ place = "open"

Open ==
    /\ place = "open" /\ mutators # <<>>
    /\ \/ place' = "mutate" /\ live' = TRUE /\ UNCHANGED cut
       \/ place' = "written" /\ cut' = {"mutate"} /\ UNCHANGED live
    /\ UNCHANGED <<flowVars, file, offset, buf, at, errs, invalid>>

NoMutators ==
    /\ place = "open" /\ mutators = <<>>
    /\ place' = "written"
    /\ UNCHANGED <<flowVars, file, offset, readerVars, at, errs, invalid, cut>>

(***************************************************************************)
(* The mutators.                                                           *)
(***************************************************************************)
\* All that the reader in hand would yield.
Input == buf \o (IF live THEN SubSeq(file, offset + 1, Len(file)) ELSE <<>>)

\* Of n documents read, those that the file had to supply.
FromFile(n) == IF n > Len(buf) THEN n - Len(buf) ELSE 0

\* A variant with a fault: the rest of the input is handed on alone.
HandOnRest(n) ==
    /\ buf' = SubSeq(buf, n + 1, Len(buf))
    /\ offset' = offset + FromFile(n)
    /\ UNCHANGED live

\* io.MultiReader(readBytes, input), after n documents were read.
HandOn(n) ==
    /\ buf' = buf \o SubSeq(file, offset + 1, offset + FromFile(n))
    /\ offset' = offset + FromFile(n)
    /\ UNCHANGED live

\* A variant with a fault: the output is not handed on.
ReplaceNothing(text) == HandOn(Len(Input))

\* bytes.NewReader(output.Bytes()); the handle is not read any more.
Replace(text) == buf' = text /\ live' = FALSE /\ UNCHANGED offset

Mutating(mutator) ==
    place = "mutate" /\ at <= Len(mutators) /\ mutators[at] = mutator

\* A variant with a fault: every second mutator is skipped.
AdvanceByTwo == at' = at + 2 /\ UNCHANGED <<flowVars, file, invalid, cut, place>>

Advance == at' = at + 1 /\ UNCHANGED <<flowVars, file, invalid, cut, place>>

\* The YAML decoder reads the first document and as much more as its buffer takes.
Decoded == IF First(Input) = "none" THEN {Len(Input)} ELSE 1 .. Len(Input)

HelmPasses ==
    /\ Mutating("helm")
    /\ First(Input) \in Bare \cup {"none", "broken"}
    /\ \E n \in Decoded : HandOn(n)
    /\ errs' = (errs \/ First(Input) = "broken")
    /\ Advance

HelmConverts ==
    /\ Mutating("helm")
    /\ HelmWrites(Input) # <<>>
    /\ Replace(HelmWrites(Input))
    /\ Advance /\ UNCHANGED errs

\* util.Get looks for pairs in the elements of a list, which may be odd in number.
HelmPanics ==
    /\ Mutating("helm")
    /\ First(Input) = "list"
    /\ place' = "panicked"
    /\ UNCHANGED <<flowVars, file, offset, readerVars, at, errs, invalid, cut>>

\* Mustache and NewLineEOF read their input to its end.
WritesOrPasses(output) ==
    /\ IF output = <<>> THEN HandOn(Len(Input)) ELSE Replace(output)
    /\ Advance /\ UNCHANGED errs

Mustache == Mutating("mustache") /\ WritesOrPasses(MustacheWrites(Input))

NewLineEOF == Mutating("newline") /\ WritesOrPasses(NewLineWrites(Input))

\* Nothing is written, however much was read.
StaysSilent ==
    /\ Mutating("silent")
    /\ \E n \in 0 .. Len(Input) : HandOn(n)
    /\ Advance /\ UNCHANGED errs

\* What a mutator wrote before it returned an error is not used.
MutatorFails ==
    /\ Mutating("failing")
    /\ \E n \in 0 .. Len(Input) : HandOn(n)
    /\ errs' = TRUE
    /\ Advance

(***************************************************************************)
(* The file is truncated, and the last reader copied to it: what that      *)
(* reader had left in the file is gone.  A failure ends the walk.          *)
(***************************************************************************)
Written == place' = "written" /\ live' = FALSE /\ buf' = <<>> /\ offset' = 0

\* A variant with a fault: the file is not truncated.
WriteBackOver ==
    /\ place = "mutate" /\ at > Len(mutators)
    /\ file' = buf \o SubSeq(file, Len(buf) + 1, Len(file))
    /\ Written
    /\ UNCHANGED <<flowVars, at, errs, invalid, cut>>

WriteBack ==
    /\ place = "mutate" /\ at > Len(mutators)
    /\ file' = buf
    /\ Written
    /\ UNCHANGED <<flowVars, at, errs, invalid, cut>>

WriteBackFails ==
    /\ place = "mutate" /\ at > Len(mutators)
    /\ \/ file' = file
       \/ \E n \in 0 .. Len(buf) : file' = SubSeq(buf, 1, n)
    /\ cut' = {"mutate"}
    /\ Written
    /\ UNCHANGED <<flowVars, at, errs, invalid>>

(***************************************************************************)
(* The validators, which share one handle.                                 *)
(***************************************************************************)
MutatorsFailed ==
    /\ place = "written" /\ errs
    /\ place' = "failed"
    /\ UNCHANGED <<flowVars, file, offset, readerVars, at, errs, invalid, cut>>

\* A variant with a fault: the handle of the mutators is used again.
ReopenAtEnd ==
    /\ place = "written" /\ ~errs
    /\ place' = "validate" /\ offset' = Len(file) /\ at' = 1
    /\ UNCHANGED <<flowVars, file, readerVars, errs, invalid, cut>>

Reopen ==
    /\ place = "written" /\ ~errs
    /\ place' = "validate" /\ offset' = 0 /\ at' = 1
    /\ UNCHANGED <<flowVars, file, readerVars, errs, invalid, cut>>

ReopenFails ==
    /\ place = "written" /\ ~errs /\ validators # <<>>
    /\ place' = "passed" /\ cut' = cut \cup {"validate"}
    /\ UNCHANGED <<flowVars, file, offset, readerVars, at, errs, invalid>>

Validating(validator) ==
    /\ place = "validate" /\ at <= Len(validators) /\ validators[at] = validator
    /\ at' = at + 1
    /\ UNCHANGED <<flowVars, file, readerVars, cut>>

\* A variant with a fault: the end of the file is no reason to refuse it.
EmptyFileForgives ==
    /\ Validating("empty")
    /\ UNCHANGED <<offset, errs, invalid, place>>

\* One byte is read, which is all of a new line and need not be all of a document.
EmptyFile ==
    /\ Validating("empty")
    /\ IF offset = Len(file)
       THEN invalid' = TRUE /\ UNCHANGED offset
       ELSE /\ offset' \in {offset + 1} \cup (IF file[offset + 1] = "eol" THEN {} ELSE {offset})
            /\ UNCHANGED invalid
    /\ UNCHANGED <<errs, place>>

EmptyFileFails ==
    /\ Validating("empty")
    /\ invalid' = TRUE /\ errs' = TRUE
    /\ UNCHANGED <<offset, place>>

Delay == Validating("delay") /\ UNCHANGED <<offset, errs, invalid, place>>

\* A validator that is not the server's own reads any part of the file, and may
\* return an error along with its result.
Custom ==
    /\ Validating("custom")
    /\ offset' \in offset .. Len(file)
    /\ invalid' \in {invalid, TRUE}
    /\ errs' \in {errs, TRUE}
    /\ UNCHANGED place

\* Or it returns no result; the manager reads the result first.
CustomFails ==
    /\ Validating("custom")
    /\ place' = "panicked"
    /\ UNCHANGED <<offset, errs, invalid>>

Judge ==
    /\ place = "validate" /\ at > Len(validators)
    /\ place' = IF errs THEN "failed" ELSE IF invalid THEN "rejected" ELSE "passed"
    /\ UNCHANGED <<flowVars, file, offset, readerVars, at, errs, invalid, cut>>

Judged == place \in Verdicts /\ UNCHANGED vars

Next ==
    \/ Open \/ NoMutators
    \/ HelmPasses \/ HelmConverts \/ HelmPanics
    \/ Mustache \/ NewLineEOF \/ StaysSilent \/ MutatorFails
    \/ WriteBack \/ WriteBackFails
    \/ MutatorsFailed \/ Reopen \/ ReopenFails
    \/ EmptyFile \/ EmptyFileFails \/ Delay \/ Custom \/ CustomFails
    \/ Judge \/ Judged

Spec == Init /\ [][Next]_vars

(***************************************************************************)
(* Properties.                                                             *)
(***************************************************************************)
\* Whatever the mutators before it read, wrote or refused, a mutator's reader
\* yields what docs/processors.md says: the output of the last one that wrote.
NextReceivesWhole ==
    place = "mutate" => Input = Promised(at - 1)

\* A file that passes is what the mutators made of it, if its walk was not cut
\* short.  A chain in which no mutator is bound to read its input to the end is the
\* exception: nothing may be written and the end of the file stay unread, to be
\* truncated.
PassedIsMutated ==
    (place = "passed" /\ "mutate" \notin cut /\ mutators \notin Seq(PartReaders))
        => file = Promised(Len(mutators))

\* Whatever fails, the disk has the upload or the beginning of its mutated text.
DiskIsExplained == file = original \/ IsPrefix(file, Promised(Len(mutators)))

\* With EmptyFile in the flow no empty file gets to the repository, be it uploaded
\* empty, emptied by a failed write, or at the end of a handle read before.  The
\* exception is a validation cut short, which passes what it did not look at.
EmptyIsCaught ==
    (place = "passed" /\ Contains(validators, "empty") /\ "validate" \notin cut)
        => file # <<>>

\* No other validator of the flow reads from the handle that EmptyFile reads from.
EmptyReadsAlone(i) ==
    \A j \in DOMAIN validators : validators[j] = IF j = i THEN "empty" ELSE "delay"

\* EmptyFile refuses nothing but an empty file, if it is the one that reads: a file
\* that another validator has read, be it the one byte of another EmptyFile, may be
\* refused as empty.  (A validation cut short refuses nothing.)
RejectedForCause ==
    (place = "rejected" /\ \E i \in DOMAIN validators : EmptyReadsAlone(i))
        => file = <<>>

Template(text) == Contains(text, "tag") \/ Contains(text, "void")

\* A template that gets through Mustache unrendered was uploaded with a malformed
\* one, the error that Mustache does not report, or in a file that renders to nothing,
\* which the manager takes for a mutator with nothing to say.
UnrenderedForCause ==
    (place = "passed" /\ "mutate" \notin cut /\ Contains(mutators, "mustache")
       /\ Template(file)) => Contains(original, "badtag") \/ RendersToNothing(original)
=============================================================================
