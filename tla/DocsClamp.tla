------------------------------ MODULE DocsClamp ------------------------------
(***************************************************************************)
(* Clamping a folder of docs (docs/clamp.ts; POST /api/docs/clamp and      *)
(* `jigbench clamp --docs`): the folder is walked, every file read and cut *)
(* into chunks, and .jig/survey/docs.json replaced.  A folder has several  *)
(* spellings: the caller's, which the index records, and the real one,     *)
(* which is walked.  A path is a sequence of names, and the name of a file *)
(* is its extension.                                                       *)
(*                                                                         *)
(* The second half is how a text is cut (core/src/docs.ts, core/src/rank.ts and    *)
(* docs/context.ts): into chunks that say from which lines and under which *)
(* headings they come; the chunks that fit a budget of words are handed to *)
(* a prompt, the best first.  A line is what the cutter can tell about it: *)
(* blank, a fence, a heading of some level, or one or two words.  The      *)
(* title of a heading is its line.                                         *)
(***************************************************************************)
EXTENDS Naturals, SequencesExt, FiniteSetsExt

CONSTANTS DcCalls,    \* clamps, one use each: those of the bench ...
          DcCliCalls, \* ... and those of the command line
          DcFiles,    \* real paths where a file may be
          DcLinks,    \* those of them that are links
          DcFolders,  \* folders a caller may name
          NoIndex     \* no docs.json
PathNames == {"repo", "link"} \cup (UNION {ToSet(p) : p \in DcFiles \cup DcFolders})

\* The path of a file is a real one, and no file is in a file.
ASSUME DcPaths ==
  /\ DcCliCalls \subseteq DcCalls /\ DcLinks \subseteq DcFiles
  /\ DcFiles \cup DcFolders \subseteq Seq(PathNames) \ {<<>>}
  /\ \A f \in DcFiles : f[1] # "link" /\ \A g \in DcFiles : ~ IsStrictPrefix(f, g)

VARIABLES dcRepo,   \* how the bench spells its repo
          dcDisk,   \* what is at each path: nothing, a text, a scanned image
          dcIndex,  \* docs.json; `by` remembers the spelling of the repo it was made with
          dcWired,  \* JigStore.docsWired
          dcCall    \* the clamps
docsClampVars == <<dcRepo, dcDisk, dcIndex, dcWired, dcCall>>

RealRepo == <<"repo">>
LinkedRepo == <<"link">>
RepoSpellings == {RealRepo, LinkedRepo}

\* realpath: the system reads a path through the link.
RealPath(p) == IF IsPrefix(LinkedRepo, p) THEN RealRepo \o SubSeq(p, 2, Len(p)) ELSE p

\* relative(from, to), where `to` is inside `from` by its spelling.
Rebased(p, from, onto) == onto \o SubSeq(p, Len(from) + 1, Len(p))

SKIP_DIRS == {"node_modules", ".git", ".hidden"}

kindForExtension(p) ==
  IF Last(p) = ".md" THEN "md" ELSE IF Last(p) = ".txt" THEN "txt" ELSE IF Last(p) = ".pdf" THEN "pdf" ELSE "ignored"

HeldBy(p) == {"gone", "text"} \cup (IF kindForExtension(p) = "pdf" THEN {"image"} ELSE {})

NoClamp == [at |-> "unused", repo |-> RealRepo, folder |-> <<>>, reported |-> <<>>,
            listed |-> {}, todo |-> {}, files |-> {}, chunks |-> {}]

DocsClampInit ==
  /\ dcRepo \in RepoSpellings
  /\ dcDisk = [f \in DcFiles |-> IF kindForExtension(f) = "pdf" THEN "image" ELSE "text"]
  /\ dcIndex = NoIndex /\ dcWired = FALSE
  /\ dcCall = [c \in DcCalls |-> NoClamp]

----------------------------------------------------------------------------
(* clampDocs *)

\* The directories between a folder and a file in it.
Between(folder, p) == {p[i] : i \in Len(folder) + 1 .. Len(p) - 1}

\* readdir() says of a link that it is neither a file nor a directory.
walk(folder) ==
  {Rebased(f, RealPath(folder), folder) :
     f \in {g \in DcFiles \ DcLinks : /\ dcDisk[g] # "gone"
                                      /\ IsPrefix(RealPath(folder), g)
                                      /\ Between(RealPath(folder), g) \cap SKIP_DIRS = {}}}

\* Inside the repo by its spelling, a file is recorded relative to it.
computeFileRef(repo, p) ==
  IF IsStrictPrefix(repo, p) THEN [inside |-> TRUE, path |-> Rebased(p, repo, <<>>)]
                             ELSE [inside |-> FALSE, path |-> p]

\* Mutant: the reference is made from the path that was walked.
RefOfWalked(call, p) == computeFileRef(call.repo, p)

fileRef(call, p) == computeFileRef(call.repo, Rebased(p, call.folder, call.reported))

\* A PDF without text still has a chunk, which says so.
ChunkOf(ref, text) == [file |-> ref, says |-> IF text = "image" THEN "no-extractable-text" ELSE "text"]

\* The guard has cleared the real path; the bench walks that one and records the caller's.
PostDocsClamp(c, folder) ==
  /\ c \in DcCalls \ DcCliCalls /\ dcCall[c].at = "unused"
  /\ dcCall' = [dcCall EXCEPT ![c] = [NoClamp EXCEPT !.at = "stat", !.repo = dcRepo,
                                        !.folder = RealPath(folder), !.reported = folder]]
  /\ UNCHANGED <<dcRepo, dcDisk, dcIndex, dcWired>>

runClampCommand(c, repo, folder) ==
  /\ c \in DcCliCalls /\ dcCall[c].at = "unused"
  /\ dcCall' = [dcCall EXCEPT ![c] = [NoClamp EXCEPT !.at = "stat", !.repo = repo,
                                        !.folder = folder, !.reported = folder]]
  /\ UNCHANGED <<dcRepo, dcDisk, dcIndex, dcWired>>

\* A folder that is not there is an error; one with nothing to read is not.
Walked(c) ==
  /\ dcCall[c].at = "stat"
  /\ LET there  == \E f \in DcFiles : IsStrictPrefix(RealPath(dcCall[c].folder), f)
         listed == {p \in walk(dcCall[c].folder) : kindForExtension(p) # "ignored"}
     IN dcCall' = [dcCall EXCEPT ![c].at = IF there THEN "reading" ELSE "failed",
                                 ![c].listed = IF there THEN listed ELSE {},
                                 ![c].todo = IF there THEN listed ELSE {}]
  /\ UNCHANGED <<dcRepo, dcDisk, dcIndex, dcWired>>

\* Mutant: a file that cannot be read is left out of the index.
LeftOut(call, p) == [call EXCEPT !.todo = @ \ {p}]

\* A file that is gone by now fails the whole clamp.
ReadFailed(call, p) == [call EXCEPT !.at = "failed"]

ReadFileStep(c) ==
  /\ dcCall[c].at = "reading" /\ dcCall[c].todo # {}
  /\ LET call == dcCall[c]
         p    == CHOOSE q \in call.todo : TRUE
         text == dcDisk[RealPath(p)]
         ref  == fileRef(call, p)
         kind == kindForExtension(p)
     IN dcCall' = [dcCall EXCEPT ![c] =
          IF text = "gone" THEN ReadFailed(call, p)
          ELSE [call EXCEPT !.todo = @ \ {p},
                            !.files = @ \cup {[file |-> ref, kind |-> kind]},
                            !.chunks = @ \cup {ChunkOf(ref, text)}]]
  /\ UNCHANGED <<dcRepo, dcDisk, dcIndex, dcWired>>

WriteIndex(c) ==
  /\ dcCall[c].at = "reading" /\ dcCall[c].todo = {}
  /\ dcIndex' = [root |-> dcCall[c].reported, files |-> dcCall[c].files,
                 chunks |-> dcCall[c].chunks, by |-> dcCall[c].repo]
  /\ dcCall' = [dcCall EXCEPT ![c].at = IF c \in DcCliCalls THEN "done" ELSE "reload"]
  /\ UNCHANGED <<dcRepo, dcDisk, dcWired>>

\* The bench's store looks again whether there is an index.
ReloadStore(c) ==
  /\ dcCall[c].at = "reload"
  /\ dcCall' = [dcCall EXCEPT ![c].at = "done"]
  /\ dcWired' = (dcIndex # NoIndex)
  /\ UNCHANGED <<dcRepo, dcDisk, dcIndex>>

\* External: a person deletes a file, or puts one there.
DiskChanges(f, text) ==
  /\ f \notin DcLinks /\ kindForExtension(f) # "ignored"
  /\ dcDisk[f] # text /\ "gone" \in {dcDisk[f], text}
  /\ dcDisk' = [dcDisk EXCEPT ![f] = text]
  /\ UNCHANGED <<dcRepo, dcIndex, dcWired, dcCall>>

DocsClampNext ==
  \/ \E c \in DcCalls : \/ \E folder \in DcFolders : \/ PostDocsClamp(c, folder)
                                                     \/ \E repo \in RepoSpellings : runClampCommand(c, repo, folder)
                        \/ Walked(c) \/ ReadFileStep(c) \/ WriteIndex(c) \/ ReloadStore(c)
  \/ \E f \in DcFiles : \E text \in HeldBy(f) : DiskChanges(f, text)

----------------------------------------------------------------------------

DocRefs == [inside : BOOLEAN, path : {SubSeq(s \o SubSeq(f, 2, Len(f)), n, Len(f)) :
                                     s \in RepoSpellings \cup {SubSeq(g, 1, 1) : g \in DcFiles}, f \in DcFiles, n \in {1, 2}}]
FileEntries == [file : DocRefs, kind : {"md", "txt", "pdf"}]

DocsClampTypeOK ==
  /\ dcRepo \in RepoSpellings
  /\ \A f \in DcFiles : dcDisk[f] \in HeldBy(f)
  /\ dcWired \in BOOLEAN
  /\ \A c \in DcCalls : /\ dcCall[c].at \in {"unused", "stat", "reading", "reload", "done", "failed"}
                        /\ dcCall[c].todo \subseteq dcCall[c].listed
                        /\ dcCall[c].files \subseteq FileEntries
  /\ dcIndex # NoIndex => /\ dcIndex.files \subseteq FileEntries
                          /\ {k.file : k \in dcIndex.chunks} = {e.file : e \in dcIndex.files}

\* Where a reader of the index finds a file.
ReadBack(ref) == RealPath(IF ref.inside THEN dcIndex.by \o ref.path ELSE ref.path)

\* Whatever link a caller came by, a reference in docs.json leads back to the file that was
\* read, of the kind it says, in the folder that was asked for and in none of the directories
\* the walk leaves out; and where the caller spelled the folder inside the repo the reference
\* is relative to the repo.  docs/clamp.ts keeps the two spellings apart for this.
RefsReadBack ==
  dcIndex # NoIndex =>
    \A e \in dcIndex.files :
      /\ ReadBack(e.file) \in DcFiles /\ kindForExtension(ReadBack(e.file)) = e.kind
      /\ IsPrefix(RealPath(dcIndex.root), ReadBack(e.file))
      /\ Between(RealPath(dcIndex.root), ReadBack(e.file)) \cap SKIP_DIRS = {}
      /\ IsPrefix(dcIndex.by, dcIndex.root) => e.file.inside

\* A clamp replaces docs.json by all it found when it walked the folder, or not at all: a file
\* deleted meanwhile, or another clamp that overlaps, leaves no index of part of a folder.
WholeOrNothing ==
  dcIndex' # dcIndex =>
    \E c \in DcCalls : {e.file : e \in dcIndex'.files} = {fileRef(dcCall[c], p) : p \in dcCall[c].listed}
                       /\ dcIndex'.root = dcCall[c].reported

----------------------------------------------------------------------------
(* Cutting a text *)

CONSTANTS MaxLines,       \* lines of a file
          WordsPerChunk,  \* wordsPerChunk of chunkPlain
          MaxBudget       \* words a prompt may spend on docs
ASSUME DocBounds == MaxLines \in Nat /\ WordsPerChunk \in Nat /\ MaxBudget \in Nat

VARIABLES dkKind,     \* "md" or "txt" (the text of a PDF is cut like one)
          dkText,     \* the lines read so far
          dkStack,    \* headingStack
          dkFence,    \* inFence
          dkOpen,     \* the open section: its headings and its first line
          dkChunks,   \* the chunks made
          dkEnded,
          dkTaken     \* what contextForPrompt made of them
docVars == <<dkKind, dkText, dkStack, dkFence, dkOpen, dkChunks, dkEnded, dkTaken>>

Levels == 1 .. 3
Heading(n) == <<"h1", "h2", "h3">>[n]
Headings == {Heading(n) : n \in Levels}
LevelOf(line) == CHOOSE n \in Levels : Heading(n) = line
PlainLines == {"blank", "one", "two"}
Words(line) == CASE line = "blank" -> 0 [] line = "two" -> 2 [] OTHER -> 1

Chunk == [path : Seq(1 .. MaxLines), start : 1 .. MaxLines, end : 1 .. MaxLines, words : Nat]
NoTake == [taken |-> <<>>, left |-> {}, budget |-> 0, asked |-> FALSE]

DocTypeOK ==
  /\ dkKind \in {"md", "txt"}
  /\ dkText \in Seq(PlainLines \cup {"fence"} \cup Headings) /\ Len(dkText) <= MaxLines
  /\ dkStack \in Seq(1 .. MaxLines) /\ Len(dkStack) <= Max(Levels)
  /\ dkFence \in BOOLEAN /\ dkEnded \in BOOLEAN
  /\ dkOpen \in [path : Seq(1 .. MaxLines), start : 1 .. MaxLines + 1]
  /\ dkChunks \in Seq(Chunk)
  /\ dkTaken \in [taken : Seq(Chunk), left : SUBSET Chunk, budget : 0 .. MaxBudget,
                  asked : BOOLEAN]

DocInit ==
  /\ dkKind \in {"md", "txt"}
  /\ dkText = <<>> /\ dkStack = <<>> /\ dkFence = FALSE
  /\ dkOpen = [path |-> <<>>, start |-> 1]
  /\ dkChunks = <<>> /\ dkEnded = FALSE /\ dkTaken = NoTake

----------------------------------------------------------------------------
(* chunkMarkdown *)

Written(text, from, to) == {i \in from .. to : text[i] # "blank"}

WordsIn(text, from, to) == MapThenSumSet(LAMBDA i : Words(text[i]), from .. to)

\* sectionToChunk: from its first line with something on it to its last; none without.
sectionToChunk(open, text, last) ==
  LET written == Written(text, open.start, last) IN
  IF written = {} THEN <<>>
  ELSE <<[path |-> open.path, start |-> Min(written), end |-> Max(written),
          words |-> WordsIn(text, Min(written), Max(written))]>>

\* A fence toggles whichever delimiter opened it; inside, nothing is a heading.
ReadBody(line) ==
  /\ dkKind = "md" /\ (line \in Headings => dkFence)
  /\ dkFence' = IF line = "fence" THEN ~dkFence ELSE dkFence
  /\ dkText' = Append(dkText, line)
  /\ UNCHANGED <<dkKind, dkStack, dkOpen, dkChunks, dkEnded, dkTaken>>

\* Mutant: the section is taken to start at its heading.
OpenAtHeading(stack, lineNo) == [path |-> stack, start |-> lineNo]

OpenSection(stack, lineNo) == [path |-> stack, start |-> lineNo + 1]

\* Mutant: only the heading of the same level is popped.
PopOne(stack, level) == IF Len(stack) >= level THEN Front(stack) ELSE stack

PopTo(stack, level) == SubSeq(stack, 1, Min({Len(stack), level - 1}))

ReadHeading(level) ==
  /\ dkKind = "md" /\ ~dkFence
  /\ LET lineNo == Len(dkText) + 1
         text   == Append(dkText, Heading(level))
         stack  == Append(PopTo(dkStack, level), lineNo)
     IN /\ dkText' = text
        /\ dkChunks' = dkChunks \o sectionToChunk(dkOpen, dkText, lineNo - 1)
        /\ dkStack' = stack
        /\ dkOpen' = OpenSection(stack, lineNo)
  /\ UNCHANGED <<dkKind, dkFence, dkEnded, dkTaken>>

----------------------------------------------------------------------------
(* chunkPlain *)

Paragraphs(text) ==
  LET lines == DOMAIN text
      para  == {p \in lines \X lines :
                  /\ p[1] <= p[2] /\ \A k \in p[1] .. p[2] : text[k] # "blank"
                  /\ p[1] - 1 \in lines => text[p[1] - 1] = "blank"
                  /\ p[2] + 1 \in lines => text[p[2] + 1] = "blank"}
  IN SetToSortSeq(para, LAMBDA p, q : p[1] < q[1])

\* Mutant: a group is closed as soon as it is full.
FullAtLimit(group, words) == group.words + words >= WordsPerChunk

Overfull(group, words) == group.words + words > WordsPerChunk

\* The groups after each paragraph: it joins the last one, or that one is flushed.
chunkPlain(text) ==
  LET paras == Paragraphs(text)
      groups[n \in 0 .. Len(paras)] ==
        IF n = 0 THEN <<>>
        ELSE LET done  == groups[n - 1]
                 p     == paras[n]
                 words == WordsIn(text, p[1], p[2])
             IN IF done = <<>> \/ Overfull(Last(done), words)
                THEN Append(done, [path |-> <<>>, start |-> p[1], end |-> p[2], words |-> words])
                ELSE Append(Front(done), [Last(done) EXCEPT !.end = p[2], !.words = @ + words])
  IN groups[Len(paras)]

ReadPlain(line) ==
  /\ dkKind = "txt" /\ dkText' = Append(dkText, line)
  /\ UNCHANGED <<dkKind, dkStack, dkFence, dkOpen, dkChunks, dkEnded, dkTaken>>

ReadLine ==
  /\ ~dkEnded /\ Len(dkText) < MaxLines
  /\ \/ \E line \in {"blank", "one", "fence"} \cup Headings : ReadBody(line)
     \/ \E level \in Levels : ReadHeading(level)
     \/ \E line \in PlainLines : ReadPlain(line)

\* The end of the file: the open section is a chunk as well.
EndOfText ==
  /\ ~dkEnded /\ dkEnded' = TRUE
  /\ dkChunks' = IF dkKind = "md" THEN dkChunks \o sectionToChunk(dkOpen, dkText, Len(dkText))
                 ELSE chunkPlain(dkText)
  /\ UNCHANGED <<dkKind, dkText, dkStack, dkFence, dkOpen, dkTaken>>

----------------------------------------------------------------------------
(* rank.ts, context.ts *)

\* retrieve: the higher score first, among equals the earlier line.
retrieve(score) ==
  LET before(i, j) == score[i] > score[j] \/ (score[i] = score[j] /\ i < j)
  IN SetToSortSeq(DOMAIN dkChunks, before)

\* Mutant: the first chunk that does not fit ends the selection.
StopAtFirst(ranked, budget) ==
  LET fits[n \in 0 .. Len(ranked)] ==
        IF n = 0 THEN [ids |-> <<>>, words |-> 0, open |-> TRUE]
        ELSE LET s == fits[n - 1] w == dkChunks[ranked[n]].words IN
             IF ~s.open \/ s.words + w > budget THEN [s EXCEPT !.open = FALSE]
             ELSE [s EXCEPT !.ids = Append(@, ranked[n]), !.words = @ + w]
  IN fits[Len(ranked)].ids

\* contextForPrompt: a chunk that does not fit is passed over, a later one may still fit.
Fitting(ranked, budget) ==
  LET fits[n \in 0 .. Len(ranked)] ==
        IF n = 0 THEN [ids |-> <<>>, words |-> 0]
        ELSE LET s == fits[n - 1] w == dkChunks[ranked[n]].words IN
             IF s.words + w > budget THEN s
             ELSE [ids |-> Append(s.ids, ranked[n]), words |-> s.words + w]
  IN fits[Len(ranked)].ids

\* `asked`: the query has a word that is not a stopword; without one nothing is retrieved.
contextForPrompt(score, budget, asked) ==
  /\ dkEnded /\ dkKind = "txt" /\ dkTaken = NoTake
  /\ LET ids == IF budget = 0 \/ ~asked THEN <<>> ELSE Fitting(retrieve(score), budget)
     IN dkTaken' = [taken  |-> [n \in DOMAIN ids |-> dkChunks[ids[n]]],
                    left   |-> {dkChunks[n] : n \in DOMAIN dkChunks \ Range(ids)},
                    budget |-> budget, asked |-> asked]
  /\ UNCHANGED <<dkKind, dkText, dkStack, dkFence, dkOpen, dkChunks, dkEnded>>

DocNext ==
  \/ ReadLine
  \/ EndOfText
  \/ \E budget \in 0 .. MaxBudget, score \in [DOMAIN dkChunks -> 0 .. 1], asked \in BOOLEAN :
       contextForPrompt(score, budget, asked)

----------------------------------------------------------------------------
(* Properties *)

FencesBefore(i) == Cardinality({k \in 1 .. i - 1 : dkText[k] = "fence"})
IsHeading(i) == dkText[i] \in Headings /\ FencesBefore(i) % 2 = 0
Covering(i) == {n \in DOMAIN dkChunks : i \in dkChunks[n].start .. dkChunks[n].end}

\* Nothing of a file is lost and nothing is said twice: every line with something on it is
\* within the lines of exactly one chunk, a heading (outside a fence) within none, and no
\* chunk begins or ends on an empty line (core/src/docs.ts chunkMarkdown, chunkPlain).
LinesKept ==
  dkEnded =>
    /\ \A i \in DOMAIN dkText :
         dkText[i] # "blank" => Cardinality(Covering(i)) = IF IsHeading(i) THEN 0 ELSE 1
    /\ \A n \in DOMAIN dkChunks : "blank" \notin {dkText[dkChunks[n].start], dkText[dkChunks[n].end]}

HeadingsBefore(i) == {h \in 1 .. i - 1 : IsHeading(h)}
Enclosing(i) ==
  {h \in HeadingsBefore(i) :
     \A g \in HeadingsBefore(i) : g > h => LevelOf(dkText[g]) > LevelOf(dkText[h])}
NoLevelSkipped ==
  \A h \in {i \in DOMAIN dkText : IsHeading(i)} :
    LevelOf(dkText[h]) <= 1 + (IF HeadingsBefore(h) = {} THEN 0
                               ELSE LevelOf(dkText[Max(HeadingsBefore(h))]))

\* In a file whose headings skip no level, the headings a chunk says it is under are those
\* whose section encloses it, the outermost first (core/src/docs.ts headingStack).
PathIsAncestry ==
  (dkKind = "md" /\ NoLevelSkipped) =>
    \A n \in DOMAIN dkChunks : dkChunks[n].path = SetToSortSeq(Enclosing(dkChunks[n].start), <)

\* A plain chunk is as long as it may be and no longer: within the limit unless it is one
\* paragraph, and the next paragraph would not have fitted (core/src/docs.ts chunkPlain).
PlainChunksFull ==
  (dkEnded /\ dkKind = "txt") =>
    LET paras == Paragraphs(dkText)
        words(p) == WordsIn(dkText, p[1], p[2])
    IN \A n \in DOMAIN dkChunks :
         /\ \/ dkChunks[n].words <= WordsPerChunk
            \/ \E p \in Range(paras) : p = <<dkChunks[n].start, dkChunks[n].end>>
         /\ \A p \in Range(paras) :
              (n + 1 \in DOMAIN dkChunks /\ p[1] = dkChunks[n + 1].start)
                => dkChunks[n].words + words(p) > WordsPerChunk

TakenWords == MapThenSumSet(LAMBDA n : dkTaken.taken[n].words, DOMAIN dkTaken.taken)

\* The context keeps to its budget, and what is left out of a query that asks for
\* anything would not fit in what remains (docs/context.ts: "a later, smaller chunk can still make it in").
BudgetSpent ==
  dkTaken # NoTake =>
    /\ TakenWords <= dkTaken.budget
    /\ dkTaken.asked => \A c \in dkTaken.left : TakenWords + c.words > dkTaken.budget
=============================================================================
