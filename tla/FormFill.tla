------------------------------- MODULE FormFill -------------------------------
(***************************************************************************)
(* Filling a form of the app from a fixture: bench fixtures/FixturePanel   *)
(* (fillForm) and the loupe's jig:fill-probe and jig:fill (plate/          *)
(* loupe.js).  The two talk by messages that carry DOM paths.  The app     *)
(* takes elements away and puts them back between any two of them, and may *)
(* undo at once what is set in a field.  Elements are numbered in document *)
(* order; element 1 is the body.                                           *)
(***************************************************************************)
EXTENDS Naturals, SequencesExt, FiniteSetsExt

CONSTANTS FfElements,  \* how many elements a page has
          Unknown      \* no element, no path
ASSUME FfPage == FfElements \in Nat \ {0}

VARIABLES ffKind,    \* the page: what each element is ...
          ffUp,      \* ... and which element it is in
          ffHere,    \* the elements that are on the page
          ffValue,   \* what each field holds
          ffAt,      \* where fillForm is
          ffPick,    \* the picked element, and the path it was picked with
          ffProbe,   \* the reply to the probe
          ffReply,   \* the reply to the fill
          ffSame     \* since the probe was answered the page changed after the form's start
                     \* only (history)
fillVars == <<ffKind, ffUp, ffHere, ffValue, ffAt, ffPick, ffProbe, ffReply, ffSame>>

Elements == 1 .. FfElements
Fields == {"text-a", "control-a", "date-a", "check-b", "select-b"}
ElementKinds == {"div", "form"} \cup Fields
TagOf(kind) == IF kind = "select-b" THEN "select" ELSE IF kind \in Fields THEN "input" ELSE kind
NameOf(kind) == IF kind \in {"text-a", "control-a", "date-a"} THEN "a" ELSE IF kind \in Fields THEN "b" ELSE ""

\* The values of a fixture's form: a word for `a`, a choice for `b`.
FieldNames == {"a", "b"}

NoReply == [filled |-> {}, missing |-> {}, set |-> {}]

FillTypeOK ==
  /\ ffKind \in [Elements -> ElementKinds \cup {"body"}] /\ ffUp \in [Elements -> Elements \cup {0}]
  /\ ffHere \subseteq Elements /\ ffValue \in [Elements -> {"", "fixture", "chosen"}]
  /\ ffAt \in {"idle", "probing", "answered", "sent", "filled", "no-form", "gave-up"}
  /\ ffPick.el \in Elements \cup {Unknown} /\ ffProbe.names \subseteq FieldNames
  /\ ffProbe.form \in Elements \cup {Unknown}
  /\ ffReply \in [filled : SUBSET FieldNames, missing : SUBSET FieldNames, set : SUBSET Elements]
  /\ ffSame \in BOOLEAN

\* The elements e is in, from the body down to itself.
downTo[e \in Elements] == IF e = 1 THEN <<1>> ELSE Append(downTo[ffUp[e]], e)
DownTo(e) == downTo[e]
Chain(e) == ToSet(DownTo(e))

\* Document order: each element is in the one before it, or in one that is open there; fields
\* hold nothing, and no form is in a form.
WellFormedPage ==
  /\ ffKind[1] = "body" /\ ffUp[1] = 0
  /\ \A e \in Elements \ {1} :
       /\ ffKind[e] # "body" /\ ffUp[e] \in Chain(e - 1) /\ ffKind[ffUp[e]] \notin Fields
       /\ ffKind[e] = "form" => \A c \in Chain(ffUp[e]) : ffKind[c] # "form"

FillInit ==
  /\ ffKind \in [Elements -> ElementKinds \cup {"body"}]
  /\ ffKind[1] = "body" /\ \A e \in Elements \ {1} : ffKind[e] # "body"
  /\ ffUp \in {up \in [Elements -> 0 .. FfElements - 1] : up[1] = 0 /\ \A e \in Elements \ {1} : up[e] \in 1 .. e - 1}
  /\ WellFormedPage
  /\ ffHere = Elements /\ ffValue = [e \in Elements |-> ""]
  /\ ffAt = "idle" /\ ffPick = [el |-> Unknown, path |-> <<>>]
  /\ ffProbe = [form |-> Unknown, path |-> <<>>, names |-> {}]
  /\ ffReply = NoReply /\ ffSame = FALSE

----------------------------------------------------------------------------
(* loupe.js: paths *)

\* CSS :nth-of-type, as querySelector counts it.
nthOfType(e) == Cardinality({s \in ffHere : s <= e /\ ffUp[s] = ffUp[e] /\ TagOf(ffKind[s]) = TagOf(ffKind[e])})

\* Mutant: the index counts every sibling.
AmongSiblings(e) == Cardinality({s \in ffHere : s <= e /\ ffUp[s] = ffUp[e]})

\* The siblings up to it that have its tag.
IndexOf(e) == Cardinality({s \in ffHere : s <= e /\ ffUp[s] = ffUp[e] /\ TagOf(ffKind[s]) = TagOf(ffKind[e])})

buildDomPath(e) ==
  LET down == DownTo(e) IN [n \in DOMAIN down |-> <<TagOf(ffKind[down[n]]), IndexOf(down[n])>>]

\* querySelector of a child chain: the first element whose own chain ends with it.
resolveDomPath(path) ==
  LET fits(e) ==
        LET down == DownTo(e)
        IN /\ Len(down) >= Len(path)
           /\ \A n \in DOMAIN path :
                LET x == down[Len(down) - Len(path) + n]
                IN path[n] = <<TagOf(ffKind[x]), nthOfType(x)>>
      found == {e \in ffHere : fits(e)}
  IN IF path = <<>> \/ found = {} THEN Unknown ELSE Min(found)

----------------------------------------------------------------------------
(* loupe.js: forms *)

In(root) == {e \in ffHere : root = Unknown \/ (e # root /\ root \in Chain(e))}

nearestForm(path) ==
  LET el     == resolveDomPath(path)
      around == IF el = Unknown THEN {} ELSE {c \in Chain(el) : ffKind[c] = "form"}
      forms  == {e \in ffHere : ffKind[e] = "form"}
  IN IF around # {} THEN Max(around) ELSE IF forms # {} THEN Min(forms) ELSE Unknown

fieldNamesOf(form) == {NameOf(ffKind[e]) : e \in {f \in In(form) : ffKind[f] \in Fields}}

\* The first by its name attribute, else the first by its formcontrolname.
findFieldElement(root, name) ==
  LET named   == {e \in In(root) : NameOf(ffKind[e]) = name}
      byName  == {e \in named : ffKind[e] # "control-a"}
  IN IF byName # {} THEN Min(byName) ELSE IF named # {} THEN Min(named) ELSE Unknown

\* Mutant: setting a value counts as having set it.
Intended(kind, offered, holds) == TRUE

\* setFieldValue's answer: an input is read back; a checkbox is not, nor is a select that offers
\* the option.
setFieldValue(kind, offered, holds) ==
  \/ kind = "check-b"
  \/ kind = "select-b" /\ offered
  \/ kind \notin {"check-b", "select-b"} /\ holds # ""

\* What a field holds then: a constrained input keeps what it held, and the app may put back
\* what any of them held.
Holds(kind, offered, undone) ==
  IF undone \/ kind = "date-a" \/ (kind = "select-b" /\ ~offered) THEN ""
  ELSE IF kind \in {"check-b", "select-b"} THEN "chosen" ELSE "fixture"

----------------------------------------------------------------------------
(* fillForm, and the loupe's answers *)

PickElement(e) ==
  /\ ffAt = "idle" /\ e \in ffHere \ {1}
  /\ ffPick' = [el |-> e, path |-> buildDomPath(e)]
  /\ UNCHANGED <<ffKind, ffUp, ffHere, ffValue, ffAt, ffProbe, ffReply, ffSame>>

PressFill ==
  /\ ffAt = "idle" /\ ffAt' = "probing"
  /\ UNCHANGED <<ffKind, ffUp, ffHere, ffValue, ffPick, ffProbe, ffReply, ffSame>>

\* jig:fill-probe, and its reply: no names is no form.
AnswerProbe ==
  /\ ffAt = "probing"
  /\ LET form == nearestForm(ffPick.path) IN
     /\ ffProbe' = IF form = Unknown THEN [form |-> Unknown, path |-> <<>>, names |-> {}]
                   ELSE [form |-> form, path |-> buildDomPath(form), names |-> fieldNamesOf(form)]
     /\ ffAt' = IF ffProbe'.names = {} THEN "no-form" ELSE "answered"
  /\ ffSame' = TRUE
  /\ UNCHANGED <<ffKind, ffUp, ffHere, ffValue, ffPick, ffReply>>

\* The fixture and its values are fetched; jig:fill goes out.
SendFill ==
  /\ ffAt = "answered" /\ ffAt' = "sent"
  /\ UNCHANGED <<ffKind, ffUp, ffHere, ffValue, ffPick, ffProbe, ffReply, ffSame>>

\* No answer to the probe in time, no schema that matches, or a fetch that fails.
GiveUp ==
  /\ ffAt \in {"probing", "answered"} /\ ffAt' = "gave-up"
  /\ UNCHANGED <<ffKind, ffUp, ffHere, ffValue, ffPick, ffProbe, ffReply, ffSame>>

\* Mutant: the fields are looked for in the whole page.
WholePage(path) == Unknown

\* The form's path of the probe; the whole page when it leads nowhere any more.
RootOf(path) == resolveDomPath(path)

\* jig:fill: every field is filled or reported missing.  A select may offer the option or not;
\* the app undoes what it will.
AnswerFill(offered, undone) ==
  /\ ffAt = "sent" /\ ffAt' = "filled"
  /\ LET root  == RootOf(ffProbe.path)
         el(n) == findFieldElement(root, n)
         found == {n \in FieldNames : el(n) # Unknown}
         set   == {el(n) : n \in found}
         value == [e \in Elements |-> IF e \in set THEN Holds(ffKind[e], offered, NameOf(ffKind[e]) \in undone)
                                      ELSE ffValue[e]]
         done  == {n \in found : setFieldValue(ffKind[el(n)], offered, value[el(n)])}
     IN /\ ffReply' = [filled |-> done, missing |-> FieldNames \ done, set |-> set]
        /\ ffValue' = value
  /\ UNCHANGED <<ffKind, ffUp, ffHere, ffPick, ffProbe, ffSame>>

\* All of what changes stands after the start of the form the panel was told of.
BehindTheForm(changed) == ffProbe.form # Unknown /\ \A x \in changed : x > ffProbe.form

\* The app takes an element away, with all that is in it, one at a time, or puts it back.
AppRemoves(e) ==
  LET gone == {x \in Elements : e \in Chain(x)} IN
  /\ ffAt \in {"idle", "probing", "answered", "sent"} /\ e \in ffHere \ {1} /\ ffHere = Elements
  /\ ffHere' = ffHere \ gone
  /\ ffSame' = (ffSame /\ BehindTheForm(gone))
  /\ UNCHANGED <<ffKind, ffUp, ffValue, ffAt, ffPick, ffProbe, ffReply>>

AppPutsBack ==
  /\ ffAt \in {"idle", "probing", "answered", "sent"} /\ ffHere # Elements
  /\ ffHere' = Elements
  /\ ffSame' = (ffSame /\ BehindTheForm(Elements \ ffHere))
  /\ UNCHANGED <<ffKind, ffUp, ffValue, ffAt, ffPick, ffProbe, ffReply>>

FillNext ==
  \/ PressFill \/ AnswerProbe \/ SendFill \/ GiveUp \/ AppPutsBack
  \/ \E offered \in BOOLEAN, undone \in SUBSET FieldNames : AnswerFill(offered, undone)
  \/ \E e \in Elements : PickElement(e) \/ AppRemoves(e)

----------------------------------------------------------------------------
(* Properties *)

\* A path leads back to the element it was built from, on every page that was picked from,
\* whatever the app took away since: the highlight, the pick and the fill mean the same element (loupe.js buildDomPath, resolveDomPath).
PickComesBack ==
  ffPick.el # Unknown => \A e \in ffHere : resolveDomPath(buildDomPath(e)) = e

\* However the app's page changes between the probe and the fill inside the form or after it,
\* nothing is filled outside the form the panel was told of: the path still leads to that form.
\* A change before the form is another matter: its path may then lead to another form, or
\* nowhere, and fields are looked for in the whole document (loupe.js jig:fill).
FillStaysInForm ==
  (ffAt = "filled" /\ ffSame) => ffReply.set \subseteq In(ffProbe.form)

\* An input that the panel reports filled holds the value, whatever the app did with it when it
\* was set (loupe.js setFieldValue "Verification, not just intent"); a checkbox or a select was
\* found and set, and may have been put back.  Each field is in exactly one of the two lists.
FilledIsStored ==
  ffAt = "filled" =>
    /\ \A n \in ffReply.filled :
         \E e \in ffReply.set : NameOf(ffKind[e]) = n /\ (ffKind[e] \notin {"check-b", "select-b"} => ffValue[e] = "fixture")
    /\ ffReply.filled \cup ffReply.missing = FieldNames /\ ffReply.filled \cap ffReply.missing = {}
=============================================================================
