----------------------------- MODULE FontDiscovery -----------------------------
(***************************************************************************)
(* The font discovery that runs when the script is imported: lines 18-42  *)
(* of src/utils/memory-usage-analysis/analyze_cb_spider_memory.py,         *)
(* get_system_font() and the rcParams settings made with its result.  One  *)
(* step is one iteration of the loop over fm.findSystemFonts().            *)
(*                                                                         *)
(* A font file is a record: the family name get_name() would return, and   *)
(* whether FontProperties(fname=...).get_name() returns at all or raises   *)
(* (an unreadable or corrupt file).  The keyword test of line 28 is        *)
(* abstracted to membership of the name in Preferred, the names whose      *)
(* lower case contains 'arial', 'helvetica', 'dejavu' or 'liberation'.     *)
(* findSystemFonts returns the files in no fixed order, so the listing is  *)
(* any sequence of at most MaxFonts files, the empty one included.         *)
(***************************************************************************)
EXTENDS Integers, Sequences, SequencesExt, FiniteSets

CONSTANTS
    Names,       \* the family names installed font files may have
    Preferred,   \* those the keyword test of line 28 accepts
    SansSerif,   \* the 'sans-serif' fallback of line 36
    Unset,       \* rcParams['font.family'] before line 41 runs
    MaxFonts     \* bound on the number of font files listed

ASSUME Preferred \subseteq Names /\ MaxFonts \in Nat

FontFile == [name : Names, loads : BOOLEAN]

VARIABLES
    fontList,    \* font_list, the result of findSystemFonts (line 20)
    i,           \* the index of the loop of line 23
    preferred,   \* preferred_fonts
    phase,       \* "scan" inside get_system_font, "done" after line 42
    rcFamily     \* plt.rcParams['font.family']

vars == <<fontList, i, preferred, phase, rcFamily>>

TypeOK ==
    /\ fontList \in BoundedSeq(FontFile, MaxFonts)
    /\ i \in 1..(MaxFonts + 1)
    /\ preferred \in Seq(Preferred)
    /\ phase \in {"scan", "done"}
    /\ rcFamily \in Names \cup {SansSerif, Unset}

-----------------------------------------------------------------------------
(* Plausible-bug variant used by mutation runs: the bare except of line 30 *)
(* written as break, so the first file that fails to load ends the scan.   *)
ScanFontStopOnError ==
    /\ phase = "scan"
    /\ i <= Len(fontList)
    /\ IF fontList[i].loads
          THEN /\ preferred' = IF fontList[i].name \in Preferred
                                  THEN Append(preferred, fontList[i].name)
                                  ELSE preferred
               /\ i' = i + 1
          ELSE UNCHANGED preferred /\ i' = Len(fontList) + 1
    /\ UNCHANGED <<fontList, phase, rcFamily>>

-----------------------------------------------------------------------------
Init ==
    /\ fontList \in BoundedSeq(FontFile, MaxFonts)
    /\ i = 1
    /\ preferred = <<>>
    /\ phase = "scan"
    /\ rcFamily = Unset

\* Lines 23-31: one iteration.  A file whose name cannot be read raises
\* inside the try and is skipped by the bare except; a readable one is
\* appended when its name passes the keyword test.
ScanFont ==
    /\ phase = "scan"
    /\ i <= Len(fontList)
    /\ preferred' = IF fontList[i].loads /\ fontList[i].name \in Preferred
                       THEN Append(preferred, fontList[i].name)
                       ELSE preferred
    /\ i' = i + 1
    /\ UNCHANGED <<fontList, phase, rcFamily>>

\* Lines 33-42: the loop has run out of files; get_system_font returns the
\* first preferred name or 'sans-serif', and line 41 makes it the font
\* family (line 42 sets axes.unicode_minus, a constant not modelled).
FontChosen ==
    /\ phase = "scan"
    /\ i > Len(fontList)
    /\ rcFamily' = IF preferred # <<>> THEN Head(preferred) ELSE SansSerif
    /\ phase' = "done"
    /\ UNCHANGED <<fontList, i, preferred>>

Next == ScanFont \/ FontChosen

\* Import-time code on the one thread of the script, run to its end.
Spec == Init /\ [][Next]_vars /\ WF_vars(Next)

-----------------------------------------------------------------------------
(* Reference: the font the code is meant to pick, stated over the listing. *)

\* The name of the first file in listing order that loads and is preferred,
\* or the fallback when there is none.
FirstPreferred(fl) ==
    LET ok == {k \in DOMAIN fl : fl[k].loads /\ fl[k].name \in Preferred}
    IN IF ok = {} THEN SansSerif ELSE fl[Min(ok)].name

\* get_system_font and line 41: once the module is imported, the font
\* family is the first preferred font of the listing that can be read, so
\* an unreadable file anywhere in the listing (skipped by the bare except
\* of line 30) never hides a good font after it, and 'sans-serif' is used
\* only when no readable preferred font is installed.
FontChoiceMatchesSpec ==
    phase = "done" => rcFamily = FirstPreferred(fontList)

=============================================================================
