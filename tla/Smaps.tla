-------------------------------- MODULE Smaps --------------------------------
(***************************************************************************)
(* The two parsers of /proc/<pid>/smaps: the line reader of the command    *)
(* line tool and the accumulator of the desktop backend, which says that   *)
(* it does the same parse.  A file is a sequence of mappings; each is a    *)
(* header, fields in KiB, and the line VmFlags.                            *)
(*                                                                         *)
(* Abstractions.  A line is what the parsers tell apart: whether it is a   *)
(* header and its path names a .jsa file, the name and the number of a     *)
(* field, or VmFlags.  Sums stay below 2^64.                               *)
(***************************************************************************)
EXTENDS Naturals, Sequences

CONSTANTS
  Heap,     \* KiB of a mapping that is nobody else's
  Jdk,      \* KiB of the pages that JVMs share of the JDK's own archive
  Archive,  \* KiB of the pages that JVMs share of an archive of a ClassCache
  Cow       \* KiB of the pages of either that each JVM has written to

ASSUME SmapsAssumption ==
  Heap \in Nat /\ Jdk \in Nat \ {0} /\ Archive \in Nat \ {0} /\ Cow \in Nat

(* What the tool adds up. *)
Counted == {"Rss", "Pss", "Shared_Clean", "Shared_Dirty", "Private_Clean", "Private_Dirty"}
Zero == [f \in Counted |-> 0]
Plus(a, b) == [f \in Counted |-> a[f] + b[f]]
-----------------------------------------------------------------------------
(* The kernel's file.                                                      *)

Header(jsa) == [kind |-> "header", jsa |-> jsa]
Field(name, kib) == [kind |-> "field", name |-> name, kib |-> kib]
VmFlags == [kind |-> "VmFlags"]

(* A mapping of clean pages that m processes have in memory. *)
CleanMapping(jsa, kib, m) ==
  << Header(jsa), Field("Size", kib), Field("Rss", kib), Field("Pss", kib \div m),
     Field("Pss_Dirty", 0),
     Field("Shared_Clean", IF m > 1 THEN kib ELSE 0), Field("Shared_Dirty", 0),
     Field("Private_Clean", IF m > 1 THEN 0 ELSE kib), Field("Private_Dirty", 0), VmFlags >>

(* A mapping of pages that this process has written to. *)
DirtyMapping(jsa, kib) ==
  << Header(jsa), Field("Size", kib), Field("Rss", kib), Field("Pss", kib),
     Field("Pss_Dirty", kib), Field("Shared_Clean", 0), Field("Shared_Dirty", 0),
     Field("Private_Clean", 0), Field("Private_Dirty", kib), VmFlags >>

(* An archive that m JVMs have mapped; with m = 0 this one has not.        *)
ArchiveMappings(kib, m) ==
  IF m = 0 THEN << >> ELSE CleanMapping(TRUE, kib, m) \o DirtyMapping(TRUE, Cow)

(* The archives of a ClassCache are dynamic ones, on top of the JDK's      *)
(* classes.jsa, which JVMs without one map as well; .jsa is in both names. *)
(* The file of a JVM that is one of b with that archive of the JDK, and    *)
(* one of m with that archive of a ClassCache.                             *)
SmapsFile(b, m) ==
  DirtyMapping(FALSE, Heap) \o ArchiveMappings(Jdk, b) \o ArchiveMappings(Archive, m)
    \o CleanMapping(FALSE, Heap, 1)
-----------------------------------------------------------------------------
(* The command line tool.                                                  *)

ParsePrefix(acc, l) ==   \* mutant: the prefix of Pss is matched without its colon
  LET f == IF l.name = "Pss_Dirty" THEN "Pss" ELSE l.name
  IN  IF f \in Counted THEN [acc EXCEPT ![f] = @ + l.kib] ELSE acc

(* One field of each name is added; others are passed over. *)
ParseField(acc, l) ==
  IF l.name \in Counted THEN [acc EXCEPT ![l.name] = @ + l.kib] ELSE acc

AnyOpens(l) == TRUE   \* mutant: the needle is ignored

(* A header opens a block if it has the needle, and closes one if not. *)
Opens(l) == l.jsa

ConsumeLine(s, l) ==
  CASE l.kind = "header"           -> [s EXCEPT !.in = Opens(l)]
    [] l.kind # "header" /\ ~s.in  -> s
    [] l.kind = "VmFlags" /\ s.in  -> [s EXCEPT !.in = FALSE]
    [] l.kind = "field" /\ s.in    -> [s EXCEPT !.sums = ParseField(@, l)]

(* The reader after each line. *)
Consuming(file) ==
  LET s[n \in 0..Len(file)] ==
        IF n = 0 THEN [in |-> FALSE, sums |-> Zero] ELSE ConsumeLine(s[n - 1], file[n])
  IN  s

Consume(file) == Consuming(file)[Len(file)].sums
-----------------------------------------------------------------------------
(* The desktop backend.  A header without .jsa closes nothing here.        *)

(* The switch on the name of the field. *)
AddField(acc, l) ==
  IF l.name \in Counted THEN [acc EXCEPT ![l.name] = @ + l.kib] ELSE acc

LineNeverClosed(s, l) ==   \* mutant: VmFlags does not close the block
  CASE l.kind = "header" -> [s EXCEPT !.in = @ \/ l.jsa]
    [] l.kind # "header" /\ (~s.in \/ l.kind = "VmFlags") -> s
    [] l.kind = "field" /\ s.in -> [s EXCEPT !.sums = AddField(@, l), !.any = @ \/ l.name = "Rss"]

AccumulateLine(s, l) ==
  CASE l.kind = "header"           -> [s EXCEPT !.in = @ \/ l.jsa]
    [] l.kind # "header" /\ ~s.in  -> s
    [] l.kind = "VmFlags" /\ s.in  -> [s EXCEPT !.in = FALSE]
    [] l.kind = "field" /\ s.in    -> [s EXCEPT !.sums = AddField(@, l), !.any = @ \/ l.name = "Rss"]

Accumulating(file) ==
  LET s[n \in 0..Len(file)] ==
        IF n = 0 THEN [in |-> FALSE, sums |-> Zero, any |-> FALSE]
                 ELSE AccumulateLine(s[n - 1], file[n])
  IN  s

AccumulateSmaps(file) == Accumulating(file)[Len(file)]

=============================================================================
