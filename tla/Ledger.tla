------------------------------- MODULE Ledger -------------------------------
(***************************************************************************)
(* The ledger, internal/ledger: a file of JSON lines that is appended to   *)
(* in two writes, the entry and its newline, and read as a whole.  The     *)
(* file is the sequence of what was written: entries, newlines and the     *)
(* beginnings of entries that short writes left.  Each write is atomic     *)
(* (O_APPEND).                                                             *)
(***************************************************************************)
EXTENDS Integers, Sequences, FiniteSetsExt

\* An entry: what kind of event, for whom, and for an accept the sats that it
\* names, which are those of the session when one is resumed.
Entry(kind, who, sats) == [event |-> kind, who |-> who, sats |-> sats]

Newline == Entry("newline", "nobody", 0)

\* The two writes of appendEntry.
WriteEntry(file, e) == Append(file, e)
WriteNewline(file) == Append(file, Newline)

\* The first write writes a part of the entry; there is no second one.
ShortWrite(file, e) == Append(file, Entry("fragment", e.who, 0))

Positions(file) == {i \in 1..Len(file) : file[i] # Newline}
Entries(file) == {file[i] : i \in Positions(file)}

\* readAll fails on a line that is not one entry; empty lines are skipped.
Readable(file) ==
    \A i \in Positions(file) :
        file[i].event # "fragment" /\ (i + 1 \in 1..Len(file) => file[i + 1] = Newline)

\* RevenueSummary and RevenueByNASID over the whole period: TotalSat.
RevenueSummary(file) ==
    FoldSet(LAMBDA i, sum : sum + file[i].sats, 0,
            {i \in Positions(file) : file[i].event = "auth_accept"})

\* ParseAccountingEvent: unknown status types are not recorded.
mapStatusType(s) ==
    CASE s \in {"Start", "1"}          -> "accounting_start"
      [] s \in {"Stop", "2"}           -> "accounting_stop"
      [] s \in {"Interim-Update", "3"} -> "accounting_update"
      [] s \in {"Accounting-On", "7"}  -> "accounting_on"
      [] s \in {"Accounting-Off", "8"} -> "accounting_off"
      [] OTHER                         -> "none"

=============================================================================
