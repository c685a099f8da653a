------------------------------ MODULE SiteStats ------------------------------
(***************************************************************************)
(* The growth graph of the website: how many installs were requested, or   *)
(* are active, up to each of Buckets moments between a start and now.      *)
(*                                                                         *)
(* Time is counted in ticks of UTC; the server's time zone is Offset ticks *)
(* behind it.  The database compares dates and moments in the server's     *)
(* zone, the arithmetic of the buckets takes the dates of UTC.             *)
(***************************************************************************)
EXTENDS MapData

CONSTANTS
  Day, Offset,  \* ticks of a day, and ticks the server's zone is behind UTC
  Buckets,      \* GRAPH_X_AXIS_DATAPOINT_COUNT
  RequestedAt,  \* the moment of each install's request
  InstalledOn,  \* the date of each install, or Null
  Nows, Spans   \* the moments a graph is asked for, and for how many days

ASSUME StatsAssumption ==
  /\ Day \in Nat \ {0} /\ Offset \in 0 .. Day - 1 /\ Buckets \in Nat \ {0}
  /\ RequestedAt \in [Installs -> Nat] /\ InstalledOn \in [Installs -> Nat \cup {Null}]
  /\ Nows \subseteq Nat /\ Spans \subseteq Nat

UtcDate(t)   == t \div Day
LocalDate(t) == (t - Offset) \div Day
Midnight(d)  == d * Day + Offset

First == CHOOSE t \in {RequestedAt[i] : i \in Installs} : \A i \in Installs : t =< RequestedAt[i]

(* parse_stats_request_params: so many days ago, or since the first date.  *)
StartOf(days, now) == IF days > 0 THEN now - days * Day ELSE Midnight(UtcDate(First))

Active == {i \in Installs : installs[i].status = "ACTIVE" /\ InstalledOn[i] # Null}

Base(mode, start) ==
  IF mode = "active_installs"
  THEN {i \in Active : InstalledOn[i] < LocalDate(start)}
  ELSE {i \in Installs : RequestedAt[i] < start}

Ranged(mode, start, now) ==
  IF mode = "active_installs"
  THEN {i \in Active : InstalledOn[i] \in UtcDate(start) .. UtcDate(now) - 1}
  ELSE {i \in Installs : RequestedAt[i] \in Midnight(UtcDate(start)) .. Midnight(UtcDate(now)) - 1}

CountingDate(mode, i) == IF mode = "active_installs" THEN InstalledOn[i] ELSE UtcDate(RequestedAt[i])

(* The end is read from the clock after the start: the quotient is a little *)
(* less than the ticks say, and one that is whole falls into the bucket    *)
(* before.                                                                 *)
Index(mode, i, start, now) ==
  LET ticks == (CountingDate(mode, i) - UtcDate(start)) * Day * Buckets
  IN  IF ticks = 0 THEN 0 ELSE (ticks - 1) \div (now - start)

(* Variant: the first bucket is filled as the others are. *)
AnyBucket(mode, b, start, now) == {i \in Ranged(mode, start, now) : Index(mode, i, start, now) =< b}

(* What is in the first bucket is taken to be in the base, and is skipped; *)
(* so would be what is on the very end.                                    *)
Counted(mode, b, start, now) == {i \in Ranged(mode, start, now) : Index(mode, i, start, now) \in 1 .. b}

OutOfRange(mode, start, now) == \E i \in Ranged(mode, start, now) : Index(mode, i, start, now) > Buckets

(* compute_graph_stats: the cumulated buckets.                             *)
Data(mode, start, now) ==
  [b \in 0 .. Buckets - 1 |->
     Cardinality(Base(mode, start)) + Cardinality(Counted(mode, b, start, now))]

-----------------------------------------------------------------------------
Dated(mode) == IF mode = "active_installs" THEN Active ELSE Installs

(* The graph is drawn, unless all of time is asked for and there are no    *)
(* requests, or the oldest is younger than Buckets times the difference of *)
(* the zones.  It never shows more installs than there are, though the     *)
(* base and the buckets overlap on the first day and are cut in different  *)
(* zones; and it misses no dated install but those of its first bucket,    *)
(* and of the day before its start (website_stats.py l.72-101, l.113-138). *)
GraphSound ==
  \A now \in Nows, days \in Spans, mode \in {"active_installs", "install_requests"} :
    LET start == StartOf(days, now)
        last  == Data(mode, start, now)[Buckets - 1]
        Date(i) == CountingDate(mode, i)
    IN  now > start /\ (days > 0 \/ (Installs # {} /\ now - start >= Buckets * Offset)) =>
          /\ ~OutOfRange(mode, start, now)
          /\ last =< Cardinality({i \in Dated(mode) : Date(i) =< UtcDate(now)})
          /\ last >= Cardinality({i \in Dated(mode) :
                \/ Date(i) < UtcDate(start) - 1
                \/ Date(i) \in UtcDate(start) + 1 .. UtcDate(now) - 1 /\ Index(mode, i, start, now) > 0})
=============================================================================
