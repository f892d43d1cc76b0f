------------------------------ MODULE Address -------------------------------
(***************************************************************************)
(* The d tag (crates/stats/src/publish/address.rs): the grammar a client   *)
(* constructs an address by, its parser and its rendering.  A text is the  *)
(* sequence of its segments between colons, a segment the sequence of its  *)
(* parts between dashes, a part a word.                                    *)
(***************************************************************************)
EXTENDS Integers, Sequences

CONSTANTS
    YearText,           \* the four digits of each year that can be spelt
    MonthText,          \* the two digits of each month of a year
    Hex,                \* the 64 digits of each pubkey
    Absent              \* None

Reports     == {"summary", "orders", "volume", "market", "disputes", "dev-fees",
                "instances", "compare"}
WindowNames == {"24h", "7d", "30d", "90d", "all"}
Resolutions == {"daily", "weekly", "monthly"}
NETWORKS    == {"mainnet", "testnet", "signet", "regtest"}

ASSUME AddressAssumption ==
    /\ \A f \in {YearText, MonthText, Hex} : \A x, y \in DOMAIN f : f[x] = f[y] => x = y
    /\ \A p \in DOMAIN Hex : Hex[p] \notin NETWORKS
    /\ Absent \notin DOMAIN YearText \cup DOMAIN MonthText
    /\ Absent \notin [year : DOMAIN YearText, month : {Absent} \cup DOMAIN MonthText]
    /\ Absent \notin [kind : {"i"}, value : DOMAIN Hex]
    /\ Absent \notin [kind : {"n"}, value : NETWORKS]

Spells(text, part) == \E x \in DOMAIN text : text[x] = part
Spelt(text, part)  == CHOOSE x \in DOMAIN text : text[x] = part

ReportText(r) == IF r = "dev-fees" THEN <<"dev", "fees">> ELSE <<r>>

\* Bucket::fits: a daily or weekly partition is a month, a monthly one a year.
Fits(bucket, resolution) == (bucket.month = Absent) = (resolution = "monthly")

Index(year) == [shape |-> "index", year |-> year]
WindowAddress(report, window, scope) ==
    [shape |-> "window", report |-> report, window |-> window, scope |-> scope]
SeriesAddress(report, resolution, bucket, scope) ==
    [ shape |-> "series", report |-> report, resolution |-> resolution,
      bucket |-> bucket, scope |-> scope ]

\* Display for Bucket, Scope and Address.
BucketText(b) ==
    IF b.month = Absent THEN <<YearText[b.year]>> ELSE <<YearText[b.year], MonthText[b.month]>>

ScopeText(scope) ==
    CASE scope = Absent -> << >>
      [] scope # Absent /\ scope.kind = "i" -> << <<"i">>, <<Hex[scope.value]>> >>
      [] scope # Absent /\ scope.kind = "n" -> << <<"n">>, <<scope.value>> >>

Render(a) ==
    CASE a.shape = "index" /\ a.year = Absent -> << <<"index">> >>
      [] a.shape = "index" /\ a.year # Absent -> << <<"index">>, <<YearText[a.year]>> >>
      [] a.shape = "window" -> << ReportText(a.report), <<a.window>> >> \o ScopeText(a.scope)
      [] a.shape = "series" -> << <<"series">>, ReportText(a.report), <<a.resolution>>,
                                  BucketText(a.bucket) >> \o ScopeText(a.scope)

\* Bucket::parse.  The first dash divides, so a second one is part of what
\* should have been two digits.
ParseBucket(segment) ==
    CASE Len(segment) = 1 /\ Spells(YearText, segment[1]) ->
            [year |-> Spelt(YearText, segment[1]), month |-> Absent]
      [] Len(segment) = 2 /\ Spells(YearText, segment[1]) /\ Spells(MonthText, segment[2]) ->
            [year |-> Spelt(YearText, segment[1]), month |-> Spelt(MonthText, segment[2])]
      [] OTHER -> Absent

\* A fault: what follows a scope is not looked at.
LooseScope(rest) ==
    IF rest = << >> THEN {Absent}
    ELSE {[kind |-> "i", value |-> p] :
             p \in {q \in DOMAIN Hex : /\ Len(rest) > 1
                                       /\ SubSeq(rest, 1, 2) = << <<"i">>, <<Hex[q]>> >>}}

\* Address::scope and Scope::parse: the scope the rest spells, if any.
ParseScope(rest) ==
    IF rest = << >> THEN {Absent}
    ELSE IF Len(rest) # 2 \/ Len(rest[2]) # 1 THEN {}
    ELSE {[kind |-> "i", value |-> p] :
             p \in {q \in DOMAIN Hex : rest = << <<"i">>, <<Hex[q]>> >>}}
         \cup {[kind |-> "n", value |-> n] :
             n \in {m \in NETWORKS : rest = << <<"n">>, <<m>> >>}}

\* Address::parse: the address the text spells, Absent for each of its errors.
Parse(text) ==
    LET n          == Len(text)
        the(set)   == IF set = {} THEN Absent ELSE CHOOSE x \in set : TRUE
        after(k)   == ParseScope(SubSeq(text, k, n))
        reports(s) == {r \in Reports : ReportText(r) = s}
        buckets    == {b \in {ParseBucket(text[4])} \ {Absent} : Fits(b, text[3][1])}
        windows    == {w \in WindowNames : text[2] = <<w>>}
        resolution == {r \in Resolutions : text[3] = <<r>>}
    IN  CASE n = 1 /\ text[1] = <<"index">> -> Index(Absent)
          [] n = 2 /\ text[1] = <<"index">> ->
                the({Index(y) : y \in {z \in DOMAIN YearText : text[2] = <<YearText[z]>>}})
          [] n >= 4 /\ text[1] = <<"series">> ->
                the({SeriesAddress(r, res, b, scope) :
                        r \in reports(text[2]), res \in resolution, b \in buckets,
                        scope \in after(5)})
          [] \/ n \in {2, 3} /\ (n = 2 => text[1] # <<"index">>)
             \/ n >= 4 /\ text[1] # <<"series">> ->
                the({WindowAddress(r, w, scope) :
                        r \in reports(text[1]), w \in windows, scope \in after(3)})
          [] OTHER -> Absent
=============================================================================
