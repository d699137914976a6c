-------------------- MODULE TaiwanStockNewsClient_proofs --------------------
(***************************************************************************)
(* Theorems about TaiwanStockNewsClient, for any texts, relation of        *)
(* similar stories, limits and number of callers.                          *)
(***************************************************************************)
EXTENDS TaiwanStockNewsClient, ClientParts_proofs

-----------------------------------------------------------------------------
(* The loop over the rows of a provider.                                   *)

\* The function of which Merged is the last value; rows[i] is what i turns of the
\* loop leave.
IsRun(rows, n, selected, stories, limit) ==
    rows = [i \in 0..n |-> IF i = 0 THEN selected
                           ELSE WithStory(rows[i - 1], stories[i], limit)]

\* The recursion is well defined.
LEMMA RunExists ==
    ASSUME NEW selected \in Seq(Stories), NEW stories \in Seq(Stories), NEW limit
    PROVE  \E rows : IsRun(rows, Len(stories), selected, stories, limit)
  <1> DEFINE n == Len(stories)
             R == Seq(Stories)
             step == [x \in (1..n) \X R |-> WithStory(x[2], stories[x[1]], limit)]
  <1>1. n \in Nat /\ selected \in R /\ \A i \in 1..n : stories[i] \in Stories
    OBVIOUS
  <1>2. ASSUME NEW i \in 1..n, NEW r \in R
        PROVE  WithStory(r, stories[i], limit) \in R
    BY <1>1 DEF WithStory
  <1> HIDE DEF n, R
  <1>3. \A i \in 1..n : \A r \in R :
          step[<<i, r>>] = WithStory(r, stories[i], limit)
    OBVIOUS
  <1>4. step \in [(1..n) \X R -> R]
    BY <1>2
  <1> HIDE DEF step
  <1>5. PICK f : IsMadeBy(f, R, selected, n, step)
    <2>1. selected \in R /\ n \in Nat
      BY <1>1
    <2> QED
      BY <1>4, <2>1, Recursion
  <1>6. /\ f \in [0..n -> R]
        /\ f[0] = selected
        /\ \A i \in 1..n : f[i] = step[<<i, f[i - 1]>>]
    BY <1>5 DEF IsMadeBy
  <1>7. ASSUME NEW i \in 0..n
        PROVE  f[i] = IF i = 0 THEN selected ELSE WithStory(f[i - 1], stories[i], limit)
    <2>1. i # 0 => i \in 1..n /\ f[i - 1] \in R
      BY <1>1, <1>6
    <2>2. i # 0 => step[<<i, f[i - 1]>>] = WithStory(f[i - 1], stories[i], limit)
      BY <1>3, <2>1
    <2> QED
      BY <1>6, <2>1, <2>2
  <1>8. f = [i \in 0..n |-> f[i]]
    BY <1>6
  <1>9. f = [i \in 0..n |-> IF i = 0 THEN selected
                            ELSE WithStory(f[i - 1], stories[i], limit)]
    BY <1>7, <1>8, Zenon
  <1> QED
    BY <1>9 DEF IsRun, n

\* Merged is what the run over all stories leaves.
LEMMA MergedIsRun ==
    ASSUME NEW selected \in Seq(Stories), NEW stories \in Seq(Stories), NEW limit
    PROVE  \E rows : /\ IsRun(rows, Len(stories), selected, stories, limit)
                     /\ Merged(selected, stories, limit) = rows[Len(stories)]
  <1> DEFINE rows[n \in 0..Len(stories)] ==
               IF n = 0 THEN selected
               ELSE WithStory(rows[n - 1], stories[n], limit)
  <1>1. Merged(selected, stories, limit) = rows[Len(stories)]
    BY DEF Merged
  <1>2. rows = CHOOSE f : f = [i \in 0..Len(stories) |->
           IF i = 0 THEN selected ELSE WithStory(f[i - 1], stories[i], limit)]
    OBVIOUS
  <1> HIDE DEF rows
  <1>3. rows = CHOOSE f : IsRun(f, Len(stories), selected, stories, limit)
    BY <1>2 DEF IsRun
  <1>4. IsRun(rows, Len(stories), selected, stories, limit)
    BY <1>3, RunExists
  <1> QED
    BY <1>1, <1>4

\* What holds of the rows and goes on holding through each turn of the loop
\* holds of its result.  Good is a set of pairs <<turn, rows>>.
LEMMA MergedInduction ==
    ASSUME NEW selected \in Seq(Stories), NEW stories \in Seq(Stories), NEW limit,
           NEW Good, <<0, selected>> \in Good,
           \A n \in 0..(Len(stories) - 1) : \A rows : <<n, rows>> \in Good =>
             <<n + 1, WithStory(rows, stories[n + 1], limit)>> \in Good
    PROVE  <<Len(stories), Merged(selected, stories, limit)>> \in Good
  <1> DEFINE last == Len(stories)
  <1>1. PICK r : /\ IsRun(r, last, selected, stories, limit)
                 /\ Merged(selected, stories, limit) = r[last]
    BY MergedIsRun
  <1> DEFINE P == {n \in Nat : n <= last => <<n, r[n]>> \in Good}
  <1>2. \A i \in 0..last : r[i] = IF i = 0 THEN selected
                                 ELSE WithStory(r[i - 1], stories[i], limit)
    BY <1>1 DEF IsRun
  <1>3. 0 \in P
    <2>1. 0 \in 0..last
      OBVIOUS
    <2> QED
      BY <2>1, <1>2
  <1>4. ASSUME NEW n \in P PROVE n + 1 \in P
    <2> SUFFICES ASSUME n + 1 <= last
                 PROVE  <<n + 1, r[n + 1]>> \in Good
      OBVIOUS
    <2>1. /\ n \in 0..(last - 1) /\ n <= last
          /\ n + 1 \in 0..last /\ n + 1 # 0 /\ (n + 1) - 1 = n
      OBVIOUS
    <2>2. <<n, r[n]>> \in Good
      BY <2>1
    <2>3. r[n + 1] = WithStory(r[n], stories[n + 1], limit)
      BY <2>1, <1>2
    <2> QED
      BY <2>1, <2>2, <2>3
  <1>5. P = Nat
    <2>1. P \subseteq Nat
      OBVIOUS
    <2> HIDE DEF P
    <2> QED
      BY <2>1, <1>3, <1>4, Induction
  <1>6. <<last, r[last]>> \in Good
    <2>1. last \in P /\ last <= last
      BY <1>5
    <2> QED
      BY <2>1
  <1> QED
    BY <1>1, <1>6

-----------------------------------------------------------------------------
(* What is selected                                                        *)

\* Rows are the selection from the first n stories of s, up to the limit.
IsSelectionOf(at, rows, s, n, limit) ==
    /\ at \in [DOMAIN rows -> 1..n]
    /\ \A k, m \in DOMAIN rows : k < m => at[k] < at[m]
    /\ \A k \in DOMAIN rows : rows[k] = s[at[k]]
    /\ \A i \in 1..n :
         (\E k \in DOMAIN rows : at[k] = i) <=>
           /\ \A k \in DOMAIN rows :
                at[k] < i => <<s[i], s[at[k]]>> \notin Similar
           /\ limit \in DOMAIN rows => i <= at[limit]

SelectedFrom(rows, s, n, limit) ==
    /\ rows \in Seq(Stories)
    /\ Len(rows) <= limit
    /\ \E at : IsSelectionOf(at, rows, s, n, limit)

\* One turn of the loop extends the selection by one story.
LEMMA OneStory ==
    ASSUME NEW s \in Seq(Stories), NEW n \in Nat, n + 1 <= Len(s),
           NEW limit \in Nat \ {0}, NEW rows, SelectedFrom(rows, s, n, limit)
    PROVE  SelectedFrom(WithStory(rows, s[n + 1], limit), s, n + 1, limit)
  <1> DEFINE story == s[n + 1]
             size == Len(rows)
  <1>1. PICK at : IsSelectionOf(at, rows, s, n, limit)
    BY DEF SelectedFrom
  <1>2. /\ size \in Nat /\ size <= limit
        /\ DOMAIN rows = 1..size
        /\ rows \in Seq(Stories)
        /\ story \in Stories
    BY DEF SelectedFrom
  <1>3. /\ \A k \in 1..size : at[k] \in 1..n /\ rows[k] = s[at[k]]
        /\ \A k, m \in 1..size : k < m => at[k] < at[m]
        /\ \A i \in 1..n :
             (\E k \in 1..size : at[k] = i) <=>
               /\ \A k \in 1..size :
                    at[k] < i => <<s[i], s[at[k]]>> \notin Similar
               /\ limit \in 1..size => i <= at[limit]
    BY <1>1, <1>2 DEF IsSelectionOf
  <1>4. CASE Len(rows) >= limit \/ IsDuplicate(rows, story)
    <2>1. WithStory(rows, story, limit) = rows
      BY <1>4 DEF WithStory
    <2>2. at \in [DOMAIN rows -> 1..(n + 1)]
      BY <1>1 DEF IsSelectionOf
    <2>3. ASSUME NEW i \in 1..(n + 1)
          PROVE  (\E k \in 1..size : at[k] = i) <=>
                   /\ \A k \in 1..size :
                        at[k] < i => <<s[i], s[at[k]]>> \notin Similar
                   /\ limit \in 1..size => i <= at[limit]
      <3>1. CASE i \in 1..n
        BY <3>1, <1>3
      <3>2. CASE i = n + 1
        <4>1. \A k \in 1..size : at[k] < i /\ at[k] # i
          BY <1>3, <3>2
        <4>2. CASE Len(rows) >= limit
          <5>1. limit \in 1..size
            BY <1>2, <4>2
          <5>2. ~(i <= at[limit])
            BY <5>1, <1>3, <3>2
          <5> QED
            BY <4>1, <5>1, <5>2
        <4>3. CASE IsDuplicate(rows, story)
          <5>1. PICK k \in 1..size : <<story, rows[k]>> \in Similar
            BY <1>2, <4>3 DEF IsDuplicate, ToSet
          <5>2. <<s[i], s[at[k]]>> \in Similar
            BY <5>1, <1>3, <3>2
          <5> QED
            BY <4>1, <5>2
        <4> QED
          BY <1>4, <4>2, <4>3
      <3> QED
        BY <3>1, <3>2
    <2>4. IsSelectionOf(at, rows, s, n + 1, limit)
      BY <2>2, <2>3, <1>2, <1>3 DEF IsSelectionOf
    <2> QED
      BY <2>1, <2>4, <1>2 DEF SelectedFrom
  <1>5. CASE ~(Len(rows) >= limit) /\ ~IsDuplicate(rows, story)
    <2> DEFINE more == Append(rows, story)
               now == [k \in 1..(size + 1) |-> IF k <= size THEN at[k] ELSE n + 1]
    <2>1. WithStory(rows, story, limit) = more
      BY <1>5 DEF WithStory
    <2>2. /\ more \in Seq(Stories)
          /\ Len(more) = size + 1
          /\ DOMAIN more = 1..(size + 1)
          /\ \A k \in 1..size : more[k] = rows[k]
          /\ more[size + 1] = story
      BY <1>2
    <2>3. Len(more) <= limit
      BY <1>2, <1>5, <2>2
    <2>4. /\ \A k \in 1..size : k \in 1..(size + 1) /\ now[k] = at[k]
          /\ now[size + 1] = n + 1
          /\ DOMAIN now = 1..(size + 1)
      BY <1>2
    <2>5. now \in [1..(size + 1) -> 1..(n + 1)]
      BY <1>2, <1>3
    <2> HIDE DEF more, now
    <2>6. \A k \in 1..(size + 1) : k \in 1..size \/ k = size + 1
      BY <1>2
    <2>7. \A k, m \in 1..(size + 1) : k < m => now[k] < now[m]
      <3> SUFFICES ASSUME NEW k \in 1..(size + 1), NEW m \in 1..(size + 1), k < m
                   PROVE  now[k] < now[m]
        OBVIOUS
      <3>1. k \in 1..size
        BY <1>2
      <3>2. CASE m \in 1..size
        BY <3>1, <3>2, <2>4, <1>3
      <3>3. CASE m = size + 1
        BY <3>1, <3>3, <2>4, <1>3
      <3> QED
        BY <2>6, <3>2, <3>3
    <2>8. \A k \in 1..(size + 1) : more[k] = s[now[k]]
      BY <2>2, <2>4, <2>6, <1>3
    <2>9. ASSUME NEW i \in 1..(n + 1)
          PROVE  (\E k \in 1..(size + 1) : now[k] = i) <=>
                   /\ \A k \in 1..(size + 1) :
                        now[k] < i => <<s[i], s[now[k]]>> \notin Similar
                   /\ limit \in 1..(size + 1) => i <= now[limit]
      <3>1. limit \in 1..(size + 1) => limit = size + 1 /\ now[limit] = n + 1
        BY <1>2, <1>5, <2>4
      <3>2. limit \in 1..(size + 1) => i <= now[limit]
        BY <3>1
      <3>3. limit \notin 1..size
        BY <1>2, <1>5
      <3>4. CASE i \in 1..n
        <4>1. ~(n + 1 < i) /\ n + 1 # i
          BY <3>4
        <4>2. (\E k \in 1..(size + 1) : now[k] = i)
                <=> \E k \in 1..size : at[k] = i
          BY <2>4, <2>6, <4>1
        <4>3. (\A k \in 1..(size + 1) :
                 now[k] < i => <<s[i], s[now[k]]>> \notin Similar)
                <=> \A k \in 1..size :
                      at[k] < i => <<s[i], s[at[k]]>> \notin Similar
          BY <2>4, <2>6, <4>1
        <4> QED
          BY <4>2, <4>3, <3>2, <3>3, <3>4, <1>3
      <3>5. CASE i = n + 1
        <4>1. size + 1 \in 1..(size + 1) /\ now[size + 1] = i
          BY <1>2, <2>4, <3>5
        <4>2. ASSUME NEW k \in 1..(size + 1), now[k] < i
              PROVE  <<s[i], s[now[k]]>> \notin Similar
          <5>1. k \in 1..size
            BY <4>1, <4>2, <2>6, <3>5
          <5>2. rows[k] \in ToSet(rows)
            BY <5>1, <1>2 DEF ToSet
          <5>3. <<story, rows[k]>> \notin Similar
            BY <5>2, <1>5 DEF IsDuplicate
          <5> QED
            BY <5>1, <5>3, <2>4, <1>3, <3>5
        <4> QED
          BY <4>1, <4>2, <3>2
      <3> QED
        BY <3>4, <3>5
    <2>10. IsSelectionOf(now, more, s, n + 1, limit)
      BY <2>2, <2>5, <2>7, <2>8, <2>9 DEF IsSelectionOf
    <2> QED
      BY <2>1, <2>2, <2>3, <2>10 DEF SelectedFrom
  <1> QED
    BY <1>4, <1>5

\* The loop over stories that come after those of first.
LEMMA LoopSelects ==
    ASSUME NEW first \in Seq(Stories), NEW stories \in Seq(Stories),
           NEW limit \in Nat \ {0},
           NEW rows, SelectedFrom(rows, first, Len(first), limit)
    PROVE  SelectedFrom(Merged(rows, stories, limit), first \o stories,
                        Len(first \o stories), limit)
  <1> DEFINE p == Len(first)
             last == Len(stories)
             s == first \o stories
             Good == {pair \in Nat \X Seq(Stories) :
                        SelectedFrom(pair[2], s, p + pair[1], limit)}
  <1>1. p \in Nat /\ last \in Nat
    OBVIOUS
  <1>2. /\ s \in Seq(Stories)
        /\ Len(s) = p + last
        /\ \A i \in 1..p : s[i] = first[i]
        /\ \A i \in 1..last : s[p + i] = stories[i]
    OBVIOUS
  <1> HIDE DEF s, p, last
  <1>3. <<0, rows>> \in Good
    <2>1. PICK at : IsSelectionOf(at, rows, first, p, limit)
      BY DEF SelectedFrom, p
    <2>2. \A k \in DOMAIN rows : at[k] \in 1..p
      BY <2>1 DEF IsSelectionOf
    <2>3. IsSelectionOf(at, rows, s, p, limit)
      BY <2>1, <2>2, <1>2 DEF IsSelectionOf
    <2>4. SelectedFrom(rows, s, p, limit)
      BY <2>3 DEF SelectedFrom
    <2>5. p + 0 = p /\ rows \in Seq(Stories)
      BY <1>1 DEF SelectedFrom
    <2> QED
      BY <2>4, <2>5
  <1>4. ASSUME NEW n \in 0..(last - 1), NEW r, <<n, r>> \in Good
        PROVE  <<n + 1, WithStory(r, stories[n + 1], limit)>> \in Good
    <2> DEFINE next == WithStory(r, stories[n + 1], limit)
    <2>1. SelectedFrom(r, s, p + n, limit)
      BY <1>4
    <2>2. /\ n \in Nat /\ n + 1 \in Nat /\ p + n \in Nat /\ n + 1 \in 1..last
          /\ (p + n) + 1 <= Len(s) /\ (p + n) + 1 = p + (n + 1)
      BY <1>1, <1>2
    <2>3. s[(p + n) + 1] = stories[n + 1]
      BY <1>2, <2>2
    <2>4. SelectedFrom(WithStory(r, s[(p + n) + 1], limit), s, (p + n) + 1, limit)
      BY <2>1, <2>2, <1>2, OneStory
    <2>5. SelectedFrom(next, s, p + (n + 1), limit)
      BY <2>2, <2>3, <2>4
    <2>6. next \in Seq(Stories)
      BY <2>5 DEF SelectedFrom
    <2> HIDE DEF next
    <2>7. <<n + 1, next>> \in Good
      BY <2>2, <2>5, <2>6
    <2> QED
      BY <2>7 DEF next
  <1>5. <<last, Merged(rows, stories, limit)>> \in Good
    <2>1. rows \in Seq(Stories)
      BY DEF SelectedFrom
    <2> HIDE DEF Good
    <2> QED
      BY <2>1, <1>3, <1>4, MergedInduction DEF last
  <1> QED
    BY <1>2, <1>5 DEF s

\* Nothing is selected before the first story.
LEMMA NothingSelected ==
    ASSUME NEW s, NEW limit \in Nat \ {0}
    PROVE  SelectedFrom(<<>>, s, 0, limit)
  <1>1. /\ <<>> \in Seq(Stories)
        /\ Len(<<>>) = 0
        /\ DOMAIN <<>> = {}
    OBVIOUS
  <1>2. IsSelectionOf(<<>>, <<>>, s, 0, limit)
    BY <1>1 DEF IsSelectionOf
  <1> QED
    BY <1>1, <1>2 DEF SelectedFrom

\* The loop from the beginning.
LEMMA FirstLoopSelects ==
    ASSUME NEW stories \in Seq(Stories), NEW limit \in Nat \ {0}
    PROVE  SelectedFrom(Merged(<<>>, stories, limit), stories, Len(stories), limit)
  <1>1. <<>> \in Seq(Stories) /\ Len(<<>>) = 0 /\ <<>> \o stories = stories
    OBVIOUS
  <1>2. SelectedFrom(<<>>, <<>>, Len(<<>>), limit)
    BY <1>1, NothingSelected
  <1> QED
    BY <1>1, <1>2, LoopSelects

\* From no stories nothing is selected.
LEMMA NoneFromNone ==
    ASSUME NEW rows, NEW limit, SelectedFrom(rows, <<>>, 0, limit)
    PROVE  rows = <<>>
  <1>1. PICK at : IsSelectionOf(at, rows, <<>>, 0, limit)
    BY DEF SelectedFrom
  <1>2. rows \in Seq(Stories) /\ DOMAIN rows = 1..Len(rows) /\ Len(rows) \in Nat
    BY DEF SelectedFrom
  <1>3. DOMAIN rows = {}
    BY <1>1 DEF IsSelectionOf
  <1>4. Len(rows) = 0
    <2>1. ASSUME NEW n \in Nat, 1..n = {} PROVE n = 0
      <3>1. 1 \notin 1..n
        BY <2>1
      <3> QED
        BY <3>1
    <2> QED
      BY <2>1, <1>2, <1>3
  <1> QED
    BY <1>2, <1>4

-----------------------------------------------------------------------------
(* One call                                                                *)

\* What a provider gave: a text of its own, or an error.
Given(provider) == TextsOf(provider) \cup {HttpError}

\* The stories of an outcome.
LEMMA OutcomeStories ==
    ASSUME NEW outcome \in Outcomes
    PROVE  outcome.stories \in Seq(Stories)
  <1>1. <<>> \in Seq(Stories)
    OBVIOUS
  <1>2. CASE outcome \in {NotAsked, HttpError}
    <2>1. NotAsked.stories = <<>> /\ HttpError.stories = <<>>
      BY DEF NotAsked, HttpError, Broken
    <2> QED
      BY <2>1, <1>1, <1>2
  <1>3. CASE outcome \in Values
    <2>1. \/ outcome \in Texts({"ParseError", "ValueError"})
          \/ outcome \in Texts({"RuntimeError", "ValueError"})
      BY <1>3, TextsAssumption
    <2> QED
      BY <2>1 DEF Texts
  <1> QED
    BY <1>2, <1>3 DEF Outcomes

\* What a call that is not over knows.
Underway(c) ==
    /\ c.yahoo = NotAsked
    /\ c.raised = "nothing"
    /\ c.source # "auto" \/ c.provider = "google" => c.google = NotAsked
    /\ c.source = "auto" /\ c.provider = "yahoo" =>
         /\ c.google \in Given("google")
         /\ c.google.raises = "nothing" \/ Caught("google", c.google.raises)
         /\ SelectedFrom(c.rows, c.google.stories, Len(c.google.stories), c.limit)

\* AutoMergesBoth and RaisesWhenBothFail, of one call.
MergesBoth(c) ==
    LET offered == c.google.stories \o c.yahoo.stories
    IN  Ended(c) /\ c.raised = "nothing" =>
          SelectedFrom(c.rows, offered, Len(offered), c.limit)

TellsFailure(c) ==
    Ended(c) /\ c.raised # "ValueError" =>
      (c.raised # "nothing" <=> Failed(c.google) /\ Failed(c.yahoo))

CallOK(c) ==
    /\ c \in CallRecords
    /\ Len(c.rows) <= c.limit
    /\ c.phase # "over" => Underway(c)
    /\ MergesBoth(c)
    /\ TellsFailure(c)

\* What the assumptions say of a text or an error that a provider gave.
LEMMA GivenTexts ==
    ASSUME NEW provider \in Providers, NEW text \in Given(provider)
    PROVE  /\ text \in Outcomes
           /\ text.stories \in Seq(Stories)
           /\ text.raises # "nothing" => text.stories = <<>>
           /\ text.raises \in {"nothing", "HTTPError", "ParseError", "ValueError",
                               "RuntimeError"}
           /\ text # NotAsked
           /\ provider = "yahoo" => text.raises # "ParseError"
           /\ provider = "google" => text.raises # "RuntimeError"
  <1>1. CASE text = HttpError
    <2>1. /\ text.raises = "HTTPError" /\ text.stories = <<>>
          /\ NotAsked.raises = "not asked"
      BY <1>1 DEF HttpError, NotAsked, Broken
    <2>2. text \in Outcomes
      BY <1>1 DEF Outcomes
    <2>3. <<>> \in Seq(Stories)
      OBVIOUS
    <2>4. text # NotAsked
      BY <2>1
    <2> QED
      BY <2>1, <2>2, <2>3, <2>4
  <1>2. CASE text \in TextsOf(provider)
    <2>1. /\ text \in GoogleTexts \/ text \in YahooTexts
          /\ provider = "yahoo" => text \in YahooTexts
          /\ provider = "google" => text \in GoogleTexts
      BY <1>2 DEF TextsOf, Providers
    <2>2. /\ text \in GoogleTexts => text \in Texts({"ParseError", "ValueError"})
          /\ text \in YahooTexts => text \in Texts({"RuntimeError", "ValueError"})
          /\ text \in Values
          /\ text.raises # "nothing" => text.stories = <<>>
      BY <2>1, TextsAssumption
    <2>3. NotAsked.raises = "not asked"
      BY DEF NotAsked, Broken
    <2> QED
      BY <2>1, <2>2, <2>3 DEF Outcomes, Texts
  <1> QED
    BY <1>1, <1>2 DEF Given

\* The fields of a call.
LEMMA Fields ==
    ASSUME NEW c \in CallRecords
    PROVE  /\ c.phase \in {"look up", "wait", "over"}
           /\ c.provider \in Providers /\ c.source \in Sources
           /\ c.limit \in Nat \ {0} /\ c.limit \in 1..MaxLimit
           /\ c.google \in Outcomes /\ c.yahoo \in Outcomes
           /\ c.rows \in Seq(Stories)
           /\ c.raised \in {"nothing"} \cup Exceptions
  <1>1. MaxLimit \in Nat /\ c.limit \in 1..MaxLimit
    BY TextsAssumption DEF CallRecords
  <1>2. c.limit \in Nat \ {0}
    BY <1>1
  <1> QED
    BY <1>1, <1>2 DEF CallRecords

\* Nothing came of a provider that was not asked.
LEMMA NothingOfNotAsked ==
    /\ NotAsked.raises = "not asked" /\ NotAsked.stories = <<>>
    /\ ~Failed(NotAsked)
  BY DEF NotAsked, Broken, Failed

\* A call that ends with an exception has no rows to answer for.
LEMMA RaisesOK ==
    ASSUME NEW c \in CallRecords, NEW error \in Exceptions,
           \/ c.source # "auto"
           \/ error \in {"ValueError", "CancelledError"}
           \/ Failed(c.google) /\ Failed(c.yahoo)
    PROVE  CallOK(Raises(c, error))
  <1> DEFINE d == Raises(c, error)
  <1>1. /\ d \in CallRecords
        /\ d.phase = "over" /\ d.raised = error /\ d.source = c.source
        /\ d.google = c.google /\ d.yahoo = c.yahoo
        /\ d.rows = <<>> /\ d.limit = c.limit
    <2>1. <<>> \in Seq(Stories)
      OBVIOUS
    <2> QED
      BY <2>1 DEF Raises, CallRecords
  <1>2. error # "nothing"
    BY DEF Exceptions
  <1>3. c.limit \in Nat /\ Len(<<>>) = 0
    BY Fields
  <1> HIDE DEF d
  <1>4. Len(d.rows) <= d.limit
    BY <1>1, <1>3
  <1>5. MergesBoth(d)
    BY <1>1, <1>2 DEF MergesBoth
  <1>6. TellsFailure(d)
    BY <1>1, <1>2 DEF TellsFailure, Ended
  <1> QED
    BY <1>1, <1>4, <1>5, <1>6 DEF CallOK, d

\* A call that returns what it must.
LEMMA ReturnsOK ==
    ASSUME NEW c \in CallRecords, c.raised = "nothing",
           NEW rows \in Seq(Stories), Len(rows) <= c.limit,
           c.source = "auto" =>
             /\ SelectedFrom(rows, c.google.stories \o c.yahoo.stories,
                             Len(c.google.stories \o c.yahoo.stories), c.limit)
             /\ ~(Failed(c.google) /\ Failed(c.yahoo))
    PROVE  CallOK(Returns(c, rows))
  <1> DEFINE d == Returns(c, rows)
  <1>1. /\ d \in CallRecords
        /\ d.phase = "over" /\ d.raised = "nothing" /\ d.source = c.source
        /\ d.google = c.google /\ d.yahoo = c.yahoo
        /\ d.rows = rows /\ d.limit = c.limit
    BY DEF Returns, CallRecords
  <1> HIDE DEF d
  <1>2. MergesBoth(d)
    BY <1>1 DEF MergesBoth, Ended
  <1>3. TellsFailure(d)
    BY <1>1 DEF TellsFailure, Ended
  <1> QED
    BY <1>1, <1>2, <1>3 DEF CallOK, d

\* The call with what its provider gave.
LEMMA AfterGoogleOK ==
    ASSUME NEW c \in CallRecords, c.source = "auto", c.phase # "over",
           c.raised = "nothing", c.yahoo = NotAsked,
           NEW text \in Given("google"), c.google = text
    PROVE  CallOK(AfterGoogle(c, text))
  <1> DEFINE selected == Merged(<<>>, text.stories, c.limit)
             n == Len(text.stories)
  <1>1. /\ text.stories \in Seq(Stories)
        /\ text.raises # "nothing" => text.stories = <<>>
        /\ text.raises \in {"nothing", "HTTPError", "ParseError", "ValueError",
                            "RuntimeError"}
    BY GivenTexts DEF Providers
  <1>2. c.limit \in Nat \ {0}
    BY Fields
  <1>3. SelectedFrom(selected, text.stories, n, c.limit)
    BY <1>1, <1>2, FirstLoopSelects
  <1>4. selected \in Seq(Stories) /\ Len(selected) <= c.limit
    BY <1>3 DEF SelectedFrom
  <1> HIDE DEF selected
  <1>5. CASE text.raises # "nothing" /\ ~Caught("google", text.raises)
    <2>1. text.raises = "ValueError"
      BY <1>1, <1>5 DEF Caught
    <2>2. AfterGoogle(c, text) = Raises(c, "ValueError")
      BY <1>5, <2>1 DEF AfterGoogle
    <2> QED
      BY <2>2, RaisesOK DEF Exceptions
  <1>6. CASE ~(text.raises # "nothing" /\ ~Caught("google", text.raises))
             /\ Len(selected) >= c.limit
    <2>1. AfterGoogle(c, text) = Returns(c, selected)
      BY <1>6 DEF AfterGoogle, selected
    <2>2. c.google.stories \o c.yahoo.stories = text.stories
      <3>1. text.stories \o <<>> = text.stories
        BY <1>1
      <3> QED
        BY <3>1, NothingOfNotAsked
    <2>3. ~Failed(c.yahoo)
      BY NothingOfNotAsked
    <2> QED
      BY <2>1, <2>2, <2>3, <1>3, <1>4, ReturnsOK
  <1>7. CASE ~(text.raises # "nothing" /\ ~Caught("google", text.raises))
             /\ ~(Len(selected) >= c.limit)
    <2> DEFINE d == [c EXCEPT !.phase = "look up", !.provider = "yahoo",
                              !.rows = selected]
    <2>1. AfterGoogle(c, text) = d
      BY <1>7 DEF AfterGoogle, selected
    <2>2. /\ d \in CallRecords
          /\ d.phase = "look up" /\ d.provider = "yahoo" /\ d.rows = selected
          /\ d.limit = c.limit /\ d.source = "auto" /\ d.raised = "nothing"
          /\ d.google = text /\ d.yahoo = NotAsked
      BY <1>4 DEF CallRecords, Providers
    <2> HIDE DEF d
    <2>3. Underway(d)
      BY <2>2, <1>3, <1>7 DEF Underway
    <2>4. MergesBoth(d) /\ TellsFailure(d)
      BY <2>2 DEF MergesBoth, TellsFailure, Ended
    <2> QED
      BY <2>1, <2>2, <2>3, <2>4, <1>4 DEF CallOK
  <1> QED
    BY <1>5, <1>6, <1>7

\* When Yahoo has answered too the rows are those of both, and the call raises
\* only if nothing came from either.
LEMMA AfterYahooOK ==
    ASSUME NEW c \in CallRecords, c.source = "auto",
           c.raised = "nothing", Len(c.rows) <= c.limit,
           NEW text \in Given("yahoo"), c.yahoo = text,
           c.google \in Given("google"),
           c.google.raises = "nothing" \/ Caught("google", c.google.raises),
           SelectedFrom(c.rows, c.google.stories, Len(c.google.stories), c.limit)
    PROVE  CallOK(AfterYahoo(c, text))
  <1> DEFINE offered == c.google.stories \o text.stories
  <1>1. /\ text.stories \in Seq(Stories)
        /\ text.raises # "nothing" => text.stories = <<>>
        /\ text.raises \in {"nothing", "HTTPError", "ValueError", "RuntimeError"}
    BY GivenTexts DEF Providers
  <1>2. /\ c.google.stories \in Seq(Stories)
        /\ c.google.raises # "nothing" => c.google.stories = <<>>
    BY GivenTexts DEF Providers
  <1>3. c.limit \in Nat \ {0} /\ c.rows \in Seq(Stories)
    BY Fields
  <1>4. CASE text.raises = "nothing"
    <2> DEFINE rows == Merged(c.rows, text.stories, c.limit)
    <2>1. AfterYahoo(c, text) = Returns(c, rows)
      BY <1>4 DEF AfterYahoo
    <2>2. SelectedFrom(rows, offered, Len(offered), c.limit)
      BY <1>1, <1>2, <1>3, LoopSelects
    <2>3. rows \in Seq(Stories) /\ Len(rows) <= c.limit
      BY <2>2 DEF SelectedFrom
    <2>4. ~Failed(c.yahoo)
      BY <1>4 DEF Failed
    <2> HIDE DEF rows
    <2> QED
      BY <2>1, <2>2, <2>3, <2>4, ReturnsOK
  <1>5. CASE text.raises # "nothing" /\ ~Caught("yahoo", text.raises)
    <2>1. text.raises = "ValueError"
      BY <1>1, <1>5 DEF Caught
    <2>2. AfterYahoo(c, text) = Raises(c, "ValueError")
      BY <1>5, <2>1 DEF AfterYahoo
    <2> QED
      BY <2>2, RaisesOK DEF Exceptions
  <1>6. CASE text.raises # "nothing" /\ Caught("yahoo", text.raises) /\ HasAnswer(c)
    <2>1. AfterYahoo(c, text) = Returns(c, c.rows)
      BY <1>6 DEF AfterYahoo
    <2>2. offered = c.google.stories
      <3>1. c.google.stories \o <<>> = c.google.stories
        BY <1>2
      <3> QED
        BY <3>1, <1>1, <1>6
    <2>3. c.google.raises = "nothing"
      <3>1. CASE c.rows # <<>>
        <4>1. c.google.stories # <<>>
          <5>1. Len(<<>>) = 0
            OBVIOUS
          <5> QED
            BY <3>1, <5>1, NoneFromNone
        <4> QED
          BY <4>1, <1>2
      <3> QED
        BY <3>1, <1>6 DEF HasAnswer
    <2>4. ~Failed(c.google)
      BY <2>3 DEF Failed
    <2> QED
      BY <2>1, <2>2, <2>4, <1>3, ReturnsOK
  <1>7. CASE text.raises # "nothing" /\ Caught("yahoo", text.raises) /\ ~HasAnswer(c)
    <2>1. AfterYahoo(c, text) = Raises(c, "both failed")
      BY <1>7 DEF AfterYahoo
    <2>2. Failed(c.yahoo)
      BY <1>7 DEF Failed, Caught
    <2>3. Failed(c.google)
      BY <1>7 DEF HasAnswer, Failed, Caught
    <2> QED
      BY <2>1, <2>2, <2>3, RaisesOK DEF Exceptions
  <1> QED
    BY <1>4, <1>5, <1>6, <1>7

\* A call of one source keeps at most its limit of rows.
LEMMA AfterOnlyOK ==
    ASSUME NEW c \in CallRecords, c.source # "auto", c.raised = "nothing",
           NEW provider \in Providers, NEW text \in Given(provider)
    PROVE  CallOK(AfterOnly(c, text))
  <1>1. /\ text.stories \in Seq(Stories)
        /\ text.raises \in {"nothing", "HTTPError", "ParseError", "ValueError",
                            "RuntimeError"}
    BY GivenTexts
  <1>2. c.limit \in Nat
    BY Fields
  <1>3. CASE text.raises = "nothing"
    <2> DEFINE rows == Truncated(text.stories, c.limit)
               n == IF Len(text.stories) < c.limit THEN Len(text.stories)
                    ELSE c.limit
    <2>1. n \in Nat /\ n <= c.limit /\ n <= Len(text.stories)
      BY <1>1, <1>2
    <2>2. rows = SubSeq(text.stories, 1, n)
      BY DEF Truncated
    <2> HIDE DEF n
    <2>3. rows \in Seq(Stories) /\ Len(rows) = n
      BY <2>1, <2>2, <1>1
    <2>4. AfterOnly(c, text) = Returns(c, rows)
      BY <1>3 DEF AfterOnly
    <2> HIDE DEF rows
    <2> QED
      BY <2>1, <2>3, <2>4, ReturnsOK
  <1>4. CASE text.raises # "nothing"
    <2>1. AfterOnly(c, text) = Raises(c, text.raises)
      BY <1>4 DEF AfterOnly
    <2>2. text.raises \in Exceptions
      BY <1>1, <1>4 DEF Exceptions
    <2> QED
      BY <2>1, <2>2, RaisesOK
  <1> QED
    BY <1>3, <1>4

\* Whatever its provider gives, a call goes on as it must.
LEMMA AfterOK ==
    ASSUME NEW c, CallOK(c), c.phase # "over", NEW text \in Given(c.provider)
    PROVE  CallOK(After(c, text))
  <1>1. c \in CallRecords /\ Underway(c) /\ Len(c.rows) <= c.limit
    BY DEF CallOK
  <1>2. c.provider \in Providers /\ text \in Outcomes
    BY <1>1, Fields, GivenTexts
  <1> DEFINE d == IF c.provider = "google" THEN [c EXCEPT !.google = text]
                                           ELSE [c EXCEPT !.yahoo = text]
  <1>3. /\ d \in CallRecords
        /\ d.phase = c.phase /\ d.source = c.source /\ d.raised = "nothing"
        /\ d.rows = c.rows /\ d.limit = c.limit
        /\ c.provider = "google" => d.google = text /\ d.yahoo = c.yahoo
        /\ c.provider # "google" => d.yahoo = text /\ d.google = c.google
    BY <1>1, <1>2 DEF CallRecords, Underway
  <1>4. After(c, text) = IF c.source # "auto" THEN AfterOnly(d, text)
                         ELSE IF c.provider = "google" THEN AfterGoogle(d, text)
                         ELSE AfterYahoo(d, text)
    BY DEF After
  <1> HIDE DEF d
  <1>5. CASE c.source # "auto"
    BY <1>2, <1>3, <1>4, <1>5, AfterOnlyOK
  <1>6. CASE c.source = "auto" /\ c.provider = "google"
    <2>1. c.yahoo = NotAsked
      BY <1>1 DEF Underway
    <2> QED
      BY <2>1, <1>3, <1>4, <1>6, AfterGoogleOK
  <1>7. CASE c.source = "auto" /\ c.provider = "yahoo"
    <2>1. /\ c.google \in Given("google")
          /\ c.google.raises = "nothing" \/ Caught("google", c.google.raises)
          /\ SelectedFrom(c.rows, c.google.stories, Len(c.google.stories), c.limit)
      BY <1>1, <1>7 DEF Underway
    <2> QED
      BY <2>1, <1>1, <1>3, <1>4, <1>7, AfterYahooOK
  <1> QED
    BY <1>2, <1>5, <1>6, <1>7 DEF Providers

-----------------------------------------------------------------------------
(* The invariant                                                           *)

\* A cached text is one that its provider gave and that may be cached.
RightText(e) == e.value \in TextsOf(e.key) /\ Cacheable(e.value)

NewsInv ==
    /\ CacheTypeOK
    /\ \A e \in ToSet(entries) : RightText(e)
    /\ DOMAIN fetch = Callers
    /\ fetch = [t \in Callers |-> fetch[t]]
    /\ \A t \in Callers : CallOK(fetch[t])

\* A step of one call that leaves the others and the cache as they must be.
LEMMA OneCallMoves ==
    ASSUME NewsInv, NEW t \in Callers, NEW d, CallOK(d),
           fetch' = [fetch EXCEPT ![t] = d],
           CacheTypeOK', \A e \in ToSet(entries') : RightText(e)
    PROVE  NewsInv'
  <1>1. /\ DOMAIN fetch' = Callers
        /\ fetch' = [u \in Callers |-> fetch'[u]]
        /\ \A u \in Callers : fetch'[u] = IF u = t THEN d ELSE fetch[u]
    BY DEF NewsInv
  <1>2. \A u \in Callers : CallOK(fetch'[u])
    BY <1>1 DEF NewsInv
  <1> QED
    BY <1>1, <1>2 DEF NewsInv

\* What a lookup finds is a text of the provider that was asked.
LEMMA HitsAreTexts ==
    ASSUME NewsInv, NEW key, Lookup(key) # None
    PROVE  Lookup(key) \in TextsOf(key) /\ Cacheable(Lookup(key))
  BY LookingUp DEF NewsInv, RightText

\* The numbers from 1 on are natural.
LEMMA IntervalIsNatural ==
    ASSUME NEW n \in Nat, NEW k \in 1..n
    PROVE  k \in Nat /\ 0 <= k
  OBVIOUS

\* A call begins with nothing told and no rows.
LEMMA StartsOK ==
    ASSUME NEW source \in Sources, NEW limit \in 1..MaxLimit,
           NEW phase \in {"look up", "over"}
    PROVE  CallOK(NewCall(phase, source, limit))
  <1>1. <<>> \in Seq(Stories) /\ Len(<<>>) = 0 /\ limit \in Nat /\ 0 <= limit
    <2>1. MaxLimit \in Nat
      BY TextsAssumption
    <2>2. limit \in Nat /\ 0 <= limit
      BY <2>1, IntervalIsNatural
    <2>3. <<>> \in Seq(Stories) /\ Len(<<>>) = 0
      BY EmptySeq
    <2> QED
      BY <2>1, <2>2, <2>3
  <1>2. NotAsked \in Outcomes
    BY DEF Outcomes
  <1> DEFINE d == NewCall(phase, source, limit)
  <1>3. /\ d.phase = phase /\ d.source = source /\ d.limit = limit
        /\ d.google = NotAsked /\ d.yahoo = NotAsked /\ d.rows = <<>>
        /\ d.raised = "nothing"
        /\ d.provider = IF source = "yahoo" THEN "yahoo" ELSE "google"
    BY DEF NewCall
  <1>4. d \in CallRecords
    BY <1>1, <1>2 DEF NewCall, CallRecords, Providers
  <1> HIDE DEF d
  <1>5. Underway(d)
    BY <1>3 DEF Underway
  <1>6. MergesBoth(d) /\ TellsFailure(d)
    BY <1>3 DEF MergesBoth, TellsFailure, Ended
  <1> QED
    BY <1>1, <1>3, <1>4, <1>5, <1>6 DEF CallOK, d

\* The phase of a call says nothing of what it knows, while it is under way.
LEMMA WaitsOK ==
    ASSUME NEW c, CallOK(c), c.phase = "look up"
    PROVE  CallOK([c EXCEPT !.phase = "wait"])
  <1> DEFINE d == [c EXCEPT !.phase = "wait"]
  <1>1. c \in CallRecords /\ Underway(c) /\ Len(c.rows) <= c.limit
    BY DEF CallOK
  <1>2. /\ d \in CallRecords
        /\ d.phase = "wait" /\ d.source = c.source /\ d.raised = c.raised
        /\ d.google = c.google /\ d.yahoo = c.yahoo /\ d.rows = c.rows
        /\ d.limit = c.limit /\ d.provider = c.provider
    BY <1>1 DEF CallRecords
  <1> HIDE DEF d
  <1>3. Underway(d)
    BY <1>1, <1>2 DEF Underway
  <1>4. MergesBoth(d) /\ TellsFailure(d)
    BY <1>2 DEF MergesBoth, TellsFailure, Ended
  <1> QED
    BY <1>1, <1>2, <1>3, <1>4 DEF CallOK, d

\* A hit is a text of the provider, so a lookup goes on as an answer does.
LEMMA LookUpKeeps ==
    ASSUME NewsInv, NEW t \in Callers, LookUp(t)
    PROVE  NewsInv'
  <1> DEFINE c == fetch[t]
             hit == Lookup(c.provider)
             d == IF hit # None THEN After(c, hit) ELSE [c EXCEPT !.phase = "wait"]
  <1>1. /\ c.phase = "look up"
        /\ fetch' = [fetch EXCEPT ![t] = d]
        /\ Get(c.provider)
    BY DEF LookUp
  <1>2. CallOK(c)
    BY DEF NewsInv
  <1>3. CASE hit # None
    <2>1. hit \in Given(c.provider)
      BY <1>3, HitsAreTexts DEF Given
    <2> HIDE DEF c, hit
    <2> QED
      <3>1. CallOK(After(c, hit))
        BY <1>1, <1>2, <2>1, AfterOK
      <3>2. d = After(c, hit)
        BY <1>3
      <3>3. CacheTypeOK' /\ ToSet(entries') \subseteq ToSet(entries)
        BY <1>1, GetKeeps DEF NewsInv
      <3> HIDE DEF d
      <3> QED
        BY <1>1, <3>1, <3>2, <3>3, OneCallMoves DEF NewsInv
  <1>4. CASE hit = None
    <2>1. CallOK(d)
      BY <1>1, <1>2, <1>4, WaitsOK
    <2>2. CacheTypeOK' /\ ToSet(entries') \subseteq ToSet(entries)
      BY <1>1, GetKeeps DEF NewsInv
    <2> HIDE DEF c, hit, d
    <2> QED
      BY <1>1, <2>1, <2>2, OneCallMoves DEF NewsInv
  <1> QED
    BY <1>3, <1>4

\* An answer goes on as a text of the provider, which may be cached first.
LEMMA AnswerKeeps ==
    ASSUME NewsInv, NEW t \in Callers, Answer(t)
    PROVE  NewsInv'
  <1> DEFINE c == fetch[t]
  <1>1. c.phase = "wait"
    BY DEF Answer
  <1>2. PICK text \in TextsOf(c.provider) :
          /\ fetch' = [fetch EXCEPT ![t] = After(c, text)]
          /\ IF Cacheable(text) THEN Set(c.provider, text) ELSE UNCHANGED cacheVars
    BY DEF Answer
  <1>3. CallOK(c) /\ c \in CallRecords
    BY DEF NewsInv, CallOK
  <1>4. CallOK(After(c, text))
    BY <1>1, <1>2, <1>3, AfterOK DEF Given
  <1>5. CacheTypeOK' /\ \A e \in ToSet(entries') : RightText(e)
    <2>1. CASE Cacheable(text)
      <3>1. c.provider \in Keys /\ text \in Values
        BY <1>2, <1>3, Fields, TextsAssumption DEF TextsOf, Providers
      <3>2. /\ CacheTypeOK'
            /\ \A e \in ToSet(entries') :
                 \/ e \in ToSet(entries)
                 \/ e.key = c.provider /\ e.value = text
        BY <1>2, <2>1, <3>1, SetKeeps DEF NewsInv
      <3> QED
        BY <1>2, <2>1, <3>2 DEF NewsInv, RightText
    <2>2. CASE ~Cacheable(text)
      BY <1>2, <2>2, CacheUnchanged DEF NewsInv
    <2> QED
      BY <2>1, <2>2
  <1> QED
    BY <1>2, <1>4, <1>5, OneCallMoves

\* The cache stays typed while it stays as it is.
LEMMA QuietCache ==
    ASSUME NewsInv, UNCHANGED cacheVars
    PROVE  CacheTypeOK' /\ \A e \in ToSet(entries') : RightText(e)
  BY CacheUnchanged DEF NewsInv

\* A call of fetch_news leaves the others and the cache alone.
LEMMA FetchNewsKeeps ==
    ASSUME NewsInv, NEW t \in Callers, NEW source \in Sources,
           NEW limit \in 1..MaxLimit, FetchNews(t, source, limit)
    PROVE  NewsInv'
  BY StartsOK, QuietCache, OneCallMoves DEF FetchNews

\* A request that failed goes on as an error of the client.
LEMMA FailureKeeps ==
    ASSUME NewsInv, NEW t \in Callers, Failure(t)
    PROVE  NewsInv'
  <1>1. /\ fetch' = [fetch EXCEPT ![t] = After(fetch[t], HttpError)]
        /\ UNCHANGED cacheVars
        /\ fetch[t].phase # "over"
    BY DEF Failure
  <1>2. CallOK(After(fetch[t], HttpError))
    BY <1>1, AfterOK DEF NewsInv, Given
  <1> QED
    BY <1>1, <1>2, QuietCache, OneCallMoves

\* A call that is cancelled ends without an answer.
LEMMA CancelKeeps ==
    ASSUME NewsInv, NEW t \in Callers, Cancel(t)
    PROVE  NewsInv'
  <1>1. /\ fetch' = [fetch EXCEPT ![t] = Raises(fetch[t], "CancelledError")]
        /\ UNCHANGED cacheVars
    BY DEF Cancel
  <1>2. CallOK(Raises(fetch[t], "CancelledError"))
    BY RaisesOK DEF NewsInv, CallOK, Exceptions
  <1> QED
    BY <1>1, <1>2, QuietCache, OneCallMoves

\* Time changes no call and no entry.
LEMMA TickKeepsNews ==
    ASSUME NewsInv, Tick \/ UNCHANGED vars
    PROVE  NewsInv'
  <1>1. CASE Tick
    <2>1. CacheTypeOK' /\ entries' = entries /\ fetch' = fetch
      BY <1>1, TickKeeps DEF NewsInv, Tick
    <2> QED
      BY <2>1 DEF NewsInv
  <1>2. CASE UNCHANGED vars
    <2>1. CacheTypeOK' /\ entries' = entries /\ fetch' = fetch
      BY <1>2, CacheUnchanged DEF NewsInv, vars
    <2> QED
      BY <2>1 DEF NewsInv
  <1> QED
    BY <1>1, <1>2

\* The invariant is inductive, so it holds in every reachable state.
LEMMA NewsInvariant == Spec => []NewsInv
  <1>1. Init => NewsInv
    <2> SUFFICES ASSUME Init PROVE NewsInv
      OBVIOUS
    <2>1. /\ entries = <<>> /\ time = 0
          /\ fetch = [t \in Callers |-> NewCall("over", "auto", MaxLimit)]
      BY DEF Init, CacheInit
    <2>2. CacheTypeOK /\ ToSet(entries) = {}
      BY <2>1, CacheAssumption DEF CacheTypeOK, ToSet
    <2>3. CallOK(NewCall("over", "auto", MaxLimit))
      <3>1. MaxLimit \in 1..MaxLimit /\ "auto" \in Sources
        BY TextsAssumption DEF Sources
      <3> QED
        BY <3>1, StartsOK
    <2> QED
      BY <2>1, <2>2, <2>3 DEF NewsInv
  <1>2. NewsInv /\ [Next]_vars => NewsInv'
    <2> SUFFICES ASSUME NewsInv, [Next]_vars PROVE NewsInv'
      OBVIOUS
    <2>1. CASE Tick \/ UNCHANGED vars
      BY <2>1, TickKeepsNews
    <2>2. ASSUME NEW t \in Callers, NEW source \in Sources,
                 NEW limit \in 1..MaxLimit, FetchNews(t, source, limit)
          PROVE  NewsInv'
      BY <2>2, FetchNewsKeeps
    <2>3. ASSUME NEW t \in Callers, LookUp(t) PROVE NewsInv'
      BY <2>3, LookUpKeeps
    <2>4. ASSUME NEW t \in Callers, Answer(t) PROVE NewsInv'
      BY <2>4, AnswerKeeps
    <2>5. ASSUME NEW t \in Callers, Failure(t) PROVE NewsInv'
      BY <2>5, FailureKeeps
    <2>6. ASSUME NEW t \in Callers, Cancel(t) PROVE NewsInv'
      BY <2>6, CancelKeeps
    <2> QED
      BY <2>1, <2>2, <2>3, <2>4, <2>5, <2>6 DEF Next
  <1> QED
    BY <1>1, <1>2, PTL DEF Spec

-----------------------------------------------------------------------------
(* The theorems                                                            *)

\* The cache and the calls are well formed; no call returns more rows than its
\* limit.
THEOREM TypeCorrect == Spec => []TypeOK
  <1>1. NewsInv => TypeOK
    BY DEF NewsInv, CallOK, TypeOK
  <1> QED
    BY <1>1, NewsInvariant, PTL

\* For any relation of similar stories, a call of both sources returns the first
\* distinct stories of Google followed by Yahoo, up to the limit.
THEOREM MergeIsRight == Spec => []AutoMergesBoth
  <1>1. NewsInv => AutoMergesBoth
    <2> SUFFICES ASSUME NewsInv, NEW t \in Callers,
                        Ended(fetch[t]), fetch[t].raised = "nothing"
                 PROVE  LET c == fetch[t]
                            offered == c.google.stories \o c.yahoo.stories
                        IN  \E at \in [DOMAIN c.rows -> DOMAIN offered] :
                              /\ IsSelection(at, offered, c.limit)
                              /\ \A n \in DOMAIN at : c.rows[n] = offered[at[n]]
      BY DEF AutoMergesBoth
    <2> DEFINE c == fetch[t]
               offered == c.google.stories \o c.yahoo.stories
    <2>1. SelectedFrom(c.rows, offered, Len(offered), c.limit)
      BY DEF NewsInv, CallOK, MergesBoth
    <2>2. PICK at : IsSelectionOf(at, c.rows, offered, Len(offered), c.limit)
      BY <2>1 DEF SelectedFrom
    <2>3. DOMAIN offered = 1..Len(offered)
      <3>1. c \in CallRecords
        BY DEF NewsInv, CallOK
      <3>2. c.google.stories \in Seq(Stories) /\ c.yahoo.stories \in Seq(Stories)
        BY <3>1, Fields, OutcomeStories
      <3> QED
        BY <3>2
    <2> HIDE DEF offered, c
    <2>4. at \in [DOMAIN c.rows -> DOMAIN offered]
      BY <2>2, <2>3 DEF IsSelectionOf
    <2>5. DOMAIN at = DOMAIN c.rows
      BY <2>4
    <2>6. \A i : i \in ToSet(at) <=> \E k \in DOMAIN c.rows : at[k] = i
      BY <2>5 DEF ToSet
    <2>7. IsSelection(at, offered, c.limit)
      BY <2>2, <2>3, <2>5, <2>6 DEF IsSelection, IsSelectionOf
    <2>8. \A n \in DOMAIN at : c.rows[n] = offered[at[n]]
      BY <2>2, <2>5 DEF IsSelectionOf
    <2> QED
      BY <2>4, <2>7, <2>8 DEF offered, c
  <1> QED
    BY <1>1, NewsInvariant, PTL

\* But for a ValueError, a call of both sources raises exactly when both failed.
THEOREM FailuresAreTold == Spec => []RaisesWhenBothFail
  <1>1. NewsInv => RaisesWhenBothFail
    BY DEF NewsInv, CallOK, TellsFailure, RaisesWhenBothFail
  <1> QED
    BY <1>1, NewsInvariant, PTL

\* No call learns from the cache that Yahoo is down.
THEOREM OutagesAreForgotten == Spec => OutageIsNotCached
  <1> DEFINE Forgets ==
        \A t \in Callers :
          fetch[t].phase = "look up" =>
            /\ fetch'[t].yahoo.raises # "RuntimeError"
            /\ fetch'[t].google.raises # "RuntimeError"
  <1>1. NewsInv /\ [Next]_vars => [Forgets]_vars
    <2> SUFFICES ASSUME NewsInv, [Next]_vars,
                        NEW t \in Callers, fetch[t].phase = "look up"
                 PROVE  /\ fetch'[t].yahoo.raises # "RuntimeError"
                        /\ fetch'[t].google.raises # "RuntimeError"
      OBVIOUS
    <2> DEFINE c == fetch[t]
    <2>1. c \in CallRecords /\ Underway(c)
      BY DEF NewsInv, CallOK
    <2>2. c.yahoo.raises # "RuntimeError" /\ c.google.raises # "RuntimeError"
      <3>1. c.yahoo.raises # "RuntimeError"
        BY <2>1, NothingOfNotAsked DEF Underway
      <3>2. c.google = NotAsked \/ c.google \in Given("google")
        BY <2>1, Fields DEF Underway, Providers
      <3>3. c.google.raises # "RuntimeError"
        BY <3>2, NothingOfNotAsked, GivenTexts DEF Providers
      <3> QED
        BY <3>1, <3>3
    <2>3. CASE LookUp(t)
      <3> DEFINE hit == Lookup(c.provider)
      <3>1. fetch'[t] = IF hit # None THEN After(c, hit)
                        ELSE [c EXCEPT !.phase = "wait"]
        BY <2>3 DEF LookUp, NewsInv
      <3>2. CASE hit # None
        <4>1. hit.raises # "RuntimeError"
          BY <3>2, HitsAreTexts DEF Cacheable
        <4>2. \A r \in {"google", "yahoo"} :
                \/ After(c, hit)[r] = hit
                \/ After(c, hit)[r] = c[r]
          BY <2>1 DEF After, AfterOnly, AfterGoogle, AfterYahoo, Returns, Raises,
                      CallRecords
        <4> QED
          BY <2>2, <3>1, <3>2, <4>1, <4>2
      <3>3. CASE hit = None
        BY <2>1, <2>2, <3>1, <3>3 DEF CallRecords
      <3> QED
        BY <3>2, <3>3
    <2>4. CASE fetch'[t] = fetch[t]
      BY <2>2, <2>4
    <2>5. LookUp(t) \/ fetch'[t] = fetch[t]
      <3>1. CASE Tick \/ UNCHANGED vars
        BY <3>1 DEF Tick, vars
      <3>2. ASSUME NEW u \in Callers, u # t, LookUp(u)
            PROVE  fetch'[t] = fetch[t]
        BY <3>2 DEF LookUp, NewsInv
      <3>3. \A u \in Callers : u # t => ~CanRun(u)
        BY DEF CanRun
      <3>4. ASSUME NEW u \in Callers, NEW source \in Sources,
                   NEW limit \in 1..MaxLimit, FetchNews(u, source, limit)
            PROVE  FALSE
        BY <3>3, <3>4 DEF FetchNews
      <3>5. ASSUME NEW u \in Callers, Answer(u) \/ Failure(u) \/ Cancel(u)
            PROVE  FALSE
        BY <3>3, <3>5 DEF Answer, Failure, Cancel
      <3> QED
        BY <3>1, <3>2, <3>4, <3>5 DEF Next
    <2> QED
      BY <2>3, <2>4, <2>5
  <1> QED
    BY <1>1, NewsInvariant, PTL DEF Spec, OutageIsNotCached
=============================================================================
