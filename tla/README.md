# A verification project for scorecard

The program keeps the scores of a Ryder Cup style golf tournament: a Go HTTP service
over Postgres. Captains set matches up, players record holes from their phones while
they play, and everybody reads the results. This directory models it in TLA+, checks the
models with TLC and proves the central theorems with TLAPS.

## The system and its parts

| part | state it keeps | operations | where |
|---|---|---|---|
| match-play engine | none (pure) | progression, close-out, stored outcome, hole winners | `internal/golf/scoring.go` |
| match setup and scoring writes | `matches`, `match_participants`, `scores`, `match_results` | create, update, delete, set lineup, submit a hole, reset | `internal/golf/match.go`, `internal/db/postgres/{matches,scores,participants}.go` |
| roster, draft, captains | `tournament_players`, `team_members`, `teams` | enter, draft, undraft, set and clear captain | `internal/golf/{roster,team}.go` |
| standings, records, cups | none (derived on every read) | points, phase, cup winner, player record | `internal/golf/standings.go`, `results.go`, two SQL views |
| career pages | none (derived) | records by format, closeness, partner, opponent, margins | `internal/db/postgres/queries/players.sql`, `players.go` |
| results view and edge cache | the edge's copy of an answer | `ListResults`, `cacheByPhase` | `internal/golf/match.go`, `internal/api/rest/cache.go` |
| advance seed | writes a whole cup at once | `planSeed`, `SeedTournament` | `internal/app/seed.go`, `internal/db/postgres/seed.go` |
| courses, players, tournaments | their tables | create, update, list; a tee set with its holes | the rest of `internal/golf` |
| REST boundary | none | route, decode, call one service method, answer or map the error | `internal/api/rest`, the error mapping of `internal/db/postgres/errors.go` |
| tenancy, authentication | the tenant set on a connection for one transaction | admit or turn away, choose the tenant, choose what may be cached | `internal/api/rest/{middleware,cache}.go`, `tenant.go` |
| server lifecycle | listener, connection pool | serve, drain, close, exit | `internal/app/server.go`, `cmd/scorecard/start.go` |
| SDK, DTOs, migrations, CLI | none of the domain's | copy fields, call, parse flags | `sdk`, `cmd` |

The parts meet in the database. A handler runs on its own goroutine and talks to Postgres
in one or more transactions (`withTenant`: one call, one connection of the pool, one
transaction, READ COMMITTED). Writers of one match serialize on that match's row
(`LockMatch`, `FOR UPDATE`); a lineup and an undraft serialize on the member row one
references and the other deletes; two set-ups serialize on the unique keys they insert.
Everything a handler reads before it holds such a lock may be stale when it is used. The
engine is a pure function both the guard of a submission and its recomputation call, inside
the match's lock. `match_results` is a copy of what the engine says of `scores`; cups,
phases, records and career pages read the copy.

What is hard here: the copy staying equal to its source under concurrent writers; guards
that read and then write; rows read before the lock; a match that is finished and still
takes corrections; one long transaction whose statements can each be refused; requests cut
off at any statement, panics and a shutdown at any moment; a pool that every transaction
shares. `PROJECT.json` lists each hazard at its line with the properties that would catch
it.

## Modules

* **MatchPlay** - the engine, as pure operators over a set of score rows, for any number of
  holes. `ComputeMatchProgress` is the walk of `scoring.go` as a function from the holes it
  shows to their entries. Recursion is not needed: the running lead at a hole is a
  difference of two cardinalities.
* **ScoreCard** - one match scored sequentially: `Submit` is an upsert behind the finished
  guard, `ResetMatch` clears it. Here the engine is compared with match play's own
  definition: enumerate every way of playing the holes left and see who wins.
* **MatchData** - the rows of the four tables, the requests validation lets through, and the
  rules on them: the scoring window, `LineupFits`, the upsert with its two partial unique
  indexes, the composite foreign keys of `scores`, the finished guard.
* **MatchWrites** - the core. Every request is a process that goes through its handler's
  statements: `received -> read -> ready -> locked -> checked`, then a commit. The steps
  outside the transaction (`GetMatch`, `MatchTeams`) read committed tables and keep what
  the code keeps (`seen`); `LockMatch` waits for the row; `SaveScores`, `CheckUpdate`,
  `CheckDelete` and `CheckLineup` decide under it; the commits make the transaction's
  writes visible and release the lock. `Abort` cuts a request off anywhere before its
  commit. Under the lock the code's list, guard, upserts, second list and result write are
  one step: only holders of the match's lock write the rows they touch.
* **MatchBook** - what the endpoints promise: each write is one atomic step on the committed
  tables. `MatchWrites` is checked and proved to implement it (`Book!Spec`; the tables have the same
  names in both, so the refinement mapping is the identity on them and hides the rest).
* **Standings** - the pure rules over stored outcomes: points (in halves), phase, the one
  pass that finds a winner, cups won, the history verdict, and the view
  `player_match_outcomes`. **Cup** runs them over every history of a tournament's matches,
  which move as `MatchBook` says. **Careers** adds the aggregates of the stats page, each
  a query of its own over the same rows.
* **ResultsView** - `GET /tournaments/{id}/results`: four reads in four transactions with
  `MatchBook` writes in between, then the answer and its cache tier. `MatchWrites`
  implements `MatchBook`, so atomic writes lose nothing here. `witnessed` and `quiet` are
  history variables: the outcomes each match has had since the request began, and whether
  a write has committed since.
* **Roster** - entries, draft, captains and lineups. A lineup and an undraft meet on the
  member row a lineup place references, so these two run statement by statement with the
  row locks Postgres takes for the reference (`SharedBy`, `DeletedBy`, `Replacing`), its
  wait-for graph and its deadlock abort; everything else is one statement. The match's own
  rows are left to `MatchWrites`, where `Draft` stands still: `LineupsAreDrafted` is what
  makes that harmless, since a place in a lineup pins its player's side.
* **Setup** - what has to be there before a match: tee colours, courses, tee sets with their
  holes, players by address, tournaments, and the advance seed. The seed and a tee set run
  statement by statement where a statement can wait or be refused; an insert waits for a
  transaction holding the same key and is refused once that has committed. `Folded` is what
  lowercasing and trimming does to an address. `quiet` and `seededBy` are history variables.
* **Routes** - the HTTP surface in its three layers, as data: every route with its access
  and its service method (`Mux`), every service method with its transactions in order, every
  transaction with the errors it may return, and the status and sentence each error is
  answered with (`DomainAnswer`).
* **Service** - the goroutines that serve those routes: the middleware in its order
  (`Barrier`), the pool (`Acquire`, `NoConnection`), one connection per transaction set to
  the request's tenant, the commit of each, success or failure, a recovered panic, the
  cache header, and the drain. What a transaction does to the tables is the other modules'
  subject; here a write moves its tenant's cup to any stage and a read sees that.
* **MatchPlayProofs**, **ScoreCardProofs**, **MatchWritesProofs**, **CupProofs**,
  **ResultsViewProofs**, **RosterProofs**, **SetupProofs**, **ServiceProofs** - the theorems
  below.
* **MCScoreCard, MCMatchWrites, MCMatchPlayers, MCCup, MCResultsView, MCRoster, MCSetup,
  MCService** - the instances for TLC.

How they build on one another: `MatchPlay` is under everything; `MatchData` adds the rows
and rules that `MatchBook`, `MatchWrites` and `Roster` share; `MatchWrites` instantiates
`MatchBook` and implements it; `Cup` composes `MatchBook` with `Standings`, and `Careers`
and `ResultsView` extend `Cup`, one by pages read in one state and one by a page read over
several. `Setup` stands on its own, as the code does: it
hands over a cup whose matches have a tee set. `Service` extends `Routes`.

How the state corresponds to the code:

| model | code |
|---|---|
| `match[m]`, `lineup[m]`, `scores[m]`, `result[m]` | the rows of match `m` in the four tables; `NoResult` is no row |
| `lockedBy[m]` | the `FOR UPDATE` lock on the row of `matches` |
| `seen[c]` (MatchWrites) | `match` in `SubmitHoleScores`, read in a transaction of its own |
| `written[c]` | the uncommitted row of `match_results` |
| `now` | `MatchService.Now` |
| `Draft` | `team_members`, held still in the match modules |
| `TeeSets` | configured `(course, tee colour)` pairs, each with all its holes |
| `Keep` | a nil field of an update |
| `member[p]`, `captain[t]`, `entered` | `team_members`, `teams.captain_id`, `tournament_players` of one tournament |
| `job[c].placed`, `job[c].place` (Roster) | the places a lineup's transaction has inserted, and the next; or the place an undraft gives up |
| `departed` | history: who left a side while captain of it, and has not been named or drafted there since |
| `reading`, `answer` (ResultsView) | what `ListResults` holds between its queries, and the response |
| `courses`, `colors`, `teeSets`, `holes` | the tables of those names, a course and a colour by its name |
| `player[i]`, `cup[k]` (Setup) | the address of a row of `players`; a row of `tournaments` with its teams, entries, members and matches |
| `job[c].file`, `.known`, `.made`, `.at` (Setup) | the seed file; the map of folded address to player in `seedPlayersByEmail`; the rows of `players` this transaction has inserted; the next line of the roster, or hole of the tee set |
| `conn[k]` | a connection of the pool: its user, and `app.current_tenant_id` as `SET LOCAL` left it |
| `pc[c]`, `req[c]`, `done[c]` (Service) | where a goroutine is, its request after the mux, how many of its transactions have committed |
| `seen[c]` (Service) | history: the tenants whose rows those transactions touched |
| `answer[c]` (Service) | status, sentence and Cache-Control about to be sent, with the error `respondError` was handed beside them |
| `server`, `late` | where `Server.Shutdown` is, and whether its ten seconds ran out |
| `stage[t]` | the phase of a tenant's cup, all a cache tier is told apart by |

A row records a score for a competitor: a team (a nil `player_id`) or a player. Strokes are
natural numbers; instances use two values, which is what a comparison of two sides tells
apart.

## What the runs check

Passing runs:

* **card_engine** (`MCScoreCard`): one ball a side over five holes, and on the first hole a
  partner's ball (`BallHoles`), which may come in at any time, after the match is over too.
  Five holes are the fewest with a "3&2", and have matches decided early, dormie, halved,
  and entered with gaps. All 3^11 cards are reachable. `FinishedIffSettled`: the engine
  calls a match finished exactly when every way of playing the rest has the same winner.
  `MarginIsAScoreline`: a finished match reads as a golf score. `HoleWinnersAddUp`: the hole
  winners a result publishes give its lead. `LateEntryKeepsWinner`: a finished match may
  still take the missing side of a half-entered hole, and that never changes who won.
  `PartnerCanOnlyHelp`: a partner's score never costs the side a hole.
* **match_writes** (`MCMatchWrites`): two concurrent requests on one match of three holes,
  the fewest where a match finishes with a hole to spare (the hole its guard must refuse).
  Submissions of both sides and of either side alone; lineups that fit and one that is
  short. `TypeOK`, `ResultInSync`, `FinishedTakesNoNewHole` and `ImplementsBook`.
* **match_players** (`MCMatchPlayers`): one hole, five players of whom one is undrafted,
  two formats, two tee sets, tee times 0 and 1 and a clock to 1. Here the match row and the
  lineup a submission read do go stale before it gets the lock, players with scores are
  substituted, a player is scored under the wrong side, and both grains of score meet.
  `ScoredMatchIsWhole`, `ScoredMatchIsFrozen` and `ImplementsBook`.
* **match_live** (`MCMatchLive.cfg` on `MCMatchWrites`, one hole): `EveryRequestAnswered`.
* **cup** (`MCCup` on `Careers`): two matches of three holes, singles or pairs, each hole
  won by either side, halved or scored by one side only. Two matches give a cup won by one,
  won by a win and a half, tied on wins, and still open; three holes give margins that
  differ, and matches closed out early. `CupGoesToMoreWins` compares the program's one pass
  over the points, for both orders the teams may be listed in, with counting wins on the
  score cards; `PointsAddUp` and `RecordsAgreeWithStandings` say points are conserved
  between matches, sides and players; `PhaseFollowsTheCards` and `VerdictsAgree` relate the
  places that publish one fact. `SplitsAddUp`: the splits of a career page add up to the
  record and the points shown elsewhere. `PairsMirror`: two players' pages agree about each
  other. `MarginsMirror`: a best win is no heavier than the heaviest defeat of somebody it
  was won against, and the other way about.
* **results_view** (`MCResultsView`): two matches of two holes, so that a cup can be live
  with one over. `EachResultWasCurrent`: what is shown of a match was true of it at some
  moment of the request, though its sides and its scores were read apart.
  `AnswersAgreeWhenQuiet`: with no write in between the phase and the results tell the same
  story.
* **roster** (`MCRoster`): two concurrent requests, two singles matches, three players of
  whom one is undrafted at first, and requests cut off before any statement of a lineup or
  an undraft's first transaction (`CutOffAt`). `TypeOK`, `LineupsAreDrafted`,
  `LineupsStayWhole`, `RoleNeverStale`, `EveryRequestEnds`. The deadlock is real: with the
  detector taken away TLC finds the two requests waiting on each other. One of the two
  callers gets an error the code does not name.
* **setup** (`MCSetup`): two concurrent requests, two holes, three spellings of two people,
  two cup names and three files: two rosters in opposite orders (the deadlock), and a second
  file for one of the cups which spells a player otherwise and names her captain of both
  sides. `CupsAreWhole`: a cup is set up in full or not at all. `MatchesHaveHoles`: every
  match is on a tee set with all its holes. `SetUpOnce`: one cup a name, one player an
  address. `SeedRecognises`: a seed during which nobody else writes an address enters
  exactly the people of its roster and makes no second player of anybody.
  `EveryRequestEnds`, `TypeOK`.
* **service** (`MCService`): two clients over one connection, two tenants of which one is
  public, and twelve requests: reads with and without a token, a read of several
  transactions, writes of one, two and three, and one request for each check that turns a
  caller away. `NoRequestCutShort`: a drain that ends in time leaves nobody without a pool
  or an answer. `AnswersTellTheTruth`: a success means every write committed, a 4xx that
  none did, and the sentence is that of the most specific sentinel the error wraps (which
  the order of `domainAnswers` decides). `EdgeKeepsOnlyPublicAnswers`: what is marked
  public was made of the public tenant's rows, whatever the middleware (`Anonymous`) and the
  cache wrapper (`MarkedAnonymous`) each take an anonymous caller to be. `EveryRequestAnswered` and
  `ShutdownEnds`, with panics and hang-ups at any step. `TypeOK` is where "at most one
  connection a goroutine, and only inside a transaction" is said.

Runs that show a disagreement between the text and the code:

* **scoring_window**: the README promises scores only inside the window around the match's
  tee time. The window is checked before the lock and not again; an update of the tee time
  committing in between lets a score into a match whose window is closed.
* **settled_answer**: an hour in the edge cache is for a finished cup. The tier is chosen
  from outcomes read after the scores shown, so a leaderboard with a match still open can be
  kept that long.
* **stale_captain**: an undraft clears the captain's role in a second transaction. Cut off
  in between, the side keeps a captain who has left it, and repeating the undraft is
  refused before it gets there.

**Bounds.** In the match runs one match: matches share no row that these handlers write,
and a request names one. Two clients: every lock conflict has two parties; a third would
only queue. Symmetry on clients or matches is used in safety runs only, whose properties do
not name one. `MaxTeeTime`, `MaxNow` and `MaxStrokes` bound tee times, the clock and
strokes; `Players` and `Cups` bound the rows `Setup` may create. A match id is never
reused, as a uuid is not. Two holes are enough in `Setup` for a list that is short, one that
repeats a hole and one that is out of order. One connection is the pool at its limit, which
is where waiting for a second one would show; the code has twenty-five, and the proofs hold
for any number.

**Fairness.** In `MatchWrites`, `FairSpec` asks for weak fairness of each request's own
steps, because a goroutine whose statement returned goes on, and strong fairness of
`LockMatch`, because Postgres queues the waiters of a row lock. Nothing makes a client send
a request, a match exist, the clock move or a connection drop. In `Roster` and `Setup` it
asks for strong fairness of each begun request's steps, for the same queues of waiters on
rows and keys, and weak fairness of the deadlock detector, which runs after
`deadlock_timeout`. In `Service` statements return (weak fairness of a goroutine's own
steps), the pool serves its waiters in turn (strong fairness of `Acquire`), and the ten
seconds of a drain pass; nobody has to call, hang up, panic or stop the server. Deadlock is
checked in every run except `MCCup` and `MCResultsView`, where match ids run out once all
are created and deleted, and `MCService`, where the process ends.

## What is proved

Every safety invariant and action property the passing runs check is a theorem for any
values of the constants (`RoleNeverStale` under one premise), with the assumptions the
modules name: the two sides differ, the sentinels are none of the values they stand beside,
there are finitely many players, the requests are ones validation lets through and the mux
can dispatch, folding an address twice is folding it once. Each invariant used to strengthen another was first checked by TLC on the
run of its module.

**The engine.** `MatchPlayProofs`, for every match length and every set of rows on the card:
the engine's outcome is well formed (`StoredResultType`). The running lead is bounded by the
number of holes counted, through the cardinalities of disjoint subsets of them. `WalkStops`
says where the walk over the holes ends, so that what it shows can be reasoned about without
induction: the last hole is the first at which the match is decided, or the last in play.

`ScoreCardProofs`, for a match scored in any order, gaps and corrections included:

* `EngineSettles == Spec => []FinishedIffSettled`
* `MarginsAreScorelines == Spec => []MarginIsAScoreline`
* `HoleWinnersAgree == Spec => []HoleWinnersAddUp`
* `LateEntriesKeepTheWinner == Spec => LateEntryKeepsWinner`
* `PartnersOnlyHelp == Spec => PartnerCanOnlyHelp`

The invariant is only that the rows are cards and the result is theirs; the work is in the
engine. For `EngineSettles`, once a side leads by more holes than are left the rest moves the
lead by no more than one a hole (`SettledWalk`); while it does not, giving the rest to one side
or to the other ends differently (`OpenWalk`). `LateEntriesKeepTheWinner` follows: the ways of
playing a match that are left after the entry are among those that were left before, which
all had one winner.

**The match writes.** `MatchWritesProofs`, for any number of clients, matches, holes, players,
tee sets and formats:

* `TypeCorrect == Spec => []TypeOK`
* `ResultAlwaysInSync == Spec => []ResultInSync`
* `HandlersImplementBook == Spec => ImplementsBook`, the refinement of `MatchBook`
* `ScoresAlwaysWhole == Spec => []ScoredMatchIsWhole`
* `ScoredStaysFrozen == Spec => ScoredMatchIsFrozen`
* `FinishedStaysFinished == Spec => FinishedTakesNoNewHole`

`ResultInSync` is not inductive: a submission commits a result computed some steps before.
The strengthening is `IInv`: past its reads a request knows its row (`RequestKnown`), from
lock to commit it holds the match's lock on a live match (`LockHeld`), and so what it has
written is still the outcome of what it commits (`WrittenIsCurrent`). The proof has one
lemma per kind of step: `AnswerStep` and `RefuseStep` for leaving, `AdvanceStep` for a step
that moves one client on, `CommitStep` for a commit that touches only the match it has
locked; each action is an instance of one of these.

A commit acts on what its request decided earlier, so for the other four the invariant adds to
`IInv` that the decision outlives the wait. What was checked under the lock still holds at the
commit, because nobody else moves a locked match (`ChecksStand`, from `LockedStays`). Of what a
submission read before its lock, which may have moved, two things matter: the match had a
lineup, and lineups are never emptied but by a delete, after which the lock is refused
(`LineupSeen`, `LineupsFit`); and the tee set its new rows name, which the composite key
compares with the match's own, so that the rows are those the book would write
(`UpsertTee`). `CommitKinds` says what each commit does to its own match, `Committer` that it
touches no other, and every theorem is a case analysis over the two. The instance has its own
copy of every rule, and a section of the proof (`SameRows` to `SameGuard`) shows that the
copies are the rules.

**The pages.** `CupProofs`, for any matches, formats, players, lineups and history of writes:

* `PhaseIsTheCards == Spec => []PhaseFollowsTheCards`
* `PointsAreShared == Spec => []PointsAddUp`
* `CupGoesToTheWinners == Spec => []CupGoesToMoreWins`
* `HistoryAgreesWithCupsWon == Spec => []VerdictsAgree`
* `PagesMirror == Spec => []PairsMirror`
* `ExtremesMirror == Spec => []MarginsMirror`
* `RecordsAddUpToStandings == Spec => []RecordsAgreeWithStandings`
* `PagesAddUp == Spec => []SplitsAddUp`

All of them rest on one invariant of the book, `BookInv`: a lineup is whole, fits its match and
the draft and is there for as long as there are scores, and the results are the cards'. From it
every page is a count over the score cards. The one pass over the points is a fold over two
teams, unrolled in either order. The last two theorems equate sums over sets, which the model
takes with `MapThenSumSet`, a function chosen to satisfy a recursion. Without induction: that
function exists because counting things by a key satisfies the recursion (`SumExists`), and no
other does because two would differ first on some smallest set (`SumUnique`). `Tally` puts the
two together: a sum of counts is a count. A side's half points, told apart by player, are its
players' points, and told apart by match its matches' (`HalvesByPlayer`, `HalvesByMatch`); the
two sums count the same things. `SplitsAddUp` says a halved match went to the last hole, which
is a fact of the engine (`HalvedAtTheEnd`).

`ResultsViewProofs`, for any number of matches, writes and readers' pauses:

* `ResultsWereCurrent == ViewSpec => []EachResultWasCurrent`
* `QuietAnswersAgree == ViewSpec => []AnswersAgreeWhenQuiet`

The invariant, `ViewInv`, says of each read what it has in hand: scores read were the match's at
some moment of the request (`InHand`), and with no write since they are so still (`StillTrue`).
A match whose lineup was read without two sides is shown unplayed, and was unplayed at that
moment, because a match with scores has its lineup (`BookInv`).

**The roster.** `RosterProofs`, for any players, matches, lineups and number of requests:

* `LineupsAlwaysDrafted == Spec => []LineupsAreDrafted`
* `LineupsAlwaysWhole == Spec => []LineupsStayWhole`
* `RosterTypeCorrect == Spec => []TypeOK`
* `RoleFollowsMembership`: `RoleNeverStale`, when no request is cut off between an
  undraft's two transactions

A lineup commits places it checked some steps before, so the first needs the locks in its
invariant: a placed player stays drafted while the lineup is open (`PlacingHolds`), and the
row an undraft has deleted is shared with no open lineup and no other undraft
(`RemovedHolds`). The deadlock detector may abort whom it likes; nothing in the proof
depends on its choice. `stale_captain` shows that the last fails without its premise.

**The set-up.** `SetupProofs`, for any files, spellings, rosters, holes and number of requests:

* `SetUpOnlyOnce == Spec => []SetUpOnce`
* `CupsAlwaysWhole == Spec => []CupsAreWhole`
* `MatchesAlwaysHaveHoles == Spec => []MatchesHaveHoles`
* `SeedsRecogniseEverybody == Spec => SeedRecognises`
* `SetupTypeCorrect == Spec => []TypeOK`

A seed commits what it planned and looked up many statements before, so the invariant says
what the keys keep true in between: a name or an address a transaction has inserted is no
other row's (`NameHeld`, `AddressHeld`); the players a seed has found or made are players,
and no two people of its roster are one of them (`PlayersKnown`), though others may be
renaming players meanwhile. That a cup has as many players as its file has lines is then a
bijection from lines to players; that a tee set has all its holes is an injection of a
finite set into itself. `SeedRecognises` is about a seed nobody disturbs, and needs to know
what its lookups mean at its commit: while it is quiet, whoever its map names has that folded
address and whoever has the address is named (`Undisturbed`, part of `QuietKept`).

**The service.** `ServiceProofs`, for any number of clients, connections, tenants, tokens and
requests:

* `DrainCutsNothingShort == Spec => []NoRequestCutShort`
* `EdgeServesThePublic == Spec => []EdgeKeepsOnlyPublicAnswers`
* `AnswersAreTrue == Spec => []AnswersTellTheTruth`
* `ServiceTypeCorrect == Spec => []TypeOK`

Two files of the code ask who is anonymous, the one that picks a request's tenant
(`Anonymous`) and the one that marks its answer public (`MarkedAnonymous`). The invariant carries the first through every transaction
(`ConnectionSet`, `SeenOwn`) and the second to the answer (`AnswerForAll`), and
`EdgeServesThePublic` is where they meet. It relies on `DomainAnswer` never making a success of
an error. `AnswersAreTrue` counts committed transactions against those of the route's service
method (`StepsLeft`): a success is answered past the last, and a 4xx comes before the first
write has committed. Why is a fact about the table of routes, proved of every one of them
(`MuxKinds`): no handler reads what may settle it after a write, and after a first write none
fails with an error the caller is to blame for. Which sentence an error gets is a fact about
the order of `domainAnswers` (`AnswersAre`, `MostSpecific`): every sentinel that wraps another
is listed before the three generic ones.

**What the proofs lean on.** `UNION S \ T` is read as `UNION (S \ T)` by one of the two tools and
as `(UNION S) \ T` by the other, hence the parentheses in `Careers`. Everything else of the models
is read alike by both.

**Only model-checked**: liveness (`EveryRequestAnswered`, `EveryRequestEnds`, `ShutdownEnds`),
since fairness and ENABLED are beyond the prover. Induction over data is too, which is why no
model here has a recursive definition that a theorem would have to unfold.

## Read in the code, and not a finding of a run

* The plan of a seed does not look at whether one player captains both colours
  (`app/seed.go`, `planCaptains`), nor whether the course and colour it found have a tee set
  together, though `golf/seed.go:11` says nothing in a plan can fail for a reason the file
  could have told. Both are refused by a key after most of the setup is written, and rolled
  back: `CupsAreWhole` is what makes that harmless.
* Two seeds at once, or a seed and a request, that spell one person's address differently
  make two players: the key is on the address as it is stored. `SeedRecognises` is stated
  of a seed nobody disturbs.
* `db/postgres/seed.go:26` gives as its reason for one transaction that a rerun would create
  a second tournament; the unique key on its name and dates refuses that today.
* `README.md:85` of the program says migrations run on server start-up; `start` only opens a
  pool and listens.
* `UpdateTournamentPlayer` maps read errors only, so a value too long for its column is a
  500 where the other writes answer 400.

## What is not modelled, and why

* **SDK client and DTOs**: they copy fields and make one HTTP call each, without state or
  retry. What SDK validation lets through is where `MatchData` and `Setup` take their
  requests from.
* **Migrations, flags, configuration**: a migration library's calls and flag parsing. The
  schema's keys and checks are in the models that rely on them.
* **Token verification and row-level security**: a library's and PostgreSQL's. A token is
  good, bad or absent; rows are visible under the transaction's own setting.
* **The edge's copies**: how long it really keeps them and to whom it hands them is its own
  configuration, outside the repository.
* **Request bodies**: well formed or not. Formats by name, tee times as text and the page
  layout of stats are left out with them.
* The update of a roster entry's attributes, `handicapped`, par, stroke index and slope:
  columns no rule reads. Players without an address. The exit status of the process, and
  the statement and write timeouts, whose effect is that of a hang-up.
* A page of several statements at READ COMMITTED (`PlayerStatsRows`) is modelled on one
  state: nothing promises more.
* A submission delayed past a correction or a reset overwrites it: rows carry no version and
  nothing promises otherwise. A deleted match is left out of `Roster`: it only removes
  places.

## Plan

1. Done: the match-play engine, the match writes and their abstract book, standings,
   careers, results view, roster, set-up and seed, routes and the service around them; every
   safety property of the passing runs proved, and the refinement of `MatchBook`.
2. Next to model: the attributes of a roster entry with the errors of their update, and the
   results view over `MatchWrites` itself rather than its book, to which the refinement
   already carries what is proved of it.
3. Next to prove: that `Roster` keeps what `MatchWrites` assumes of `Draft`, as a refinement
   between the two rather than a remark.
