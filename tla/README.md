# A verification of the combat core of DnDnD

DnDnD runs Dungeons & Dragons 5e by Discord: players type slash commands, the
DM works a web dashboard, one Go process serves both over one PostgreSQL
database, and a game lasts days because nobody has to be online with anybody
else. What is hard is not the rules but the *protocol*: whose turn it is, what a
turn may still spend, and what happens when nobody plays. Those are written as
sequences of separate SQL statements, by handlers that run concurrently, in a
process that may die between any two of them.

These TLA+ modules state that protocol as the code has it, TLC explores small
instances of it, and TLAPS proves the main invariants for every instance.
Paths below are relative to `src/`.

## 1. Inventory

### The process and its actors

| actor | how it enters the code | what it changes |
| --- | --- | --- |
| player | Discord interactions, each in its own goroutine (`internal/discord/*_handler.go`) | turn rows, combatants, characters |
| DM | HTTP handlers of the dashboard (`internal/combat/*_handler.go`, `internal/dashboard`) | the same rows, mostly without the players' lock |
| turn timer | one goroutine, a ticker, `PollOnce` (`internal/combat/timer.go`); once more at start-up | turn rows, hit points, messages |
| process | dies and restarts; `cmd/dndnd` polls once before it serves commands | forgets every local, keeps every row |

Everything shared is in the database. The state that the combat core keeps:

| table | columns that decide something | written by |
| --- | --- | --- |
| `encounters` | `status`, `round_number`, `current_turn_id` | StartCombat, AdvanceTurn, EndCombat |
| `turns` | `combatant_id`, `round_number`, `status`, resources, timer columns | AdvanceTurn, every command, ReseatActiveTurn, the timer, DM overrides |
| `combatants` | initiative order, hit points, position, death saves, conditions, concentration, `consecutive_auto_resolves` | damage, healing, conditions, spells, DM overrides and undo, the timer |
| `pending_saves`, `encounter_zones`, `reaction_declarations` | status and source of what a spell has still to do | casts, `/save`, the dashboard, the timer, BreakConcentrationFully |
| `action_log`, `pending_actions` | state before and after, status | DM overrides, undo, enemy turns; `/action`, the DM, the timer |
| `characters`, `loot_pools`, `loot_pool_items`, `shop_items` | gold, inventory, claims, stock | claims, purchases, gifts, splits, the DM's editors |

There are two notions of *the current turn*: the row `encounters.current_turn_id`
points at, and the row with `status = 'active'`. Different handlers use
different ones, and only some statements keep them together.

There are two ways of writing a turn's resources: `UpdateTurnActions` writes
eleven columns from a copy read earlier, `SpendTurnResources` (`/use`) is a
compare-and-set on the columns it names.

There is one lock: a PostgreSQL advisory lock per turn, taken by
`RunUnderTurnLock` for most player commands. Not for AdvanceTurn, not for
`/give` and `/check`, not for most of the dashboard. It belongs to a transaction
of its own; the statements of the command run outside that transaction, so its
rollback frees the lock and undoes nothing.

### Components

| component | operations that matter | hard behaviour | what makes it correct | here |
| --- | --- | --- | --- | --- |
| turn loop (`combat/initiative.go`, `reseat.go`) | AdvanceTurn with skips and the roll of the round, `/done` and its button, ReseatActiveTurn | twelve statements without transaction or lock, any of which may fail; snapshots; double clicks; the timer | one active turn, nobody twice in a round, order, rounds close full, nobody left out for ever | `TurnOrder`, `RoundRobin` |
| turn lock and player commands (`turnlock.go`, `turnvalidation.go`, the command handlers) | validate, lock, validate again, read, spend, heal | rows read before the gate; commands without it; a turn that ends under a command | a turn written under its lock is exact, action and attacks are not both spent, locks are freed | `TurnGate` |
| turn timer (`timer.go`, `timer_resolution.go`) | nudge, warning, DM prompt, auto-resolve | retries, crashes, late polls, a reseat between a list and its mark | messages not lost, DM asked first, full time, absence earned | `TurnTimer` |
| start and end of combat (`service.go`) | StartCombat, EndCombat | many rows, no transaction | | in `TurnOrder` as far as the loop sees it |
| death saves, dying, damage (`deathsave.go`, `damage.go`, the heals) | hits, drops, massive damage, saves, stabilising, heals | three groups of columns written by statements of their own, from copies; heals that bypass the hook, hits and heals that reach the dead | whoever wakes wakes clean, dying ends, the rules of the book | `Dying`, `DeathSaves` |
| concentration, zones (`concentration.go`, `zone.go`) | cast, mark, break, Silence, incapacitation, saves that land late | a break is a list of statements, any of which may fail; columns overwritten without a look | one spell per caster, nothing outlives it, Silence and incapacitation end it | `Concentration`, `Sustained` |
| saves of spells (`aoe.go`, `pending_save_*.go`, `save_handler.go`) | cast, roll, list, land, mark, cancel | no lock: two last rolls at once, a drive that fails between hit and mark | a cast lands on everybody together, no roll is left, each row lands once | `SpellSaves` |
| conditions | apply, expire, repeat saves | expiry tied to somebody else's turn | | expiry in `TurnOrder`, sources in `Concentration` |
| reactions, readied actions | declare, resolve, expire | resolved during a foreign turn, without the lock | one reaction a round | readied spells in `Concentration`; rest planned |
| DM turn builder, resource overrides | ExecuteEnemyTurn, OverrideTurnResources, RestoreTurnAction | copies and the active turn | | marking in `TurnOrder`, RestoreTurnAction in `TurnGate`, writes and log row in `Desk`; overrides of turn resources planned |
| pending actions, overrides, undo (`dm_dashboard_*.go`, `freeform_action.go`) | override, undo, resolve, cancel | status and last row read before the lock; writes nobody logs; failures half way | the log tells the row, undo takes back one step, an action takes effect once | `Desk` |
| loot, shops, gifts (`loot`, `shops`, `inventory`, `give_handler.go`) | claim, buy, give, split, create and clear a pool | rows written one by one from copies; sheets that cannot be read | gold and items conserved, no overselling, one claim | `Treasury` |
| DM queue | post, resolve, cancel | message without row | exactly once | planned |
| rest, level up, registration and portal tokens | approve, confirm, redeem | stale or repeated approval | exactly once | planned |
| attacks, spells, features, checks, dice | the 5e rules | large sequential case distinctions on sheet data | table tests of the repository | not modelled |
| geometry: path search, cover, areas, fog | pure functions on a grid | | path cost is minimal | path search planned |
| campaigns, maps, characters, messages, dashboard API, web clients, assets, logging, generated SQL access | CRUD, formatting, transport | no protocol of their own | | not modelled |

`PROJECT.json` lists every component with its directories, and every hazard at
the line where it bites.

## 2. The modules

| module | what it is |
| --- | --- |
| `TurnOrder` | the turn loop, statement by statement |
| `RoundRobin` | what the turn loop promises the table: the abstract specification |
| `TurnOrderProofs` | theorems about `TurnOrder` |
| `TurnGate` | turn lock and the commands that spend a turn's resources |
| `TurnGateProofs` | theorems about `TurnGate` |
| `TurnTimer` | the poller, and the handlers that open, end and reseat turns under it |
| `TurnTimerProofs` | theorems about `TurnTimer` |
| `Dying` | damage, healing and death saves on one character's row |
| `DeathSaves` | the death-save rules and six named deviations: the abstract specification |
| `DyingProofs` | theorems about `Dying` |
| `Treasury` | gold and items between characters, loot pool and shop |
| `TreasuryProofs` | theorems about `Treasury` |
| `Concentration` | concentration columns, the conditions and zones of spells |
| `Sustained` | what concentration promises: the abstract specification |
| `ConcentrationProofs` | theorems about `Concentration` |
| `SpellSaves` | the saving throws a spell asks for, from the cast to the landing |
| `SpellSavesProofs` | theorems about `SpellSaves` |
| `Desk` | DM overrides, undo and its log, freeform actions, enemy turns |
| `DeskProofs` | theorems about `Desk` |
| `MCTurnOrder`, `MCTurnGate`, `MCTurnTimer`, `MCDying`, `MCTreasury`, `MCConcentration`, `MCSpellSaves`, `MCDesk` | the instances TLC checks |

A definition whose comment begins with "Mutant" or "Variant", or that stands
just above the definition it varies with a telling name (`ListEndsRoundEarly`,
`ClaimableAgain`), is used by no specification: it is a plausible bug, kept to
show that a property would notice it.

### TurnOrder

State: `status`, `round`, `pointer` are the three columns of the encounter,
`turns` is the table (a row's index is its id), `body` what the loop reads of a
combatant, `call[p]` the local variables of an AdvanceTurn in flight, `ending`
an EndCombat between two statements, `listed` the turns the timer has read and
not yet resolved; and a history, `orphans`, the rows whose call stopped before
the encounter pointed at them.

`AdvanceTurn` is one action for each statement another handler can observe:

| action | code |
| --- | --- |
| `Request`, `Confirm` | the callers; the End Turn button checks its turn against the pointer |
| `Refuse`, `Enter` | GetEncounter, GetTurn; `ErrEnemyTurnNotExecuted` |
| `Complete` | ProcessTurnEndWithLog (conditions that run out) and CompleteTurn |
| `List` | the combatants and this round's rows: the snapshot the pass goes on with |
| `Roll` | advanceRound, from the call's own copy of the round |
| `Skip` | skipSurprisedTurn, skipCombatantTurn, with the write-back of conditions from the snapshot |
| `Activate`, `Point` | createActiveTurn: CreateTurn, then ProcessTurnStartWithLog and UpdateEncounterCurrentTurn |
| `Stop` | any statement fails, or the process dies: what was written stays, an active row nobody points at among it (`combat/initiative.go:946-977`) |

The other handlers:

| action | code |
| --- | --- |
| `Reseat` | ReseatActiveTurn, with the conditions that run out as the new turn starts |
| `EndCombat`, `CloseEncounter`, `StopEnding` | EndCombat: CompleteTurn, then the status and the conditions; or it fails in between |
| `PickUp`, `AutoResolve`, `LeaveUnresolved` | the timer reads due turns of player characters and later completes each by its id, whoever holds it by then (`combat/timer_resolution.go:133` and `:326`), or fails at it |
| `SpendAction`, `Suffer` | any spend of the action, ExecuteEnemyTurn; damage, healing, conditions |

Abstractions: a combatant is able, held, held with a repeat save, dying or dead,
and surprised or not, which is all `Verdict` asks. A condition may run out at
any start or end of a turn. A summon that shares its caster's turn is in the
table of combatants and never in the order.

Specifications: `Spec` lets any two calls interleave. `SerialSpec` runs the turn
handlers one at a time, with the timer, spends and damage in between each two
statements: that is what the documentation assumes, and what a DM and a player who
wait for each other's messages do. `ClickSpec` adds overlapping clicks on one
button.

What a stopped call or a late timer leaves behind is not hidden but named.
`ActiveIsPointedAt` excepts orphans, which are there for good; a new call then adds
a second active row. `NpcTurnNotDropped` excepts rows the timer has listed: a
player's overdue row that the DM reseats to a creature is completed unexecuted.
After that the loop is stuck: AdvanceTurn refuses (`ErrEnemyTurnNotExecuted`), and
ExecuteEnemyTurn finds no active turn to execute. An EndCombat that fails after its
CompleteTurn gets there as well. `EveryoneComesUp` calls both, and an orphan that
the queries for the active turn may return, `Blocked`.

Two clicks on the End Turn button both pass the pointer check, and the second
one ends the next combatant's turn: the run `double_click`, against
`discord/done_handler.go:309-312`. Under `Spec` with two overlapping calls TLC
also finds `OneRowPerRound`, `SeatedInOrder` and `NpcTurnNotDropped` violated
within a few statements; nothing in the repository promises otherwise for calls
that overlap.

### RoundRobin

Rounds, the set of seats that had their turn or skip in the round, and who holds
the floor. `Correct` and `CorrectLate` are the DM's reseat, of a turn of this
round or of one left over from an earlier one. `TurnOrder!Abstract` maps rows to
it; an orphan holds no floor: its seat has lost its turn, which is a `Finish`.
`ImplementsRoundRobin` says that the statements together are a round robin, calls
that stop and turns the timer completes included.

### TurnGate

State: `row` the turns, `pointer`, `handover` how far an AdvanceTurn has come,
`holder` the advisory locks, `cmd[p]` the locals of a command, and three
histories: what was charged, the turns whose action was spent by a compare-and-set
(`flagged`), and the turns written by a command that had not held the lock from its
read to its write (`strays`).

| action | code |
| --- | --- |
| `LookUp`, `ClickMove`, `OpenBag`, `HandOver` | what each family of handlers reads before the gate: `/attack`, `/cast`, `/action`, `/interact`, `/bonus`; the confirm buttons of `/move` and `/fly`; `/use`; `/give`, `/check` and the DM's RestoreTurnAction, which have no gate |
| `Validate`, `Lock`, `TimeOut`, `Recheck` | AcquireTurnLockWithValidation: active turn and ownership, advisory lock with its 5 s limit, active turn again |
| `Load` | the body reads its row (or, for a move, keeps the copy it came with) and checks the resource |
| `Pay` | UpdateTurnActions or SpendTurnResources |
| `Commit`, `Fail` | the end of the lock's transaction; an error or panic after any statement |
| `EndTurn`, `OpenTurn`, `PointAtTurn` | AdvanceTurn as commands see it |

Abstractions: a resource is a counter with an allowance; each invocation runs
once (a retry is another invocation); AdvanceTurn is its three writes. Hit points
that a command also heals or takes are in `Dying`.

The action and the attacks are two columns of one resource. UseResource for the
action empties the attacks, UseAttack for the first attack sets `action_used`
(`Charged`); no check of the one looks at the other's column (`Affords`). The
compare-and-set of `/use` names `action_used` only (`Flagged`), so that `/use` and
then `/attack` spends the action twice, with no overlap at all. `OneActionATurn`
says that this is the only order in which it happens, on turns without strays.

There is one specification, `Spec`, with every kind of command, every overlap and
every failure, and the turn changing under it at any statement. Only what the lock
really gives holds there: a turn written only under its lock is exact. The rest is
marked by `strays`: a command looked up before a change of turn is carried out on
the old turn; two clicks on a move button charge the row each read before the gate,
so the mover walks twice its speed, the "lost-update window" that
`discord/move_handler.go:741-745` says is eliminated;
`/give` and the restore write back a copy over a gated command's charge. A command
that passed the gate also spends on a turn that has ended meanwhile. None of these
is excluded from the behaviours, and no property claims they do not happen.

### TurnTimer

State: `now`, the timer columns of `row`, `count` (`consecutive_auto_resolves`) of
each combatant, the locals of the poller, and histories: the messages delivered
since a row was last seated, the rows reseated while the poller had them in hand
(`usurped`), and the turns closed for each combatant.

| action | code |
| --- | --- |
| `Ask`, `EndPoll` | one of the four lists of a poll; SQL conditions in `Due`, order in `Rank` |
| `Send`, `Mark` | the message, then the column; `Marked` sets the DM's deadline an hour ahead |
| `Look`, `Close`, `Count` | AutoResolveTurn: its reads, UpdateTurnAutoResolved by id, the count written from its copy |
| `Fault`, `Crash` | a failing message or statement leaves the turn to the next poll; the process dies |
| `OpenTurn`, `EndTurn`, `ExecuteEnemyTurn` | createActiveTurn with its timer, AdvanceTurn's completion, the action of a creature |
| `Reseat` | ReseatActiveTurn: the row, whatever its status, gets a new holder, start and timeout and no escalation |

Abstractions: rounds are `TurnOrder`'s; the death save a resolution rolls is a
roll of `Dying`, the saves it rolls are `TimerRoll` of `SpellSaves`, and what
lies between `Look` and `Close` is a statement that may fail; what players spend
is left out, so a row they spent on may be reseated here and not in the code; a
poller that is slow and one that is down look alike. Every handler that
production calls on these columns is there. `combat/timer_overrides.go` (extend,
wait, skip, pause, resume) is not: no handler of the repository calls it, except
that EndCombat pauses the timers of the encounter it has just completed.

From its list to UpdateTurnAutoResolved the poller never looks at the row again. A
row reseated in that time is completed just as its new holder's turn begins, or
gets a mark for a message its holder never saw; the properties name those rows
(`usurped`) and speak of all others.

Also seen in this model and not recorded as findings, because no line of the
repository says otherwise: three missed turns with played ones in between flag a
player as absent, because nothing resets `consecutive_auto_resolves`; a turn opened
while the campaign's settings cannot be read never gets a timer; a `/deathsave`
between the poller's read and its roll, or a resolution that fails after its roll
and is tried again, gives a character two death saves in one turn.

### Dying

State: `row`, one player character's hit points, `is_alive`, tallies and whether
"unconscious" is among its conditions; `call[h]`, what handler `h` still has to
write: the groups of columns (`owes`), which of them goes first, and the values,
computed from the row as it was when the handler read it (`plan`); and a history,
`loose`.

| action | code |
| --- | --- |
| `Wound`, `Drop`, `Strike`, `Exhaust` | ApplyDamage: a hit that leaves hit points or is absorbed; one that takes the last; one at zero (routePhase43DeathSave); level 6 of exhaustion |
| `Rally`, `Fail` | RollDeathSave for `/deathsave` and for the timer |
| `TimerTwenty`, `PlayerTwenty` | a natural 20, as the timer and as `/deathsave` write it |
| `Stabilize` | StabilizeTarget, from Spare the Dying, Medicine and `/action stabilize` |
| `Heal` | Lay on Hands, Second Wind, Preserve Life: hit points, then MaybeResetDeathSavesOnHeal |
| `Drink`, `CastHeal` | heals without the hook: `/use`, refused to who is down, and `/cast` |
| `Write` | UpdateCombatantHP, UpdateCombatantDeathSaves or UpdateCombatantConditions, in the handler's order |

Each handler takes every target the code lets it take, the dead among them, and may
stop after any of its statements (`CutOff`, at most `MaxFaults` times).

Abstractions: damage is what is left after resistances and temporary hit points;
more than three failures are one number (`Beyond`); of the dying bundle only
"unconscious" is kept, since prone outlasts the fall by design; concentration,
rage and wild shape, which damage also ends, are other components; the raw
values a DM may write are not modelled.

Specifications: `Spec` lets handlers overlap. `SerialSpec` runs them one at a time
and has all of them. `loose` says that something was left undone since the last
whole waking: by a healing spell from zero or a natural 20 of `/deathsave`, which
leave the character unconscious; by a handler that worked on the dead; or by one
that stopped half-way. `combat/deathsave.go:283-284` says that every heal goes
through the hook: the run `heals_without_the_hook` refutes it, with one healing
spell and no overlap.

Under `Spec` `WakesClean` and `Coherent` fail as soon as damage and a heal
overlap: the "unconscious" of the drop lands on a character already healed. Also
seen and not recorded as findings: a stable character that is struck keeps its
three successes, so it never rolls again while the failures add up; enemy turns
do not pass on whether a hit was critical; a hit of no damage brings the dead
back (`combat/damage.go:254`).

### DeathSaves

The token (alive, dying, stable, dead), hit points and tallies, without rows or
handlers. `Rules` is what `combat/deathsave.go` says of them. `Deviations` is
everything else the handlers do, each with its name: `WakeWithTallies` (a waking
without the hook), `Raise` (a heal of the dead), `HitTheDead` (which may bring them
back), `DieUnrecorded` and `DieLate` (a third failure that did not reach
`is_alive`), `Forgive` (a natural 20 that stops before the hit points). `Dying!DS`
maps the row *as the handler in flight will leave it* (`Will`): the first statement
of a handler is a step here, the others stutter. `ImplementsDeathSaves` says that
the handlers follow the rules but for these six, and have no other way of leaving
them.

### Treasury

State: `gold` and `bag` of every character, the encounter's `pool` and its
`loot` rows, `shelf` the shop's stock, `call[h]` the locals of a handler with what
it holds in `hand` between two rows; and histories of what was sold, stocked,
granted (`winners`) and edited by the DM.

| action | code |
| --- | --- |
| `AskClaim`, `TakeRow`/`MissRow`, `Grant` | ClaimItem: the pool is open, the conditional update of the row, the inventory from a copy |
| `Reserve`, `Charge`/`AbortBuy`, `Restore` | Buy: a unit is reserved, the buyer charged and given it in one conditional statement, or the unit put back |
| `LookIntoBag`, `MeetReceiver`, `HandOver` | `/give`: both inventories from copies, in one transaction |
| `ReadBag`, `Amend`, `SetCharacterGold`, `Restock` | the DM's inventory and shop editors |
| `Survey`, `Gather`, `StripGold`, `StripBag`, `Found`/`FoundTooLate`, `Stow` | CreateLootPool: each creature's sheet is read, or not, and emptied either way; then the pool is created and filled |
| `AskSplit`, `ListParty`, `PayShare`, `KeepRest` | SplitGold |
| `AskCurate`, `InsertRow`, `DeleteRow`, `ReviseRow`, `SetPoolGold`, `AskClear`, `Sweep`, `Close` | the DM's curation and the clearing of the pool |
| `Drop` | a statement fails or the process dies |

Abstractions: an inventory is a function from items to quantities; equipment,
charges and descriptions are not told apart. `Gather` has three outcomes: the
sheet is read; its inventory does not parse; the sheet cannot be read at all.
The code logs the last two and goes on to clear the creature's gold and
inventory (`loot/service.go:99-128`). What it clears unread no handler will ever
hold: it is entered in `coined` and `made`, next to what the DM's editors make
and unmake, and conservation is stated against that account. ClaimItem also
ignores a parse error (`loot/service.go:275`), of an inventory that only the
program's own encoder writes.

Conservation is promised only while `overwritten` (a column was written from a
copy that was out of date) and `cutShort` (a handler ended holding something)
are false. Dropping those conditions, TLC shows what the code really does:
overlapping purchases of one character lose an item, overlapping or failed
splits multiply gold, two CreateLootPools that overlap lose the gold of the
second, and `/give` to oneself duplicates an item
(`cmd/dndnd/discord_handlers.go:2124` does not exclude the giver).

### Concentration

State: `conc` the concentration columns, `column` the conditions a combatant
bears, each with its source, `zones`, `saves` the spell rows of `pending_saves`,
`inside` who stands where the zones are, `readied` the declarations, `task` the
handler that runs and `brk` the BreakConcentrationFully it may have started.

| action | code |
| --- | --- |
| `Cast`, `Ask`, `Change`, `SetSpell`, `Touch`, `Unveil`, `CreateZone` | Cast and CastAoE: guards, the rows of saves, the end of the previous spell, the columns, marks on the target, the end of Invisibility, zones |
| `Strip`, `DeleteZones`, `Clear` | BreakConcentrationFully, one bearer at a time |
| `CheckSilence`, `Move`, `Drag` | Silence when somebody moves, when the zone appears, and the moves that do not check |
| `Roll`, `Forfeit`, `Drive`, `Land`, `AllSaved`, `Apply`, `SaveEnds` | the saves of a spell and the conditions they land late |
| `Lose`, `Incapacitate`, `Override`, `Recover`, `ZoneEnds` | failed Constitution saves and voluntary drops, ApplyCondition with its hook, the DM's condition write without it, recovery, expiry of zones |
| `Ready`, `Declare`, `Unready`, `Expire`, `Lapse` | readied spells |
| `Fail` | any statement fails; the handler ends where it is |

Abstractions: handlers run one at a time; every spell here is a concentration
spell with a verbal or somatic component; all zones cover one patch; damage,
slots, altitude, summons and Careful Spell are left out; applied rows are
forgotten, rows of one spell and one result are one. Histories name the writes
after which nothing is promised: `adrift` (the columns or conditions were
overwritten without a look: a readied spell, a previous name or id that could
not be read, an expiry, the write-back of a cast), `unheard` (forced moves and
checks cut short), `unbroken` (cast while incapacitated, conditions written by
the DM or restored by a write-back, hooks cut short).

Seen while modelling and allowed by these histories: `/cast` has no guard for an
incapacitated caster, forced movement and undo do not check Silence, DM condition
writes bypass the hook (against `docs/dnd-async-discord-spec.md:912-913`); a readied
spell takes the columns with a NULL id, so nothing can be stripped for it, and
its expiry clears whatever is held by then; breaking invisibility writes back the
caster's conditions as read at the start of the cast
(`combat/spellcasting.go:481` and `:1110`).

### Sustained

What a caster sustains (one spell, nothing, or lost) and where it is at work.
`Concentration!Promise` maps columns, conditions and zones to it;
`KeepsThePromise` says that every statement either changes nothing of it or is one
of its steps: works appear under the spell sustained, and the spell changes when
no work is left.

### SpellSaves

State: `rows` of `pending_saves`, `hits` how often the spell landed by each,
`task[h]` a handler and its list.

| action | code |
| --- | --- |
| `BeginCast`, `InsertRow`, `Spare` | CastAoE: a row for each target, Careful Spell rolls at once |
| `Save` | `/save`: the player's oldest row of the ability |
| `Click`, `Look`, `Record` | the DM rolls for a monster: the row, its oldest row, the write |
| `TimeOut`, `TimerRoll` | AutoResolveTurn rolls for the absent |
| `List`, `Hit`, `Mark` | ResolveAoEPendingSaves: the list once nobody is pending, a hit per row, the marks after all hits |
| `Cancel`, `Survey`, `Void` | CancelAoEPendingSave |
| `Fail` | a statement fails, or the process dies |

Any of these overlap statement by statement. Abstractions: all spells ask for
one ability; a hit is one unit of damage or conditions. Histories: `early`
(casts driven while rows were still being inserted), `left` (spells on which the
timer, Careful Spell, a cancellation or a failed drive had the last word), and
`contested` (rows two handlers wrote or listed over one another, or hit by a
drive that failed before its marks), of which only the inductive invariant
speaks.

`combat/aoe.go:982-986` says that repeated drives cannot hit twice, because a row
marked applied is never hit again. The marks come after all hits and a roll is
written whatever the row's status is by then: two `/save` of one player that overlap
hit twice (run `repeated_drives`). A cancelled row also lands when a drive's marks
overwrite it.

### Desk

State: `row` the combatants (hit points, position, conditions), `turn`, `lock`
the advisory lock of each turn, `pending` the freeform actions, `log` the rows of
`action_log` with the columns of before- and after-state an undo understands,
`call[h]`, and histories: `loose` (cells changed since the log last spoke of
them), `landed`, `disputed`.

| action | code |
| --- | --- |
| `OverrideHp`, `OverridePlace`, `OverrideConditions`, `OverrideExhaustion` | the DM's overrides come in (runOverride) |
| `Undo` | UndoLastAction lists the rows of the active turn, before the lock |
| `Read`, `Refuse` | withTurnLock and GetCombatant; a row of which undo knows nothing is refused with 422 |
| `Damage`, `Faint`, `Settle`, `Place`, `Conditions` | dispatchUndo and the overrides: fewer hit points go through ApplyDamage, whose hook may let the character fall, before they are asserted |
| `Resolve`, `Aim`, `Hurt`, `Afflict`, `Shift`, `Down`, `Review`, `MarkResolved` | ResolvePendingAction: its effects, the state after, the status |
| `EnemyTurn`, `March` | ExecuteEnemyTurn, which takes no lock |
| `Write`, `WriteShift`, `ShiftUnlogged` | the rows of the log |
| `Ask`, `Cancel`, `Find`, `FindNone`, `Void`, `Lapse` | FreeformAction, `/action cancel` under its gate, the timer voiding what is pending |
| `Elsewhere`, `Record`, `AdvanceTurn`, `Fault` | other writers, rows that tell nothing, a change of turn, any failure or a lock not granted |

Abstractions: `is_alive` and temporary hit points are written with the hit points;
the overrides of initiative, slots, feature uses and turn resources are rows an
undo refuses; the action a cancel refunds is a column of `turns`.

What the documents say and the code does not, seen here: "Repeatable to walk
back multiple steps" (`docs/dnd-async-discord-spec.md:2885`): the undo's own row is
the newest, so the second press redoes what the first undid
(`combat/dm_dashboard_undo.go:105-107` says so); the row of a resolved action has
the keys `hp` and `position` where undo reads `hp_current`, `position_col` and
`position_row` (`combat/dm_dashboard_handler.go:527-545`), so undoing it restores
conditions only, while the undo's row claims all of the old state; attacks,
spells, freeform actions, expiries and drops log rows of `{}`, and undo stops at
the first of them, against "every mutation records before/after" (`:3426`);
legendary and lair actions insert a NULL before-state into a NOT NULL column and
drop the error (`combat/legendary_handler.go:328`).

## 3. The runs

Passing runs:

| run | instance | shows |
| --- | --- | --- |
| `turn_order` | four combatants, one of them a summon without a seat; one caller, one statement that fails, one surprise, the timer, 3 rounds, 10 rows | the inductive invariant `TurnLoopInv`; the active turn is the one pointed at or an orphan; no second row in a round; order; full rounds; AdvanceTurn drops no enemy turn; refinement of `RoundRobin`; with fairness, whoever can act comes up unless the loop is blocked |
| `gate_mixed` | five commands: a cast by the DM, an attack, a `/use`, a move button and the restore; a change of turn; every failure | the inductive invariant `GateInv` (no lock is left behind); a turn written under its lock is exact; its action and attacks are not both spent unless `/use` came first |
| `timer` | a player and a creature at one table, a player at another without a channel; two rows, one fault, clock to 4 | the inductive invariant `TimerInv` (nothing marked unsent, no unearned absence); nothing resolved unasked or before its full time; no timeout missed, undecided turns end |
| `dying` | one character of 3 hit points, hits up to 6, two handlers, two that stop half-way | the inductive invariant `DyingInv`; whoever wakes whole wakes clean, dying ends; refinement of `DeathSaves` |
| `treasury` | two player characters and one creature, one kind of item, two handlers, four starts, any statement may fail, any sheet be unread | items and gold are conserved, a failing handler copies nothing, no overselling, one claim |
| `concentration` | two casters, five spells with every combination of mark, veil, area, hold and Silence, two casts, one upset | nothing outlives its spell, Silence and incapacitation end it; refinement of `Sustained` |
| `saves` | two targets, one of them a monster, one spell, two casts, three rows, two handlers, one fault | no roll waits for nobody, a cast lands together |
| `desk` | a hero and an orc, two handlers, two turns, three calls, three log rows | the log tells the row, undo takes back one step, an action takes effect once |

Violations of a sentence of the repository (quoted under `findings`):

| run | what happens |
| --- | --- |
| `double_click` | two clicks on one End Turn button overlap: the second ends the next combatant's turn |
| `heals_without_the_hook` | a healing spell lifts a character from zero and leaves it unconscious with its tallies |
| `repeated_drives` | two `/save` of one player overlap: the spell hits it twice |
| `rolls_never_land` | the turn timer rolls the last save of a spell and nothing drives the landing: every save is in, and nobody is hit |

Bounds. `LastRound` and `MaxTurns` stop calls from *starting* (`Room`), never
one in flight: three rounds allow a round that closes, one that is rolled over
inside a call with everybody skipped, and the turn after it. Three seats are the
fewest where "before", "after" and "somebody else" differ, and the fourth
combatant has none. Two callers are the fewest that overlap; `turn_order` needs
one, and one statement that fails. One combatant is held and recovers and the
creature may die; a repeat save and dying, which `Verdict` treats as being able,
are left to the safety proofs, and progress is not checked with them. Five commands are each way to spend the action and the
attacks, a move, and a write without the gate; `/give` writes as the restore
does, and `/bonus` differs from `/attack` only in reading the pointer again. Two
turns of one player are the fewest in which a command can land on the wrong one.
In `Dying` three hit points and six of damage allow a hit that leaves some, one
that takes all, and massive damage both from above and at zero. The clock
(`Horizon`) leaves room for a turn seated, reseated after a timeout, and seen
out with the DM's hour; one fault meets every statement of a poll.

In `treasury` two handlers overlap, purses and shelf are small enough that the
second purchase does not fit, and four starts let a claim, a purchase, a gift
and the clearing of the pool follow each other. In `concentration` two casts are
a spell and the spell that ends it; the upset is a failed statement, a forced
move or an incapacitation from elsewhere. In `saves` three rows are a cast on
two targets and one row of another cast of the same spell, which is what a
cancellation by spell and level confuses; the fault meets every statement of a
drive. In `desk` one point of damage is a fall, three calls are an override,
another one and the undo of either, and three log rows hold a row, the one
before it and the undo's own. Larger instances passed while the modules were
written: `concentration` with three spells and three casts (1,358,719 states),
`saves` with two spells and no fault (3,718,547), `desk` with one handler and
four calls (3,444,072). The instances here reach 852,915 states in `desk`,
1,289,008 in `treasury`, 862,614 in `concentration` and 2,902,030 in `saves`.

The bounds stop the system at the end of a run, and death ends `Dying`: hence
`CHECK_DEADLOCK FALSE`. Symmetry is used in `concentration` (the two casters are
alike), `saves` (the handlers) and `desk` (handlers and places), which check no
liveness.

Fairness. `FairSpec` of `TurnOrder` assumes that a started AdvanceTurn or
EndCombat reaches its end (each statement returns or fails), that somebody goes
on pressing End Turn whenever no handler is in flight (the DM can always do so,
and without it nothing moves, for the timer completes a turn and does not
advance), and that enemy turns are executed. The last is strong fairness: the DM
who is reseating, which disables the execution of the displaced creature's turn
each time, executes one in the end. `FairSpec` of `TurnTimer` assumes the ticker
(`PollStep`) and the clock; faults and crashes are bounded, which is "the
database comes back". `FairSpec` of `Dying` assumes that statements return and
that a dying character which can roll over and over rolls in the end (strong
fairness, since damage and stabilising interrupt it): the loop seats the dying
in every round, and if the player does not roll the timer does. `Treasury`,
`Concentration`, `SpellSaves` and `Desk` assume none: a statement may fail and
nobody repeats it, so their specifications promise nothing that must eventually
happen.

## 4. What is proved

All theorems hold for every value of the constants that satisfies the modules'
assumptions: any number of combatants, commands, turns, resources, any timeouts.

**TurnOrder** (`SerialSpec`). `OneRowPerRound` is not inductive: a skip or a
new row is safe only because of what the call in flight knows. `TurnLoopInv`
adds it: at most one call is in flight; its round is the encounter's; once it
has completed its turn no row is active but orphans; the candidates it still holds
have no row in its round; no row lies in a later round; outside the step from
`Activate` to `Point` the active row that is no orphan is the pointed one, and the
encounter never points at an orphan. From it follow `NobodyActsTwice` and
`PointerAgrees`.

Order and completeness of a round need more, because the pass works on a list of
combatants read once. `PassInv` (`PassInvariant`) adds what the list is worth:
rows belong to seated combatants; whoever the pass has seen alive and no longer
holds as a candidate has a row in its round; when it is about to roll the round,
everybody it has seen alive has one; a call that is about to complete a creature's
turn has seen that turn executed, unless the timer has ended it. Each statement is
then shown to be orderly (`PassStep`): it is a step of `RoundRobin` or leaves its
variables alone, it gives the floor past nobody it has seen alive, it moves the
round only when everybody had a row, and it completes no creature's turn that was
not executed unless the timer had listed it. From it follow `SeatsComeInOrder`,
`RoundsCloseFull`, `EnemyTurnsAreKept` and `TheLoopIsARoundRobin`, which is
`ImplementsRoundRobin`: the initial state maps to the initial state, every
statement, stopped calls and late resolutions among them, to a step or a stutter.
`RoundRobin` has no fairness, so nothing about liveness is claimed by it.

**TurnGate**. `GateInv` holds under `Spec`, with every overlap: whoever is
inside the gate holds the lock (`HoldsLock`), and a copy read under the lock of
a turn without strays is still the row and still affords the spend
(`FreshCopy`). What the row of such a turn says is `Balance` of what was
charged: the action and attacks are coupled there as in `Charged`, and uncoupled
once a compare-and-set has spent the action. That is what
`CoveredTurnsStayExact` and `ActionsAreSpentOnce` need; `LocksAreNotOrphaned` is
another conjunct.

**TurnTimer**. `TimerInv` (`Spec`: faults, crashes, reseats and every other handler
included) says what the poller relies on: what is being marked was sent to whoever
holds the row, what is being resolved was prompted and has had its full time, the
copy of the count is current, and the count with the resolution in hand stays
within the turns closed; each unless the row is `usurped`. The timeout of a row is
its start and the timeout together, however often it was reseated. From it follow
`MarksFollowMessages`, `DmIsAskedFirst`, `PlayersHaveTheFullTime` and
`AbsenceIsEarned`.

**Dying**. `RowsStayRows` is typing, with every overlap. Under `SerialSpec` the
properties are not inductive, because between two statements the columns do
disagree. `DyingInv` speaks of the row as the handler in flight will leave it
(`Will`): no two handlers are in flight (`Alone`), the dead have no hit points, and
unless something is `loose` the columns of that row agree (`Coherent`). From it
follow `TheHealedAreAwake`, and `HandlersFollowTheRules`: each beginning of a
handler, whomever it works on and wherever it will stop, is a step of `DeathSaves`,
a rule or one of the six deviations, and each statement after it a stutter.

**Treasury**. `TreasuryInv` (`TreasuryHolds`) is typing of the columns and of the
locals of each handler, what a handler knows of the rows it read, the balance of
the shelf (what was sold and what is reserved stay within what the DM put there)
and that no row of loot has two winners. From it follow `ShelfNeverOversold`,
`PursesNeverOverdrawn` and `LootClaimedOnce`.

The sums over all characters are counted, not folded: `Units(f)` has one element
for each unit a function holds and `Total(f)` is its cardinality, less that of
what is owed, so the library's theorems on finite sets prove that changing one
value changes the total by the difference, for characters, handlers, rows and
wares in any (finite) number. `TreasuryBooks` (`BooksBalance`) adds to
`TreasuryInv` what makes conservation inductive: inventories, copies and rows
hold natural numbers; a pool that does not exist holds no gold, and only an
existing one is split; what a handler has in hand between two statements is
exactly what its step and its locals say (`AccountsForItsHand`: the unit being
bought or granted, the copies of the creatures already emptied and not yet
stowed, and for a split minus one share for each character already paid), and it
never takes more out of a copy than the copy holds (`CopiesAreBags`). Each
statement then moves what it takes, or enters it in the account of what was
cleared unread, unless it writes from a copy that is out of date (`overwritten`)
or is the last of a handler that holds something (`cutShort`). From it follow
`ItemsAreConserved`, `GoldIsConserved` and `FailuresOnlyLose`.

**Concentration**. `IInv` (`ConcentrationHolds`) is typing, `NoOrphans` and four
facts about what a handler in flight still has to do: a break in progress has every
remaining bearer on its list or its zones still to delete (`BreakOK`), a cast that
is about to write the columns has stripped the previous spell (`TaskOK`), whoever
concentrates in Silence is about to be checked (`SilenceOK`), whoever is
incapacitated is about to let go (`LetGoOK`). The property without the list would
be false between two statements. From it follow `NothingOrphaned`,
`SilenceIsHeard`, `IncapacityBreaks`, and `ConcentrationKeepsItsPromise`: every
step of every handler is a step of `Sustained` or changes nothing of it.

**SpellSaves**. `IInv` (`SavesHold`) with every overlap: which rows a task may name
(`TasksOK`), how casts share the table (`CastsOK`), what is on a drive's list and
that lists are disjoint unless contested (`ListsOK`), how often each row was hit by
now (`HitsOK`), that a settled cast whose rolls wait is on somebody's way
(`DrivenOK`), and that hits presuppose a complete cast (`TogetherOK`). From it
follow `RollsAreDriven`, `CastsLandTogether` and `RowsTyped`.

**Desk**. `IInv` (`DeskHolds`) with every overlap and failure: the step a handler is
at is the one its list of columns says, and what it holds of a row is what the log
last told unless it was spoiled meanwhile (`HandlersOK`); every log row's
before-state is what the log told before it, in the columns its writer was sure
of, and an undo's after-state is the before-state of the row it undoes (`LogOK`); a
cell that is not loose is what the log told (`ToldOK`); whoever has an undisputed
action in hand has it alone, pending, and landed only when it is about to be
marked (`HandOK`); an action in nobody's hand has landed exactly if it is resolved
(`FreeOK`). From it follow `LogIsTrue`, `UndoIsOneStep`, `ActionsApplyOnce` and
`DeskTyped`.

TLC checks every property listed with a run, and with it most of what is proved.
Proved and not part of a run here, because a run says more elsewhere or because
the theorem is a step on the way: `NoOrphanLock`, `NoOverdraft`,
`MarkedWasSent`, `AbsenceNotOvercounted`, `PassInv`, `TreasuryInv`,
`TreasuryBooks`, the typing of `Dying`, `Concentration`, `SpellSaves` and `Desk`
and the inductive invariants of the last three; each of them was checked by TLC
on small instances before it was proved.

Only model-checked: the liveness properties `EveryoneComesUp`,
`NoTimeoutMissed`, `UndecidedTurnsEnd` and `DyingEnds` (liveness under fairness is
outside the proof system's reach). Every invariant and every action property of
the passing runs is proved.

## 5. Not modelled, and the plan

Left out of the models, beyond what is named above: the content of messages;
pings and message failures after a turn is opened; ResolveReaction, the refund
of a cancelled action and the DM's overrides of turn resources in the gate; hit
points that a gated command writes from a copy read before it
(`discord/use_handler.go:554`); what a Dodge, a class feature or an attack does
to numbers; `combat/timer_overrides.go`; the character write-back of EndCombat.
A reseat in round 1 can seat a surprised combatant, and an AdvanceTurn after
EndCombat opens a new timed turn, because `current_turn_id` stays; both are
behaviours of the models no property speaks about yet.

Also read in the code while modelling, and neither part of a model's property nor
refuted by a sentence of the repository:

- a save the turn timer rolls ignores the row's cover bonus;
- a DM's click on the second pending row of a monster resolves its oldest one;
- `/save con` never resolves a concentration save: only the timer does
  (`cmd/dndnd/main.go:1618`; the specification has the player roll it,
  `docs/dnd-async-discord-spec.md:911`);
- an area spell whose targets are all spared by Careful Spell has every row rolled
  at once, and nobody drives the landing;
- cancelling a cast voids the rows of another cast of the same spell and level,
  because rows are found by their source text;
- a drive looks its caster up once, and `dropConcentrationIfAllSaved` counts failed
  rows of an earlier cast;
- a repeat save that ends a condition breaks whatever its caster concentrates on by
  then;
- an enemy turn whose re-read fails logs its before-state as its after-state;
- the DM's override of hit points to 0 sets a player character's `is_alive` to
  false, where damage to 0 makes it dying;
- the reply "already resolved" of a cancel cannot be reached: the query it follows
  lists pending rows only.

In this order:

1. **Overlaps of Dying**: two handlers of different kinds on one row; what still
   holds of it then, and its theorem.
2. **The end of combat**: the write-back of hit points and conditions, loot, and
   an AdvanceTurn that comes late.
3. **DM overrides and reactions** in the gate: overrides with a row
   read before the lock, one reaction a round.
4. **DM queue**: items posted, resolved and cancelled against double clicks and a
   crash between row and message.
5. **Rest, level up and portal tokens**: approvals that are late or repeated.
6. **Pure algorithms**: initiative order and its tie-breaks, path search against
   a reference definition of the cheapest path.
7. **Proofs**: what still holds of a row of `Dying` under overlaps, with item 1;
   which turns a command may spend on when the pointer moves under it.
