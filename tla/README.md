# lean-ftl in TLA+

lean-ftl is a C library that stores data in flash so that an update cut by a
power loss takes effect whole or not at all ("anti-tearing"), and that spreads
the erasures over the slots of an area ("wear leveling"). This directory holds
TLA+ models of it, TLC runs, and TLAPS proofs. File and line references are to
`src/liblean-ftl/source/ftl.c` unless they say otherwise.

## The system

| component | state | operations | interacts with |
|---|---|---|---|
| area engine, `ftl.c:98-643` | flash: the slots of an area, each with data, version, checksum, checksum2; RAM: `ctx->data`, `ctx->transaction_tracker` (`lftl_ctx_t`, lean-ftl.h:137-154) | `find_current_slot` (search and repair), `lftl_format`, `lftl_basic_write`, `lftl_erase_all`, `lftl_read`, `lftl_transaction_start/write/commit/abort/read`, dispatchers `lftl_write`, `lftl_read_newer` | flash callbacks, `error_handler` |
| byte level of writes, `ftl.c:319-419, 530-575, 614-641` | a write-unit buffer on the stack, tracker bits | merging of unaligned head and tail with the current data, tracker marking, `lftl_transaction_write_any` | area engine |
| area geometry and helper macros, `ftl.c:98-160`, `lean-ftl.h:569-642` | none (arithmetic on `lftl_nvm_props_t` and sizes) | `slot_size`, `n_slots`, `meta_offset`, `LFTL_AREA`, `LFTL_MEMSET_WHOLE_AREA` | area engine, application |
| registry and address routing, `ftl.c:64-77, 235-283, 471-501, 661-694` | a circular list of contexts through `ctx->next` | `lftl_init_lib`, `lftl_register_area`, `lftl_get_ctx`, `is_in_any_nvm`, `translate_addr`, `lftl_memread`, `lftl_memread_newer` | area engine |
| checksum, `ftl.c:44-58, 80-92` | none | `crc32c` and its reading of the data through a buffer | area engine |
| flash callbacks, `lean-ftl.h:75-124` | flash cells | `erase`, `write`, `read`, each with a status | area engine, drivers |
| STM32L5/U5 drivers, `src/target/stm32/stm32{l5,u5}-accessors.c` | flash controller (lock, mode, bank and page, busy), PRIMASK, instruction cache | `nvm_erase`, `nvm_write` | area engine, flash controller, interrupts |
| CH32V307 driver, `src/target/ch32v307/ch32v307-accessors.c` | flash controller | `nvm_erase`, `nvm_write` over the vendor's functions | area engine, flash controller |
| Linux target and tearing emulator, `src/target/linux/linux-accessors.c` | a memory image, the tearing counter and target | `nvm_erase`, `nvm_write`, `tearing_sim_*` | area engine, test harness |
| test harness, `src/liblean-ftl-test/source/test.c` | a reference of the data of two areas, the one before the last update, one per open transaction; the loop over the targets | wrappers of the library, `test_and_simulate_tearing`, `exception_handler`, `check_nvm` | area engine, emulator |
| self tests, examples, board support, build | | | |

How they interact: the application passes *logical* addresses (those of the
first slot); the engine finds the current slot, translates the address, and
calls the driver. An error in any callback or check goes to
`error_handler`, which must not return (lean-ftl.h:126-135): it long-jumps to
the application, so a call can be abandoned at any point with RAM kept. A reset
abandons it with RAM lost. Everything is single-threaded; what is hard is
*where* a sequence of calls can be cut and what a half-programmed cell reads
as afterwards, time after time.

What makes each part correct:

- **engine**: a search elects the last complete update or, whole, the one that
  was cut; what was once read is not rolled back; no cell is programmed twice
  between erasures; the slot with the data is never erased; every call ends;
  a transaction reads its own writes and is invisible until committed.
- **byte level**: a write changes exactly the bytes it names; a transaction
  programs every unit once; a read of any size returns what bytewise overlay says.
- **geometry**: slots and metadata do not overlap, fit in the area and are
  aligned to pages and write units; the reserved area holds the slots declared.
- **registry**: an address is found in at most one context; routing agrees with
  the access functions.
- **checksum**: what an interrupted program leaves is told from the data; an
  erased word is not the sum of anything that fits.
- **drivers**: a range is done whole and in order or the caller is told; nothing
  else is touched; lock, cache and interrupts are put back on every way out; the
  flash is left alone while it is busy; every call returns.
- **emulator and harness**: each test is torn once before every write unit;
  a library that works raises no alarm, one that does not is
  reported; no format is torn.

`PROJECT.json` lists the hazards with the line where each bites and the
properties that would catch it.

## Modules

| module | what it is |
|---|---|
| `LftlNvm` | the flash physics: what a program or erase pulse does to a cell, complete or cut. A cell is the set of values a read may return; one with a single member is sound. External: modelled from the callback contract |
| `LftlStore` | abstract specification: one value, changed only as a whole, plus an update in doubt that may take effect once |
| `LftlArea` | the area engine, one flash operation per step |
| `LftlAreaStore` | the refinement: `LftlArea` implements `LftlStore` |
| `LftlAreaInv` | the inductive invariant `IInv`, in named parts |
| `LftlAreaProofs` | typing lemmas and theorem `TypeCorrect`; then one lemma per action, or per flash operation, for the invariant of a formatted area |
| `LftlAreaTheorems` | life of an area before and during its format, and theorems `Inductive`, `AntiTearingHolds`, `AreaImplementsStore`, `ProgrammedOnErased`, `ErasedInTurn`, `SearchesSucceed` and `EveryCallEnds` |
| `MCLftlArea` | the definitions the TLC configurations substitute for `TornProgramVersion` and `TornEraseVersion` |
| `LftlWrite` | writes and reads byte by byte: merging in `write_core`, tracker, transactions at any address and size |
| `LftlWriteProofs` | theorems `WriteTyped`, `TrackerIsExact`, `UnitsProgrammedOnce` and `BytesAsNamed` |
| `LftlGeometry` | sizes and places of slots and metadata, `next_slot`, `LFTL_AREA`, `LFTL_MEMSET_WHOLE_AREA` |
| `LftlGeometryProofs` | theorems `SlotsTyped`, `AreaFits`, `WearIsEven`, `FactorReserved` and `MemsetFromFirstSlot` |
| `LftlRegistry` | the ring of registered contexts and the lookups that route an address |
| `LftlRegistryProofs` | theorems `RegistryTyped`, `AreasInRing`, `LookupsProgress`, `AddressesRouted` and `LookupsAdvance` |
| `MCLftlRegistry` | three areas in two flashes |
| `LftlCallbacks` | abstract specification: what the library asks of `nvm_erase` and `nvm_write` |
| `LftlDriver` | the drivers of the STM32L5/U5, the CH32V307 and the Linux target, and the refinement: they implement `LftlCallbacks` |
| `LftlDriverProofs` | theorems `DriversRestore`, `OperationsUndisturbed`, `ErrorsStop`, `CallsAdvance`, and `DriversKeepContract`, the refinement |
| `LftlChecksum` | `crc32c` and `checksum` on bits, byte after byte and chunk after chunk |
| `LftlChecksumProofs` | theorems `ShortBurstDetected`, `OddNumberDetected`, `TwoBitsDetected` and `ErasedWordRejected` |
| `MCLftlChecksum` | the differences between data that TLC tries |
| `LftlTearing` | the tearing emulator of the Linux target |
| `LftlHarness` | the test harness: wrappers, references, long jumps and the sweep, on the emulator and on a library that may be broken |
| `LftlHarnessProofs` | theorems `FormatsNotTorn`, `ReferenceInSync`, `NoAlarmIsFalse`, `MixingIsReported`, `EachRunTornOnce`, `SweepIsExhaustive` and `EachStepAdvances` |
| `MCLftlHarness` | small tests, made of the calls of the tests of `test.c` |

`LftlArea` and `LftlWrite` model the same functions at two levels. The first has
every point at which a call can be cut and the physics of cut operations, on whole
units; the second has every byte, without failures, and a call in two steps. Both
implement `LftlStore`. `LftlArea` numbers its slots and takes the next one
from the ring; that `next_slot` computes this ring from addresses is in
`LftlGeometry`. Which area a call reaches is decided in `LftlRegistry`.

### State of `LftlArea`

| variable | code |
|---|---|
| `nvm` | the cells of every slot: data units, `version`, `checksum`, `checksum2` |
| `data` | `ctx->data`: `LFTL_INVALID_POINTER` (`None`) until a search or a format sets it |
| `tracker` | `ctx->transaction_tracker` and the bits it points to |
| `pc`, `call`, `todo`, `meta`, `scan` | the call being executed: where it stands, its arguments, the units it still has to program, the `lftl_meta_t` it writes, the loop variables of `find_current_slot` |
| `err` | the last argument of `error_handler` |
| `spoiled`, `formatted` | what the discipline of the application depends on |
| `cur`, `value`, `pending`, `txn`, `out` | history: the committed slot and data, the update left in doubt, the open transaction's writes, the last result. No guard of a code action reads them |

### Actions

A call begins with `Call…` (any function, any legal or illegal range), goes
through the checks in the code's order (`Check` before the search,
`CheckResolved` after it: `Refuse` raises what they say), searches if the
function does (`BeginSearch`, `ScanSlot`, `ScanCollides`, `NoValidVersion`,
`Resolve`), then executes: `Read`, `TransactionRead`, or an update: `BeginUpdate`
(`EraseAll`: an update that programs no data) /
`Start` / `TransactionWrite` / `Commit` / `Format`, `EraseSlot` or `EraseArea`,
`ProgramUnit` per unit, `Seal` (compute version and checksum), `WriteVersion`,
`WriteSum`, and the programming of checksum2, which returns (`UpdateDone`,
`FormatDone`) or resumes the interrupted call (`RepairDone`).

`write_meta_core` programs version and checksum with one `nvm_write` of two
units; the model takes two steps, each of which can be cut, so that every prefix
that the driver can leave is reachable.

`Reset` and `NvmError` are possible in every state and, through `CutShort`, in
the middle of any flash operation. A slot is erased page by page, so a cut
erasure leaves a blank prefix, a disturbed page and an intact rest.

### The other modules

- `LftlStore`: `value` is what the area holds, `request` the update or read
  being executed (`Asked` in the modules that implement it), `pending` an update
  in doubt.
- `LftlWrite`: `cur` and `next` are the data of the two slots involved,
  `tracker` the bits, `call` the arguments. `Call…` chooses them, `Refuse` raises
  the first check that fails, `BasicWrite`, `TransactionWrite`, `Commit`, `Read`,
  `TransactionRead` execute the whole function. `Head`, `Body`, `Tail`, `Prefix`
  and `Suffix` are the parts of `write_core` between its comments, in order;
  `Span` and `Marked` the loops over the tracker.
- `LftlGeometry`: `ctx` holds the sizes, `data` the offset of `ctx->data`, `open` says whether
  `ctx->transaction_tracker` is set; the size operators have the names of the functions. `BasicWrite`
  keeps of a call which slot it writes and whether it is refused. `MemsetWholeArea` is the macro: `Span`
  has the units that each of its writes marks before the range is checked, `TrackerUnits` those the tracker on
  its stack has bits for. The RAM beside the tracker is not modelled: a bit there may be found set
  (`MemsetOverwrites`) or is set, and what it belonged to is overwritten.
- `LftlRegistry`: `next`, `first_area`, `last_area`, `has_several_nvms` are the
  variables of the code; `walk` is the position of a lookup, which visits one
  context per step (`Found`, `Follow`, `NotFound`, then the flashes: `FoundNvm`,
  `NotInNvm`). `out.route` is what `lftl_memread` does with the address.
- `LftlDriver`: `flash` is the controller as the driver programs it, `cpu` PRIMASK
  and the cache, `saved` the local variables `primask` and `icache_enabled`. An STM32 call is
  `Enter`, then `PrepareErase` or `PrepareWrite`, `Start`, `Wait` and `Clear` per
  page or for all units of a write, and `Leave`; a CH32V307 call `Unlock`, `VendorStart` and
  `CheckStatus` per page or half-word, and `LockAndVerify`. `Finish` is the flash
  coming to the end of what it was told to do, `PowerCut` a reset at any point of
  a call. With `VendorTimeouts` the vendor's code of the CH32V307 may give up a wait (`FLASH_TIMEOUT` in
  `ch32v30x_flash.h`): `CheckStatus` then ends the loop with the flash still busy. The two STM32 files differ in sizes and names only.
- `LftlChecksum`: a word is the set of its bits that are one, exclusive or their symmetric
  difference. `crc` and `crc2` run the function on two data that differ by
  `flip`; `ReadChunk` fills the buffer, `CrcByte` is the loop of `crc32c`, `Compare` the
  end.
- `LftlTearing`: `cnt` and `stop` are `tearing_sim_cnt` and
  `tearing_sim_target_cnt`; `Operate` is what `nvm_erase` and `nvm_write` do to them.
- `LftlHarness`: a test is a sequence of calls of the wrappers, each with the sizes of the
  flash operations it makes, whole units all of them. `Begin`, `Format`, `FunctionalTest`, `Counted`,
  `StartSweep`, `NextTarget`, `Pass` are `test_and_simulate_tearing`;
  `HandleTearing`, `HandleError`, `HandlerOver` are `exception_handler`; `Wrap` what each
  wrapper does to `nvm_ref`, `nvm_ref_previous_state` and `transaction_buf_ref`. The library is what
  `LftlStore` promises, except for what `Faults` lets it do once: mix old and
  new data in a torn update, refuse a legal call, or raise
  `LFTL_INTERNAL_ERROR`. Tests are legal (`LegalAssumption`): `Replay` runs one on a library that
  keeps its promise, which accepts each call and returns what `verify` expects; the test leaves no
  transaction open, and writes directly to no area that has one, as the tests of `test.c`.

### Abstractions, and what they hide

- `LftlArea` counts data in write units; `LftlWrite` has the bytes.
- The checksum is the pair of what it is computed from: collisions of
  the CRC are not considered in `LftlArea` (what it detects is in `LftlChecksum`), nor of "sum plus version" (`ftl.c:166`).
- Version words are `0..MaxVersion + 2`, the last standing for `0xFFFFFFFF`;
  `VersionBound` starts no update when a slot may hold `MaxVersion`.
- What a cut version word reads as is a parameter. `HalfProgrammedWord`: it has
  kept some of its ones, and so reads as the new number or more.
  `FarWord`: never a number in use. `AnyWord`: anything.
- The source of a write is RAM, or in `LftlWrite` data of the same area.
- `ReadSizes` bounds the sizes `lftl_read` is called with, at every address: none,
  a byte, part of the area, all of it. Alignment plays no part in that copy.
- Application discipline: calls are sequential; after one of the calls of a transaction
  has raised an error there is no write, read or commit in it any more: it is aborted, or its area written or formatted
  or the context reset (`spoiled`; a commit that follows a refused write would
  publish units that were marked and not programmed). The documentation does not ask for this, and what happens
  in a transaction that goes on after an error of the driver is not modelled. A refused write that lies past the data also marks bits
  past the end of the tracker, which is other RAM: addresses are bounded to the first unit after the data.
  A format that was cut is made again
  before anything else, since the library documents that `lftl_format` is not
  protected; one that is made while a transaction is open leaves the transaction open, as in the code, with what it wrote erased
  and still marked. `lftl_transaction_read` stays inside the data
  since the function checks no range; each area is registered once, before its first use.
- `lftl_transaction_start` with `ctx->data` invalid computes an address that wraps around to less than a slot. `StrayErase`
  says what the driver does with it: `FALSE`, it refuses; `TRUE`, it erases elsewhere and returns 0, as that of the
  CH32V307 does (ch32v307-accessors.c:36-38). The pages it erases there have no state in `LftlArea`.
- `LftlDriver`: units and addresses are counted in half units; the products
  `n_pages * page_size` do not wrap around. The controller is external, as the drivers use
  it. `FaultyErases` says on which targets an erase may fail: not on an STM32,
  whose driver returns 0 without reading the error flags, so that `Contract` does not
  hold there. With nothing to do, the Linux driver still checks its arguments,
  where lean-ftl.h:79 asks for an immediate 0: `Decline` has both.
- `LftlChecksum`: the feedback of a byte is computed bit by bit, as in the code;
  what checksums of two *unrelated* data have in common is not considered.
- `LftlHarness`: what is compared is the data of the areas, in units; the
  end of a test in `exit` and the messages are states (`abort`, `over`). A test in which the
  library has failed is the last one.

## Runs

Passing:

| run | bounds | shows |
|---|---|---|
| `area_ring3` | 3 slots, 2 units, 1 value, versions to 4 | `TypeOK`, `AntiTearing`, `SearchSucceeds`, `NothingOverprogrammed`, slots are erased in turn (`OldestErased`), and every call ends (`CallEnds`) |
| `area_store` | 2 slots, 2 units, 2 values, versions to 3, cut version words read as anything | `IInv`, the invariant that is proved, and `StoreSpec`, the refinement of the abstract store: a search that fails does no harm |
| `write_bytes` | 3 units of 3 bytes, 2 writes of any kind, address and size, sources in RAM and in the area, commits and reads of any address and size in between | `TypeOK`; every write changes the bytes it names and no other, `lftl_read` returns those it names, and `lftl_transaction_read` those or, when they are not whole units, the units of the size rounded down (`StoreSteps`); the tracker marks what is programmed (`TrackerExact`), nothing is programmed twice |
| `geometry` | units of 1 to 16 bytes and one that is too large, pages of 16 to 256, twelve data sizes, factors 2 to 4, 3 rounds of the ring | `TypeOK`, `SlotsFit`, slots used evenly (`EvenUse`), as many as declared (`SlotsDeclared`; for `LFTL_AREA`, units from 4 bytes), `LFTL_MEMSET_WHOLE_AREA` works from the first slot, and only from there (`MemsetFirstSlotOnly`) |
| `registry` | 3 areas in 2 flashes, 14 addresses, any order of registration, `lftl_init_lib` at any time | `TypeOK`, `Ring`, `Progress`, that lookups end, and where: at the area, the flash or the memory of the address, but for the address after the data or a flash (`Routed`) |
| `drivers` | the three drivers; 2 banks of 2 pages of 2 units, banks swapped or not; 2 calls of any kind, address and size up to 5, misaligned and out of range; flash errors and resets anywhere, `VendorTimeouts = FALSE` | the callback contract (`Contract`), what was changed is put back (`Restored`), a busy flash is left alone (`Undisturbed`), after an error nothing is started and no success is returned (`StopsAtError`), calls return (`CallReturns`) |
| `checksum` | data of 1, 3 and 5 bytes through a buffer of 2; all differences of one or two bits, alone or with a third one, or inside one byte, and bursts of up to 27 bits at every place | a difference in bits that lie within 27 (`BurstDetected`), a wrong byte included, in one or two bits anywhere (`DoubleErrorDetected`), or in an odd number of bits (`OddErrorDetected`) changes the sum, and an erased word is not the sum of any data (`ErasedIsNoSum`) |
| `harness` | two areas of 2 units, eight tests after those of `test.c` and all legal pairs of seven calls, 2 tests in a row, one failure of the library | the reference agrees with the flash (`InSync`), no false alarm, a mixed update is never passed over (`MixingReported`), formats are not torn (`FormatsUntorn`), the sweep tears each test before each unit (`Exhaustive`, `TornAtTarget`), gets closer to its end with each step (`SweepAdvances`) and ends, with the last target or an abort, also on a library that has failed (`SweepEnds`) |

Why these are enough: three slots is the smallest ring in which "the next slot",
"the current slot" and "an older slot" differ and the wrap-around happens more than
once within the versions allowed; two units is the smallest number with a copied
and a written unit, a page boundary inside the data, and a range that starts
inside and ends outside; two values tell a unit of the new data from the same
unit of older data that was also written. Versions up to 4 on three slots reuse
every slot at least once. Resets and driver errors are not bounded: only the
number of completed updates is. Three units of data have a first, a middle and a
last one for a write to begin or end in; units of three bytes have a byte
that is neither the first nor the last, so that a write can lie strictly
inside; two writes are what it takes to collide in a tracker. Three areas are
the smallest number for which a ring has a context that is neither first nor
last; two of them share a flash and the third does not, in every order. The
sizes of `geometry` include slots with and without spare bytes, data that fills a
page, and metadata that needs a page of its own.

Two pages in each of two banks tell a wrong page from a wrong bank; a range of one
page, of several, across the banks, to the end and beyond all occur within the
sizes; a second call is what it takes to start from what the first, or a reset, has
left. Data of 3 and 5 bytes end in a chunk that is shorter than the buffer, after one
or two full ones. Two areas are what the harness has, two units what
it takes for an update to be mixed, and a second test starts from what the first has left in the emulator
and in the references.

Deadlock is checked in every run but `harness`, `drivers` and `checksum`: a harness that
aborts or has run its tests stops, as do the drivers after `MaxCalls`, and a
checksum that is computed.

Fairness: `registry` assumes `WF_vars(Walk)`, that the processor goes on with the
lookup it is in. `drivers` assumes it of the driver (`WF_vars(Driver)`: interrupts are masked on the STM32, and
merely delay the others) and, of the flash, that each operation ends
(`WF_vars(Finish)`), without which the loops on BSY would not. `harness` assumes it of the
test program (`WF_vars(Next)`): a jump of `ui_wait_button` back to the
handler changes nothing, so that this includes that it returns at some time: someone presses the button. The area engine needs none:
`CallEnds` says that each step of a call lowers `StepsLeft`, a bound on the
steps left, so that a call that is executed ends. Nothing is assumed of the
application (it may never call again) nor of resets and errors, whose steps
end a call.

Violations, each a disagreement between the code and what the repository says:

| run | property | what happens |
|---|---|---|
| `viol_first_start` | `TransactionStarts` | `lftl_transaction_start` does not search. As the first use of a context after a reset it computes the slot to erase from an invalid pointer. Most drivers refuse the address; that of the CH32V307 erases the start of its flash, and the transaction begins on a slot that was not erased (with `StrayErase = TRUE` the same property is violated that way, and on `area_ring3` then also `AntiTearing` and `NothingOverprogrammed`) |
| `viol_area_macro` | `SlotsDeclared` | with 2-byte units (as on the CH32V307) `LFTL_AREA` reserves less metadata than the engine uses, and the area may hold a single slot: no write succeeds |
| `viol_meta_buffer` | `MetaBuffered` | `lftl_format` accepts units of up to 128 bytes, where the buffers of the metadata hold three items of 16: larger ones are copied past their end |
| `viol_harness_pass` | `FailureReported` | `err_code` is cleared after the sweep, so a test that has failed with an error counts as passed |

Other disagreements that were met, without a run of their own:

- On flash that erases to zero, an erased version word equals the initial `max_version`
  and is reported as a collision: `SearchSucceeds` does not hold, though README.md:13 promises support
  for any NVM.
- `LFTL_MEMSET_WHOLE_AREA`, which the header says sets a byte value "on an entire LFTL area" (lean-ftl.h:625),
  passes the physical addresses of the current slot where `lftl_transaction_write` takes logical ones (lean-ftl.h:634). It works while
  the data is in slot 0. From any other slot the first write marks units one slot or more too far before its range is
  checked (ftl.c:535-546): their bits lie, for the most part, beyond the tracker on the stack, where RAM is overwritten or a bit that is set
  raises a spurious `LFTL_ERROR_TRANSACTION_OVERWRITE`. Then the write is refused, and `ctx->transaction_tracker`
  keeps pointing to a stack that was left: every later write raises `LFTL_ERROR_TRANSACTION_ONGOING` until
  `lftl_transaction_abort`. `MemsetFirstSlotOnly` says so for all sizes; the data itself is not harmed.
- `lftl_transaction_read`, and `lftl_read_newer` in a transaction, are documented with a size in bytes and no alignment
  (lean-ftl.h:330-341, 414-425). The code rounds the size down to whole units, and the address to the unit that holds it (ftl.c:618): the
  destination begins with other bytes, and its end is not written. `StoreSteps` has both cases.
- The loop of the emulator stops at `tsize` instead of `size` (linux-accessors.c:57-62), so that
  the end of a torn operation is left as written. `Exhaustive` shows that every byte of a test
  is nevertheless inverted in some run.
- `exception_handler` takes any code that ends in 0xFF for a tearing (test.c:529), `LFTL_INTERNAL_ERROR`
  included, which then passes unnoticed: `Faults` has it, and `FormatsUntorn` excludes it since the
  emulator stays armed.
- `check_nvm` accepts the state before the last update also after a call that has returned (test.c:207): an update
  that is lost altogether is not noticed.
- The reference of `erase_all` is cleared from its start whatever the area (test.c:145), which is right for the
  first area, the only one the tests erase.
- `crc32c` is named after CRC-32C, whose polynomial it does not use: with 0x05EC76F1
  (ftl.c:52) the upper five bits of a sum are always 0, so that it is a checksum of 27 bits, and a burst of 28
  can go unnoticed (`MCLftlChecksum` has one). `BurstDetected` is about the shorter ones, none of which can.

The assumptions under which `AntiTearing` is checked and proved are not idle. TLC
finds it violated by the model as soon as one of them is lifted in a configuration:

- `"repair" \in FaultyOps`: `ctx->data` is set before the repair (ftl.c:222); if the
  driver fails there, the next call trusts a slot that was not repaired.
- `"reread" \in FaultyOps`: the same, when the read of the metadata between the two (ftl.c:225) fails.
- `StableReads = FALSE`: the search reads the metadata several times, and confirms a
  checksum that only one of its reads saw.
- `WeakErase = TRUE`: a slot in doubt is erased with its metadata intact; weakly
  erased, it may still be elected later.
- `ReprogramDisturbs = TRUE`: a second, cut programming of what a cell already
  holds may weaken it.

Likewise `SearchSucceeds` needs `FarWord` (in the proofs, `SoundWords`): the version of a slot is compared before
its integrity (ftl.c:209), so a half-erased word that happens to read as
the current maximum is reported as a collision. `area_store` shows that such a
search does no harm to the data.

## Proofs

`TypeCorrect` is proved of `Spec` with no assumption beyond those on the
constants. `Inductive` (`Spec => []IInv`) and `AntiTearingHolds`
(`Spec => []AntiTearing`) are proved for any number of slots, units, values and
versions, for any reading of a cut version word, with errors from the driver at any
point but two, under

    SoundFlash ==
      /\ StableReads           a weak cell reads the same until the next reset
      /\ ~ReprogramDisturbs    writing again what a sound cell holds is harmless
      /\ ~WeakErase            a disturbed erasure does not read as before
      /\ ~StrayErase           an address outside of the flash is refused
      /\ "repair" \notin FaultyOps /\ "reread" \notin FaultyOps

`AntiTearing` relates the committed slot and the others, and says nothing of the
context or of the call in progress: it is not inductive. A step of an update keeps
it only because of what the previous steps have put in the next slot
(`UpdateProgress`, `TxnSlot`, `FormatProgress`), because the search has not passed the
current slot without keeping one at least as new (`ScanProgress`), because a
repair writes what is already there (`RepairProgress`), because `ctx->data` is the
committed slot or unknown (`DataSettled`), and because a slot left in doubt
is sound as soon as checksum2 can confirm it (`DoubtSound`). `IInv` is the
conjunction of these with the type invariant and `Control`, which ties the RAM
variables to the place in the call.

Structure: `LftlAreaProofs` shows that each action keeps `TypeOK`,
and then for each that it keeps `Control`, `NotFormatted` and, for
the version `vc` of the current slot, `Safe(vc)` (or `Safe(vc + 1)` when the
action makes the next slot current). Cut operations are split by the kind of
flash operation (`EraseCut`, `ProgramCut`, `RepairCut`, `FlashCut`) and joined in
`InterruptionSafe`. `LftlAreaTheorems` adds the steps from never written, through a
format, to formatted (`NeverWrittenStep`, `FormatStep`, `BecomesFormatted`), and
assembles `NextIInv`.

`AreaImplementsStore` (`Spec => StoreSpec`, under `SoundFlash`) is the refinement: each step is one of
`LftlStore` or a stutter. `IInv` says what the flash holds where a call reads it; what is missing is
that calls come one after the other, which is `Sequential`: no update runs beside a transaction, the
writes of a transaction are known only while its tracker is open, and its reads
stay inside the data. `RequestsAssumption` only says that `None` is not a request.

The other theorems of the area look at all slots, and each has an invariant of its own beside `IInv`:

- `ProgrammedOnErased` (`Spec => []NothingOverprogrammed`, under `SoundFlash`): `AllProper` says that
  no cell holds what only a second programming leaves. The case that is not
  obvious is checksum2 of a repair, which may be cut and made again: it is
  erased, or may be read as the checksum that is written again.
- `ErasedInTurn` (`Spec => OldestErased`, under `SoundFlash`): `Aged` follows the versions along the ring. Each slot holds the
  version that was current when it was (`vc - Behind(s)`), or nothing since the format, or is
  the next one and being written (`Fresh`), after as many updates, errors and resets as there may be.
- `SearchesSucceed` (`Spec => []SearchSucceeds`) needs `SoundWords` besides: the erased word is
  `0xFFFFFFFF`, a cut version word reads as the new number or more, and after a cut
  erasure as no number in use. The search compares the version before it checks
  the integrity (ftl.c:209), so the words of slots that are in doubt matter, and
  `Aged` says of all slots that their words differ. `area_ring3` gives words that satisfy it
  (`HalfProgrammedWord`, `FarWord`).
- `EveryCallEnds` (`Spec => CallEnds`) has no assumption on the flash: it follows from what each place in a call
  still has to do, a repair and the call that it interrupts included.

`WriteTyped`, `TrackerIsExact`, `UnitsProgrammedOnce` (`TypeOK`, `TrackerExact` and `ProgrammedOnce` always hold) and `BytesAsNamed`
(`Spec => StoreSteps`) are proved for units and data of any size, any address, size and source of a write, under
the assumptions of `LftlWrite` on its constants (the data is whole units; `None`, `Erased` and `Spoiled` are no data). The core is
`CoreProgrammed`: `Head`, `Body` and `Tail` together program the units around the write, each once, with the
bytes of the source over the current data. It follows the code: `Reached` says how far the write has got
after the first unit and what remains of `size`, `size_aligned` and the source. The invariant then says that the next slot
holds, in the units that are marked, the transaction over the data, and is erased elsewhere (`NextSlot`).
A write that `write_core` refuses has marked its units already (ftl.c:544). From then on `TrackerExact` still says that a unit
that is not marked is erased, which is what the commit relies on, and claims nothing of the units that are marked.

`RegistryTyped`, `AreasInRing`, `LookupsProgress` and `AddressesRouted` (`TypeOK`, `Ring`, `Progress` and `Routed` always hold) are proved for
any number of contexts, flashes and addresses, under `LayoutAssumption` (types),
`AreasApart` (the data of two areas do not touch, since the metadata of a slot
lies between them) and `FlashesApart` (neither do two flashes). The conjunction of the four is inductive (lemma `RegistryCorrect`):
`Routed` needs `Progress`, that a lookup has seen every context before the one
it is at, and this needs `Ring`. The lemmas follow the operations:
`RegisterKeepsRegistry` for `lftl_register_area`, `FollowKeepsProgress`, and one lemma per
outcome of a step of a lookup.
`LookupsAdvance` (`Spec => LookupAdvances`) rests on the same invariant: in a ring that visits each area once,
`VisitsLeft`, what remains of the areas for the two passes of a lookup, goes down with each step, although the `next` of a context that is
not registered may hold anything.

`DriversRestore` (`Spec => []Restored`) and `OperationsUndisturbed` (`Spec => []Undisturbed`) are proved for a flash
of any size, any arguments, faults and resets, under `GeometryAssumption` and `~VendorTimeouts`. Neither is inductive: what
is put back depends on where the driver has stored it. The invariant is `Shapes` (the fields of the records),
`Control` (what each place in a driver implies for the target and the flash), `Stm32` (which of PRIMASK, cache, lock
and mode are changed at each place, and that `saved` then has what was found) and `Others`. `ErrorsStop`
(`Spec => StopsAtError`) has an invariant of its own, `Stopping`, and needs no `~VendorTimeouts`: a flash that has reported an error is not busy, and nothing is
started before the driver has returned it.
`CallsAdvance` (`Spec => CallAdvances`) bounds every call: `StepsLeft` counts eight steps for each page or unit that is not done, and
what lies between the place in the driver and the next one. It needs that the loops stay within the call (`Bounded`),
also when an error has ended one, and holds with errors of an STM32 as well; it supposes `~VendorTimeouts`.
With `VendorTimeouts = TRUE` TLC finds `Restored`, `Undisturbed` and `Contract` violated on the instance of `drivers` (the flash is busy when the
call returns, and changes later), and `StopsAtError` and `CallReturns` kept.

`DriversKeepContract` (`Spec => Contract`), in the same module, is the refinement of `LftlCallbacks`, for a flash of any number of
pages in two equal banks (`GeometryAssumption`), swapped or not, any arguments, errors and resets, under
`"stm32" \notin FaultyErases` and `~VendorTimeouts`. Its invariant `CInv` adds to the one above where the range of the call lies
(`Range`), how far the driver is in it (`Position`), that the flash works on the units which the address of the
next page or unit maps to (`Selection`: the page and bank registers of an STM32 name the page of the address
also when the banks are swapped), and that what precedes is done unless an error was reported (`Progress`). Each step of a driver
then is a step of `LftlCallbacks` (`Begin`, `Complete`, `Falter`, `Succeed`, `Fail`, `Cut`, or `Decline`) or a stutter.

`SlotsTyped`, `AreaFits`, `WearIsEven`, `FactorReserved` (`TypeOK`, `SlotsFit`, `EvenUse` and `SlotsDeclared` always hold) and
`MemsetFromFirstSlot` (`Spec => MemsetFirstSlotOnly`) are proved for all sizes and factors under `SizesAssumption` (units below 4 bytes divide 4) and `WideUnits`: `LFTL_AREA`
is used with units from 4 bytes, since it reserves too little for smaller ones (`viol_area_macro`). The invariant has the sizes
(`Declared`: the area is `factor` slots long) and the state of the ring (`Turns`: the slots up to the
current one were written `k + 1` times, those after it `k` times), from which the even use follows; the
arithmetic is in lemmas on products, `\div` and `%`.

`ShortBurstDetected`, `OddNumberDetected` and `ErasedWordRejected` are proved for data of any size and content, and a buffer of any size.
They rest on the linearity of the code's loop: the sums of two data differ by what
`CrcByte` makes of their difference alone, which never leaves the lower 27 bits (`Differs`). For a burst (`Short`) it looks at the sums and at the bits of the difference
that are still to be read as one word. That word is not zero, and its bits lie within 27: a step of the division shifts it or,
when its lowest bit is one and it lies in the lowest 27, maps it to another of these words that is not zero (`WideDivideNarrow`).
For an odd number of bits (`Even`) it looks at the same word, `Pending`. The polynomial, with the bit that the shift drops, has an even number
of bits, so that each step keeps the parity of the word (`WideDivideParity`), and a word that is odd is never empty.

`TwoBitsDetected` is proved for any buffer under `WithinPeriods`: dividing a single bit by the polynomial does not give that bit back
within as many steps as the data has bits. This is what two wrong bits need to cancel out, and the theorem says that nothing else in the code's way of
cutting the data into chunks and bytes makes them. The lower bit is divided as soon as it is read, while the other one only moves; `Two` has the three
stages, and the position of the other bit tells which one it is. The polynomial first gives the bit back after 11097260 steps
(found by running the loop of `crc32c`), so that the assumption holds for data of up to 1.38 MB; larger data, which a flash of 4 MB has room for, may have two wrong bits
exactly that far apart, which then go unnoticed.

The theorems of `LftlHarnessProofs` are proved for any number of areas, units and tests of any length, whose calls make flash operations of any
number of units, with any of the `Faults`, under `ConstantsAssumption`, `TestsAssumption` and `LegalAssumption`, and `WriteSize` positive. None of the properties is inductive:
that `check_nvm` finds one of its two references depends on what the wrapper has done before the call that was torn, and that the sweep is
exhaustive on what the emulator counted in the functional run, many runs earlier. `IInv` has

- `Control`, where the harness is and when the emulator can be armed, from which `FormatsNotTorn` follows;
- `Mixed`, that the data of a mixed update differs from both references until `check_nvm` has aborted (`MixingIsReported`);

and, as long as the library has kept its promise,

- `Following`: areas and open transactions are those of the `Replay` of the test up to its next call, the reference is
  what the areas hold before a call and what they will hold during it, the previous one what they held, and the buffer of a transaction is what a commit would make of
  its area (`ReferenceInSync`, `NoAlarmIsFalse`);
- `Counting`: `tearing_sim_cnt` is the number of bytes of the test before the next flash operation, and `target_max` the number of its units;
- `Sweeping`: the targets tried so far are exactly those at which a run was torn, and each
  operation that begins before them was inverted as a whole (`EachRunTornOnce`, `SweepIsExhaustive`).

`EachStepAdvances` (`Spec => SweepAdvances`) needs of these mainly that the target is one of the test (`Control`, `Counting`, `Sweeping`). `Distance` has five natural
numbers, compared in their order: the runs left (the functional run and one for each target, at most `n + 2` for a
test of `n` units), the stage of the run, the calls or formats left in it, and where the call is. A tearing, and the handler
it jumps to, lower the second; `NextTarget` the first.

`Replay` and the sums of bytes are recursive functions on the positions of a test. That they are defined, and that
the sums grow along the test, is proved through the least-number principle (`LeastNatural`, from `WFMin`) instead of the library's
induction: it is about sets, and needs no operator as a parameter.

Only model-checked: the liveness properties `LookupEnds`, `CallReturns` and `SweepEnds`. That fairness makes a step happen is out of the
prover's reach; that steps cannot go on without an end is what `LookupsAdvance`, `CallsAdvance` and `EachStepAdvances` prove, for every size, of
the same specifications. What TLC adds is that the process is never stuck in the middle. Every invariant and every other action property of a passing run is stated by
a theorem. `LftlTearing` has no specification of its own; the theorems of the harness are about its operators as well.

## Plan

Done in this order: the flash and the area engine, the store it implements, the
inductive invariant and its proof, byte level, geometry, registry and
emulator; then the drivers and their contract, the checksum, and the harness; then, as
theorems, the refinement of the contract and of the store, the geometry, the checksum, the wear
of the engine, the byte level, the harness with its emulator, and the termination of calls, lookups and sweeps. What is left: a composition of the registry with two areas
that copy from one to the other (`src_ctx` in `write_core`), and the transaction macros.

## Not modelled, and why

- Board support, start-up code, linker scripts and the vendors' headers: definitions of registers,
  and settings made once before the library runs. The functions of the CH32V307 vendor that the driver calls are
  external parts of `LftlDriver`.
- The data patterns, buttons, LEDs and messages of the self tests: `MCLftlHarness` keeps their calls.
- The file that the Linux target saves its memory in, and its traces.
- The examples: each is a short sequence of calls that the models make in any order.
- Build, release and documentation tooling: no behaviour of their own.
