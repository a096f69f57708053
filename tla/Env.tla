-------------------------------- MODULE Env ---------------------------------
(***************************************************************************)
(* The environment: its copy in RAM (common/env_common.c), the variables   *)
(* commands (common/cmd_nvedit.c) and its image in the SPI flash           *)
(* (cpu/sh/env_eeprom.c), over power losses and resets.                    *)
(*                                                                         *)
(* An environment is a sequence of variables.  The CRC-32 in front of it   *)
(* is idealised: the CRC of a sequence is that sequence, so it matches the *)
(* data exactly when it was computed over them.  The image fills Sectors   *)
(* erase sectors, the first holding the CRC; the k-th variable lies in the *)
(* k-th sector.  saveenv writes the sectors the way FlashStore says: one   *)
(* after the other, each being lost while it is replaced.                  *)
(***************************************************************************)
EXTENDS Integers, Sequences

CONSTANTS
    Names,         \* names of variables
    Baudrate,      \* the name "baudrate"
    ConsoleNames,  \* stdin, stdout, stderr
    Vals,          \* values
    Weight,        \* Weight[v]: room for a variable of value v and the NUL behind it
    EnvSize,       \* ENV_SIZE less the NUL that ends the environment, in that unit
    Supported,     \* values that baudrate_table holds
    ConfigBaudrate,\* CONFIG_BAUDRATE
    Default,       \* default_environment
    Sectors,       \* erase sectors of the image
    Torn,          \* the contents of a sector whose replacement was cut short
    Nil,           \* no variable
    MaxPowerLoss,  \* bound: power losses and resets
    MaxSets        \* bound: setenv commands

Var == [name : Names, val : Vals]

\* Room the variables of data take.
Used(data) ==
    LET sum[i \in 0 .. Len(data)] == IF i = 0 THEN 0 ELSE sum[i - 1] + Weight[data[i].val]
    IN  sum[Len(data)]

\* The definitions of name n; the first one is the one a search finds.
IndexOf(data, n) == {i \in DOMAIN data : data[i].name = n}
FirstOf(data, n) == CHOOSE i \in IndexOf(data, n) : \A j \in IndexOf(data, n) : i <= j

\* data defines name n at most once.
Once(data, n) == \A i, j \in IndexOf(data, n) : i = j

\* The names default_environment does not define twice.  It does define some
\* twice: bootdelay and ethaddr come from CONFIG_BOOTDELAY and CONFIG_ETHADDR
\* and again from CONFIG_EXTRA_ENV_SETTINGS (pdk7105.h).
Single == {n \in Names : Once(Default, n)}

ASSUME EnvAssumption ==
    /\ Baudrate \in Names
    /\ ConsoleNames \subseteq Names \ {Baudrate}
    /\ Weight \in [Vals -> Nat \ {0, 1}]
    /\ EnvSize \in Nat
    /\ Supported \subseteq Vals
    /\ ConfigBaudrate \in Vals
    /\ Default \in Seq(Var)
    /\ Used(Default) <= EnvSize
    /\ Nil \notin Var
    /\ Sectors \in Nat \ {0}
    /\ MaxPowerLoss \in Nat
    /\ MaxSets \in Nat

\* The image, of CFG_ENV_SIZE bytes, has room for every environment.
ASSUME ImageHoldsAll == EnvSize <= 2 * Sectors + 1

VARIABLES
    flash,     \* the image in flash, by sector
    ram,       \* env_ptr: the crc and the data in RAM
    valid,     \* gd->env_valid
    baud,      \* gd->baudrate
    probed,    \* spi_init recognised the flash
    pc,        \* "off", then the steps of start_sh4boot, "run", "save"
    sect,      \* saveenv: sector being replaced
    erased,    \* saveenv: it has been erased
    saved,     \* history: what the last complete saveenv wrote, or boot accepted
    attempt,   \* history: RAM environment of the last saveenv
    overflow,  \* history: setenv has reported an overflow since the boot
    cuts, sets

vars == <<flash, ram, valid, baud, probed, pc, sect, erased, saved, attempt,
          overflow, cuts, sets>>
history == <<saved, attempt, overflow>>
saving == <<sect, erased>>

-----------------------------------------------------------------------------
(* The image.                                                              *)

VarAt(data, s) == IF s <= Len(data) THEN data[s] ELSE Nil

\* The s-th sector of the image of environment e.
Piece(e, s) == [crc |-> IF s = 1 THEN e.crc ELSE <<>>, var |-> VarAt(e.data, s)]
ImageOf(e) == [s \in 1 .. Sectors |-> Piece(e, s)]

Intact == \A s \in 1 .. Sectors : flash[s] # Torn

\* Mutant: the CRC is computed over the first sector only.
CrcMatchesFirst == flash[1] # Torn /\ flash[1].var = VarAt(flash[1].crc, 1)

\* The CRC in the first sector is that of the data in all of them.
CrcMatches == Intact /\ \A s \in 1 .. Sectors : flash[s].var = VarAt(flash[1].crc, s)

\* The variables end at the first empty one.
VarIn(s) == IF flash[s] = Torn THEN Nil ELSE flash[s].var
FlashLen ==
    CHOOSE k \in 0 .. Sectors :
        /\ \A s \in 1 .. k : VarIn(s) # Nil
        /\ k < Sectors => VarIn(k + 1) = Nil
FlashData == [s \in 1 .. FlashLen |-> VarIn(s)]
FlashEnv == [crc |-> flash[1].crc, data |-> FlashData]

ValueOf(data, n, default) ==
    IF IndexOf(data, n) = {} THEN default
    ELSE data[FirstOf(data, n)].val

-----------------------------------------------------------------------------
(* start_sh4boot: env_init, init_baudrate, spi_init, env_relocate.         *)

env_init ==
    /\ pc = "off"
    /\ valid' = CrcMatches
    /\ saved' = IF CrcMatches THEN FlashEnv.data ELSE saved
    /\ pc' = "baud"
    /\ UNCHANGED <<flash, ram, baud, probed, saving, attempt, overflow, cuts, sets>>

\* Before relocation env_get_char_spec reads the image from its CRC field on.
\* Depending on zero bytes in the CRC this hides the first variable behind
\* CRC bytes, hides every variable behind an empty string, or hides none.
EarlyViews(data) == {data, <<>>, IF data = <<>> THEN data ELSE Tail(data)}

init_baudrate ==
    /\ pc = "baud"
    /\ \E view \in IF valid THEN EarlyViews(FlashEnv.data) ELSE {Default} :
          baud' = ValueOf(view, Baudrate, ConfigBaudrate)
    /\ pc' = "spi"
    /\ UNCHANGED <<flash, ram, valid, probed, saving, history, cuts, sets>>

spi_init ==
    /\ pc = "spi"
    /\ probed' \in BOOLEAN
    /\ pc' = "relocate"
    /\ UNCHANGED <<flash, ram, valid, baud, saving, history, cuts, sets>>

env_relocate ==
    /\ pc = "relocate"
    /\ ram' = IF valid THEN FlashEnv ELSE [crc |-> Default, data |-> Default]
    /\ valid' = TRUE
    /\ pc' = "run"
    /\ UNCHANGED <<flash, baud, probed, saving, history, cuts, sets>>

-----------------------------------------------------------------------------
(* _do_setenv.                                                             *)

\* Mutant: an existing definition is kept.
WithoutNothing(data, n) == data

\* The definition found is deleted and the ones behind it move up; EnvText has
\* the loop that moves them byte by byte.
Without(data, n) ==
    IF IndexOf(data, n) = {} THEN data
    ELSE [k \in 1 .. Len(data) - 1 |->
             IF k < FirstOf(data, n) THEN data[k] ELSE data[k + 1]]
Defined(n) == IndexOf(ram.data, n) # {}
env_crc_update(data) == ram' = [crc |-> data, data |-> data]

\* Checks made before an existing definition is deleted.  b is the rate the
\* command asks for: its argument, or, when "baudrate" is to be deleted, what
\* simple_strtoul(NULL) happens to read.  A console variable cannot be
\* deleted, and console_assign may refuse its new device.
MayReplace(n, delete, b, assigned) ==
    Defined(n) => /\ n = Baudrate => b \in Supported
                  /\ n \in ConsoleNames => ~delete /\ assigned

SetBaud(n, b) == baud' = IF Defined(n) /\ n = Baudrate THEN b ELSE baud

setenvRefused(n, delete, b, assigned) ==
    /\ ~MayReplace(n, delete, b, assigned)
    /\ UNCHANGED <<ram, baud, overflow>>

\* Mutant: a deletion leaves the CRC alone.
setenvDeleteOldCrc(n, b, assigned) ==
    /\ MayReplace(n, TRUE, b, assigned)
    /\ SetBaud(n, b)
    /\ ram' = [ram EXCEPT !.data = Without(ram.data, n)]
    /\ UNCHANGED overflow

setenvDelete(n, b, assigned) ==
    /\ MayReplace(n, TRUE, b, assigned)
    /\ SetBaud(n, b)
    /\ env_crc_update(Without(ram.data, n))
    /\ UNCHANGED overflow

\* Mutant: the room left is not checked.
setenvAppendNoCheck(n, v, assigned) ==
    /\ MayReplace(n, FALSE, v, assigned)
    /\ SetBaud(n, v)
    /\ env_crc_update(Append(Without(ram.data, n), [name |-> n, val |-> v]))
    /\ UNCHANGED overflow

\* Mutant: closing the gap of the old definition drops one variable more.
setenvAppendDropsFirst(n, v, assigned) ==
    /\ MayReplace(n, FALSE, v, assigned)
    /\ SetBaud(n, v)
    /\ Without(ram.data, n) # <<>>
    /\ Used(Without(ram.data, n)) + Weight[v] <= EnvSize
    /\ env_crc_update(Append(Tail(Without(ram.data, n)), [name |-> n, val |-> v]))
    /\ UNCHANGED overflow

setenvAppend(n, v, assigned) ==
    /\ MayReplace(n, FALSE, v, assigned)
    /\ SetBaud(n, v)
    /\ Used(Without(ram.data, n)) + Weight[v] <= EnvSize
    /\ env_crc_update(Append(Without(ram.data, n), [name |-> n, val |-> v]))
    /\ UNCHANGED overflow

\* No room: the old definition is gone and the CRC is not recomputed.
setenvOverflow(n, v, assigned) ==
    /\ MayReplace(n, FALSE, v, assigned)
    /\ SetBaud(n, v)
    /\ Used(Without(ram.data, n)) + Weight[v] > EnvSize
    /\ ram' = [ram EXCEPT !.data = Without(ram.data, n)]
    /\ overflow' = TRUE

do_setenv ==
    /\ pc = "run"
    /\ sets < MaxSets
    /\ sets' = sets + 1
    /\ \E n \in Names, v \in Vals, assigned \in BOOLEAN :
          \/ \E delete \in BOOLEAN : setenvRefused(n, delete, v, assigned)
          \/ setenvDelete(n, v, assigned)
          \/ setenvAppend(n, v, assigned)
          \/ setenvOverflow(n, v, assigned)
    /\ UNCHANGED <<flash, saving, saved, attempt, valid, probed, pc, cuts>>

-----------------------------------------------------------------------------
(* saveenv: eeprom_write ignores what spi_write returns, so a flash that   *)
(* was not recognised is not written and the command still succeeds.       *)

\* Mutant: the image is written from the sector before it on.
saveenvFromZero ==
    /\ pc = "run"
    /\ probed
    /\ pc' = "save"
    /\ sect' = 0
    /\ erased' = FALSE
    /\ attempt' = ram
    /\ UNCHANGED <<flash, ram, valid, baud, probed, saved, overflow, cuts, sets>>

saveenv ==
    /\ pc = "run"
    /\ probed
    /\ pc' = "save"
    /\ sect' = 1
    /\ erased' = FALSE
    /\ attempt' = ram
    /\ UNCHANGED <<flash, ram, valid, baud, probed, saved, overflow, cuts, sets>>

EraseSector ==
    /\ pc = "save" /\ ~erased
    /\ flash' = [flash EXCEPT ![sect] = Torn]
    /\ erased' = TRUE
    /\ UNCHANGED <<ram, valid, baud, probed, pc, sect, history, cuts, sets>>

ProgramSector ==
    /\ pc = "save" /\ erased
    /\ flash' = [flash EXCEPT ![sect] = Piece(ram, sect)]
    /\ erased' = FALSE
    /\ \/ /\ sect < Sectors
          /\ sect' = sect + 1
          /\ UNCHANGED <<pc, saved>>
       \/ /\ sect = Sectors
          /\ pc' = "run"
          /\ saved' = ram.data
          /\ UNCHANGED sect
    /\ UNCHANGED <<ram, valid, baud, probed, attempt, overflow, cuts, sets>>

\* The power fails, or do_reset restarts the board: RAM is lost.
PowerOff ==
    /\ pc # "off"
    /\ cuts < MaxPowerLoss
    /\ cuts' = cuts + 1
    /\ pc' = "off"
    /\ overflow' = FALSE
    /\ UNCHANGED <<flash, ram, valid, baud, probed, saving, saved, attempt, sets>>

-----------------------------------------------------------------------------
Init ==
    /\ ram = [crc |-> Default, data |-> Default]
    /\ flash = ImageOf(ram)
    /\ valid = FALSE
    /\ baud = ConfigBaudrate
    /\ probed = FALSE
    /\ pc = "off"
    /\ sect = 1 /\ erased = FALSE
    /\ saved = Default /\ attempt = ram
    /\ overflow = FALSE
    /\ cuts = 0 /\ sets = 0

Boot == env_init \/ init_baudrate \/ spi_init \/ env_relocate
Save == saveenv \/ EraseSector \/ ProgramSector
Next == Boot \/ do_setenv \/ Save \/ PowerOff

Spec == Init /\ [][Next]_vars

-----------------------------------------------------------------------------
(* Properties.                                                             *)

EnvRec == [crc : Seq(Var), data : Seq(Var)]

\* The environment in RAM, its image and the position of saveenv keep their types.
TypeOK ==
    /\ DOMAIN flash = 1 .. Sectors
    /\ ram \in EnvRec
    /\ valid \in BOOLEAN /\ probed \in BOOLEAN /\ erased \in BOOLEAN
    /\ overflow \in BOOLEAN
    /\ baud \in Vals
    /\ pc \in {"off", "baud", "spi", "relocate", "run", "save"}
    /\ sect \in 1 .. Sectors
    /\ saved \in Seq(Var) /\ attempt \in EnvRec
    /\ cuts \in 0 .. MaxPowerLoss /\ sets \in 0 .. MaxSets

\* Whatever instant the power fails at, the environment that the next boot
\* accepts is never a mixture: it is the one saved or loaded last, or the one whose
\* saving was under way (after an overflow its CRC may still be that of the
\* environment before it).  Anything else fails the CRC.
BootAccepts == IF CrcMatches THEN {FlashEnv.data} ELSE {}
NoMixedEnvironment == BootAccepts \subseteq {saved, attempt.data, attempt.crc}

\* The environment stays within ENV_SIZE, and no name comes to be defined twice
\* that default_environment does not define twice, through any sequence of
\* sets, deletions, overflows, saves and reboots.
WellFormed ==
    /\ Used(ram.data) <= EnvSize
    /\ \A n \in Single : Once(ram.data, n)

\* A setenv command changes at most one variable: getenv finds for every other
\* name what it found before, also when the environment overflows and also in
\* an environment with names defined twice.
OneVariableAtATime ==
    [][pc = "run" /\ pc' = "run" =>
          \E n \in Names : \A m \in Names \ {n} :
              ValueOf(ram'.data, m, Nil) = ValueOf(ram.data, m, Nil)]_vars

\* What setenv promises for the names in S: getenv finds the value set, and
\* nothing after a deletion.
Effective(S) ==
    pc = "run" /\ pc' = "run" =>
        \A n \in S, v \in Vals, assigned \in BOOLEAN :
            /\ setenvDelete(n, v, assigned) => ValueOf(ram'.data, n, Nil) = Nil
            /\ setenvAppend(n, v, assigned) => ValueOf(ram'.data, n, Nil) = v

\* A setenv that is carried out takes effect on every name that the default
\* environment does not define twice.
SetenvTakesEffect == [][Effective(Single)]_vars

\* The help of setenv, for every name: "set environment variable 'name' to
\* 'value ...'" and "delete environment variable 'name'" (cmd_nvedit.c).
SetenvAlwaysTakesEffect == [][Effective(Names)]_vars

\* The CRC in RAM always covers the data, except after a reported overflow: so
\* every environment saved without one is accepted by the next boot.
CrcCoversData == pc \in {"run", "save"} /\ ~overflow => ram.crc = ram.data

\* After an overflow setenv says: environment overflow, "name" deleted.  Only
\* that variable is to be lost: an environment that has been saved completely
\* is accepted by the next boot.
SavedEnvironmentIsAccepted == pc = "run" /\ flash = ImageOf(ram) => CrcMatches

\* The baud rate set up before relocation is the one the environment asks for.
BaudrateHonoured ==
    [][pc = "relocate" /\ pc' = "run" =>
          baud = ValueOf(ram'.data, Baudrate, ConfigBaudrate)]_vars
=============================================================================
