-------------------------------- MODULE Nvmc ---------------------------------
(***************************************************************************)
(* The flash controller of the Renode platforms                            *)
(* (scripts/lib/renode/platforms/models/nvmc.py): READY is always 1,       *)
(* CONFIG is stored but not enforced, and in one place for all machines;   *)
(* a page erase fills the page of the machine that asks for it.  Flash is  *)
(* plain memory otherwise: a store replaces the word, whatever it held.    *)
(***************************************************************************)
EXTENDS Naturals

CONSTANTS NvmcMachine,
          PageSize,   (* 0x1000, here in words                             *)
          Pages,      (* bound: pages of the storage partition             *)
          Value,      (* what a word may hold,                             *)
          Blank       (* and 0xFFFFFFFF                                    *)

ASSUME NvmcAssumption == PageSize \in Nat \ {0} /\ Pages \in Nat \ {0} /\ Blank \in Value

VARIABLES
  config,  (* "REN", "WEN" or "EEN"                                        *)
  flash    (* machine -> address -> word                                   *)

nvmcVars == <<config, flash>>

Address == 0..(Pages * PageSize - 1)
PageOf(addr) == addr \div PageSize

NvmcTypeOK ==
  /\ config \in {"REN", "WEN", "EEN"}
  /\ flash \in [NvmcMachine -> [Address -> Value]]

NvmcInit ==
  /\ config = "REN"
  /\ flash = [m \in NvmcMachine |-> [a \in Address |-> Blank]]

\* Mutant: the erase obeys CONFIG.
EraseIfEnabled(m, addr) ==
  flash' = IF config # "EEN" THEN flash
           ELSE [flash EXCEPT ![m] = [a \in Address |->
                   IF PageOf(a) = PageOf(addr) THEN Blank ELSE @[a]]]

\* The whole page around the address, on the bus of the machine that wrote.
_erase_page(m, addr) ==
  flash' = [flash EXCEPT ![m] = [a \in Address |->
              IF PageOf(a) = PageOf(addr) THEN Blank ELSE @[a]]]

\* ERASEPAGE, ERASEPCR0 and ERASEPAGEPARTIAL.
WriteErasePage(m, addr) == _erase_page(m, addr) /\ UNCHANGED config

WriteConfig(mode) == config' = mode /\ UNCHANGED flash

READY == TRUE

\* The flash driver's word write.
StoreWord(m, addr, value) ==
  flash' = [flash EXCEPT ![m][addr] = value] /\ UNCHANGED config
=============================================================================
