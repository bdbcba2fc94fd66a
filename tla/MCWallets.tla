----------------------------- MODULE MCWallets -----------------------------
(***************************************************************************)
(* Model checking of Wallets, whose mounts are buttons here and whose      *)
(* sessions are sheets: the proofs have a card form's mounts beside them.  *)
(***************************************************************************)
EXTENDS Naturals

CONSTANTS
    MaxButtons,  \* MaxMounts and
    MaxSheets    \* MaxSessions of Wallets

ASSUME ButtonsAssumption == MaxButtons \in Nat
ASSUME SheetsAssumption == MaxSheets \in Nat

VARIABLES wallet, script, tags, activeButton, sheets, buttons

W == INSTANCE Wallets
         WITH MaxMounts <- MaxButtons, MaxSessions <- MaxSheets,
              active <- activeButton, sessions <- sheets, mounts <- buttons

WalletsSpec == W!Spec
FairWalletsSpec == W!FairSpec

-----------------------------------------------------------------------------

(* load-script.ts:1-5,39-41: Wallets!ScriptShared.                          *)
ScriptShared == W!ScriptShared

(* wallets.module.ts:1196-1203,1399-1405,1440-1447: Wallets!SheetTracked.   *)
SheetTracked == W!SheetTracked

(* wallets.module.ts:79-94: a button implements ChargeFlow.                 *)
ButtonsImplementChargeFlow == W!ImplementsChargeFlow

(* wallets.module.ts:811-822,857-859: Wallets!WalletEnds.                   *)
WalletEnds == W!WalletEnds

(* wallets.module.ts:1031-1034,1547-1550: Wallets!OneButton.                *)
OneButton == W!OneButton

=============================================================================
