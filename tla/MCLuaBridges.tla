---------------------------- MODULE MCLuaBridges ----------------------------
(***************************************************************************)
(* The two small bridges between the settings of the trainer and the       *)
(* game's Lua: FeatureRegistry, through which scripts write settings, and  *)
(* FarmingMode, which forces a flag of the game's scripts.  They share     *)
(* nothing, so a behaviour exercises one of them while the other rests in  *)
(* an initial state.                                                       *)
(***************************************************************************)
EXTENDS FeatureRegistry, FarmingMode

VARIABLE active \* the bridge of this behaviour

sumVars == <<active, vars, farmingVars>>

\* What the game starts with is chosen only for the bridge that runs.
SumInit ==
  /\ active \in {"registry", "farming"}
  /\ Init /\ (active # "registry" => available = {})
  /\ FarmingInit /\ (active # "farming" => current = CHOOSE m \in Menus : TRUE)

InRegistry(step) == active = "registry" /\ step /\ UNCHANGED <<active, farmingVars>>
InFarming(step) == active = "farming" /\ step /\ UNCHANGED <<active, vars>>

SumNext == InRegistry(Next) \/ InFarming(FarmingNext)

\* The fairness of FairSpec and of FairFarming.
FairSumSpec ==
  /\ SumInit /\ [][SumNext]_sumVars
  /\ WF_sumVars(InRegistry(TakeWrites))
  /\ WF_sumVars(InRegistry(ServeWrite))
  /\ WF_sumVars(InRegistry(RefreshSnapshot))
  /\ WF_sumVars(InFarming(UpdateFarmingMode))
  /\ WF_sumVars(InFarming(LoadScripts))
  /\ WF_sumVars(InFarming(RunCall))
=============================================================================
