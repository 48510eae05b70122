------------------------------ MODULE Optimizer ------------------------------
(***************************************************************************)
(* The sixteen passes, in the order optimize() runs them.                   *)
(***************************************************************************)
EXTENDS ConstantPasses, MemoryPasses, IdiomPasses, Inliner

OptimizerPass(n, f, options) ==
  CASE n = 1  -> FoldFunction(f, options)
    [] n = 2  -> PropagateConditionalConstants(f, options)
    [] n = 3  -> ReduceStrength(f, options)
    [] n = 4  -> ForwardLoads(f, options)
    [] n = 5  -> ForwardRestrictLoads(f, options)
    [] n = 6  -> PropagateCopies(f, options)
    [] n = 7  -> EliminateCommonSubexpressions(f, options)
    [] n = 8  -> EliminateDeadStores(f, options)
    [] n = 9  -> ThreadJumps(f, options)
    [] n = 10 -> RemoveUnreachableBlocks(f, options)
    [] n = 11 -> HoistLoopInvariants(f, options)
    [] n = 12 -> LowerLoopIdioms(f, options)
    [] n = 13 -> LowerSearchIdioms(f, options)
    [] n = 14 -> ReduceInduction(f, options)
    [] n = 15 -> LayoutBlocks(f, options)
    [] n = 16 -> EliminateDeadCode(f, options)
=============================================================================
