SPECIFICATION VocabulariesSpec
CONSTANTS
  Names = {"a", "b", "c"}
  Natives = {"a"}
  Commands = {"a"}
  Lambdas = {"c"}
  Aliases <- TwoAliases
  Sites = {"a"}
  Calls = {c1, c2}
  NameOf <- AllB
  SigilOf <- Plain
  MyKey = 1
  OtherNames = {"b"}
  MaxLinks = 64
  MaxGen = 3
  MaxKey = 3
  MaxBindings = 3
SYMMETRY Copies
INVARIANTS CalledByName GuardSound CycleTold
