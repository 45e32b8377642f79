SPECIFICATION FilterSpec
CONSTANTS
  FilterHandles = {h1, h2, h3, h4, h5, h6, h7, h8}
  None = None
  Collections = {"images"}
  Exports = {"EspCreateAndFilter", "EspCreateOrFilter", "EspCreateNotFilter", "EspCloseFilter"}
  RuleDocuments <- AllDocuments
INVARIANT FiltersOwned
INVARIANT RuleFiltersLive
