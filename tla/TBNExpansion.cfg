CONSTANTS
  Pages = {0, 1, 2, 3, 5, 6, 8, 9, 10, 13}
  PagesPerRegion = 2
  RegionsPerBlock = 4
  MaxFetchLevel = 3
  PrefetchDisabled = FALSE
SPECIFICATION Spec
INVARIANTS ResultIsFetchLevel SelectionIsDense MoreResidentFetchesMore
CHECK_DEADLOCK FALSE
