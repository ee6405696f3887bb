\* Jobs of both sources through pages, reference data, normalization and
\* detection, in the situations MCWorlds lists.
SPECIFICATION FairSpec
CONSTANTS
  None = None
  Provinces <- MCProvinces
  Cities <- MCCities
  Regions <- MCRegions
  ProvinceOf <- MCProvinceOf
  CityOf <- MCCityOf
  ByName <- MCByName
  NameOf <- MCNameOf
  CodeOf <- MCCodeOf
  ExternalIds <- MCExternalIds
  Names <- MCNames
  UnitFactor <- MCUnitFactor
  Listings <- MCListings
  Pages <- MCPages
  Worlds <- MCWorlds
  PageSize = 2
  MaxPages = 8
  MaxErrors = 2
  BucketLimit = 3
INVARIANTS TypeOK ReportAddsUp SucceededSawAll IndexIsClosed StoredPlaceIsAChain PlaceIsTrue ReportIsWhatWasCrawled PageIsRead NoWrongAmount CandidatesAreEvidence
PROPERTY CrawlEnds
CHECK_DEADLOCK FALSE
